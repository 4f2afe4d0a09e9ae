------------------------ MODULE ClockCrossingProofs -------------------------
(***************************************************************************)
(* Crossing between two clocks: a handshake carries one word at a time,    *)
(* and the bridge that is built of two of them one request.                *)
(***************************************************************************)
EXTENDS CdcHandshake, BusCdcBridge, TLAPS

(***************************************************************************)
(* cdc_handshake is a one-place channel for every payload type, every      *)
(* synchronizer length and every relation between the two clocks.          *)
(***************************************************************************)

\* When the source is ready the whole chain carries its toggle, so the channel
\* is empty and nothing is being captured or acknowledged.
LEMMA Settled ==
  ASSUME Inv, src.ready
  PROVE  /\ \A i \in Stages : dst.req_sync[i] = src.req_toggle
         /\ \A i \in Stages : src.ack_sync[i] = src.req_toggle
         /\ dst.req_prev = src.req_toggle
         /\ dst.ack_toggle = src.req_toggle
         /\ ~dst.valid
BY StagesAssumption DEF Inv, TypeOK, HandshakeInv, ChainOrdered, SrcState,
   DstState, Stages

\* The synchronizer functions keep their type.
LEMMA ShiftType ==
  ASSUME NEW sync \in [Stages -> BOOLEAN], NEW din \in BOOLEAN
  PROVE  Shift(sync, din) \in [Stages -> BOOLEAN]
BY StagesAssumption DEF Shift, Stages

\* The registers have their types after every clock edge.
LEMMA TypeStep ==
  ASSUME TypeOK, [Next]_vars
  PROVE  TypeOK'
<1>1. ASSUME NEW v \in BOOLEAN, NEW x \in Data
      PROVE  SrcNext(src, dst, v, x) \in SrcState
  BY ShiftType DEF TypeOK, SrcNext, SrcState, DstState, SrcFire, Acknowledged
<1>2. ASSUME NEW r \in BOOLEAN
      PROVE  DstNext(dst, src, r) \in DstState
  <2>1. dst.req_sync[SYNC_STAGES] \in BOOLEAN
    BY StagesAssumption DEF TypeOK, DstState, Stages
  <2> QED
    BY <2>1, ShiftType DEF TypeOK, DstNext, SrcState, DstState, DstFire, ReqSeen
<1>3. TypeOK => dst.data \in Data
  BY DEF TypeOK, DstState
<1> QED
  BY <1>1, <1>2, <1>3 DEF TypeOK, Next, vars, SrcStep, DstStep, BothStep,
     SrcEdge, DstEdge

\* One clock edge, or both at once, keeps the handshake invariant.
LEMMA InvStep ==
  ASSUME Inv, [Next]_vars
  PROVE  HandshakeInv'
<1> USE StagesAssumption DEF Stages
<1>1. CASE UNCHANGED vars
  BY <1>1 DEF Inv, HandshakeInv, ChainOrdered, vars
<1>2. ASSUME NEW v \in BOOLEAN, NEW x \in Data, SrcStep(v, x)
      PROVE  HandshakeInv'
  BY <1>2, Settled DEF Inv, TypeOK, HandshakeInv, ChainOrdered, SrcState,
     DstState, SrcStep, SrcEdge, SrcNext, SrcFire, Acknowledged, Shift
<1>3. ASSUME NEW r \in BOOLEAN, DstStep(r)
      PROVE  HandshakeInv'
  BY <1>3, Settled DEF Inv, TypeOK, HandshakeInv, ChainOrdered, SrcState,
     DstState, DstStep, DstEdge, DstNext, DstFire, ReqSeen, Shift
<1>4. ASSUME NEW v \in BOOLEAN, NEW x \in Data, NEW r \in BOOLEAN,
             BothStep(v, x, r)
      PROVE  HandshakeInv'
  BY <1>4, Settled DEF Inv, TypeOK, HandshakeInv, ChainOrdered, SrcState,
     DstState, BothStep, SrcEdge, SrcNext, SrcFire, Acknowledged, Shift,
     DstEdge, DstNext, DstFire, ReqSeen
<1> QED
  BY <1>1, <1>2, <1>3, <1>4 DEF Next

\* The invariant holds in every reachable state.
THEOREM HandshakeSafe == Spec => []Inv
<1>1. Init => Inv
  <2> SUFFICES ASSUME Init PROVE Inv
    OBVIOUS
  <2>1. SYNC_STAGES \in Stages /\ SyncReset \in [Stages -> BOOLEAN]
    BY StagesAssumption DEF Stages, SyncReset
  <2>2. TypeOK
    BY <2>1 DEF Init, TypeOK, SrcReset, DstReset, SrcState, DstState
  <2>3. /\ src.req_toggle = FALSE /\ src.pending = FALSE /\ src.ready = TRUE
        /\ dst.valid = FALSE /\ dst.ack_toggle = FALSE /\ dst.req_prev = FALSE
        /\ \A i \in Stages : src.ack_sync[i] = FALSE /\ dst.req_sync[i] = FALSE
    BY DEF Init, SrcReset, DstReset, SyncReset
  <2>4. HandshakeInv
    BY <2>1, <2>3, Zenon DEF HandshakeInv, ChainOrdered
  <2> QED
    BY <2>2, <2>4 DEF Inv
<1>2. Inv /\ [Next]_vars => Inv'
  BY TypeStep, InvStep DEF Inv
<1> QED
  BY <1>1, <1>2, PTL DEF Spec

\* The payload is stable whenever dst_clk samples it, for every chain length.
THEOREM CaptureStable == Spec => []StableAtCapture
<1>1. Inv => StableAtCapture
  BY Settled, StagesAssumption DEF Inv, TypeOK, HandshakeInv, ChainOrdered,
     SrcState, DstState, StableAtCapture, ReqSeen, Stages
<1> QED
  BY <1>1, HandshakeSafe, PTL

\* cdc_handshake implements the one-place channel.
THEOREM HandshakeIsChannel == Spec => IsChannel
<1>1. Init => Chan!Init
  BY DEF Init, Chan!Init, InFlight, SrcReset, DstReset
<1>2. Inv /\ [Next]_vars => [Chan!Next]_<<InFlight, taken>>
  <2> SUFFICES ASSUME Inv, [Next]_vars
               PROVE  [Chan!Next]_<<InFlight, taken>>
    OBVIOUS
  <2>1. CASE UNCHANGED vars
    BY <2>1 DEF vars, InFlight
  <2>2. ASSUME NEW v \in BOOLEAN, NEW x \in Data, SrcEdge(v, x),
               dst.ack_toggle' = dst.ack_toggle, taken' = taken
        PROVE  [Chan!Next]_<<InFlight, taken>>
    <3>1. CASE SrcFire(src, v)
      <4>1. InFlight = << >> /\ InFlight' = <<x>>
        BY <2>2, <3>1, Settled DEF InFlight, Inv, TypeOK, SrcState, DstState, SrcEdge,
           SrcNext, SrcFire
      <4>2. Chan!Put(x)
        BY <4>1, <2>2 DEF Chan!Put
      <4> QED
        BY <4>2 DEF Chan!Next
    <3>2. CASE ~SrcFire(src, v)
      BY <2>2, <3>2 DEF InFlight, SrcEdge, SrcNext
    <3> QED
      BY <3>1, <3>2
  <2>3. ASSUME NEW r \in BOOLEAN, DstEdge(r),
               src.req_toggle' = src.req_toggle, src.data_hold' = src.data_hold
        PROVE  [Chan!Next]_<<InFlight, taken>>
    <3>1. CASE DstFire(dst, r)
      <4>1. InFlight = <<src.data_hold>> /\ InFlight' = << >>
        BY <2>3, <3>1 DEF InFlight, Inv, TypeOK, HandshakeInv, ChainOrdered,
           SrcState, DstState, DstEdge, DstNext, DstFire
      <4>2. taken' = src.data_hold
        BY <2>3, <3>1 DEF Inv, HandshakeInv, DstEdge, DstFire
      <4>3. Chan!Take
        BY <4>1, <4>2 DEF Chan!Take
      <4> QED
        BY <4>3 DEF Chan!Next
    <3>2. CASE ~DstFire(dst, r)
      BY <2>3, <3>2 DEF InFlight, DstEdge, DstNext
    <3> QED
      BY <3>1, <3>2
  <2>4. ASSUME NEW v \in BOOLEAN, NEW x \in Data, SrcStep(v, x)
        PROVE  [Chan!Next]_<<InFlight, taken>>
    BY <2>2, <2>4 DEF SrcStep
  <2>5. ASSUME NEW r \in BOOLEAN, DstStep(r)
        PROVE  [Chan!Next]_<<InFlight, taken>>
    BY <2>3, <2>5 DEF DstStep
  <2>6. ASSUME NEW v \in BOOLEAN, NEW x \in Data, NEW r \in BOOLEAN,
               BothStep(v, x, r)
        PROVE  [Chan!Next]_<<InFlight, taken>>
    <3>1. CASE SrcFire(src, v)
      <4>1. ~dst.valid
        BY <3>1, Settled DEF SrcFire
      <4>2. dst.ack_toggle' = dst.ack_toggle /\ taken' = taken
        BY <2>6, <4>1 DEF BothStep, DstEdge, DstNext, DstFire
      <4> QED
        BY <2>2, <2>6, <4>2 DEF BothStep
    <3>2. CASE ~SrcFire(src, v)
      <4>1. src.req_toggle' = src.req_toggle /\ src.data_hold' = src.data_hold
        BY <2>6, <3>2 DEF BothStep, SrcEdge, SrcNext
      <4> QED
        BY <2>3, <2>6, <4>1 DEF BothStep
    <3> QED
      BY <3>1, <3>2
  <2> QED
    BY <2>1, <2>4, <2>5, <2>6 DEF Next
<1> QED
  BY <1>1, <1>2, HandshakeSafe, PTL DEF Spec, IsChannel, Chan!Spec

(***************************************************************************)
(* The bridge carries one request at a time, for every kind of request,    *)
(* every length of the synchronizers and every relation between the two    *)
(* clocks, across resets that its two sides enter and leave at different   *)
(* times.                                                                  *)
(***************************************************************************)

Flops == 1 .. BRIDGE_STAGES

(***************************************************************************)
(* A handshake with registers s and d: what CdcHandshake proves of one is  *)
(* needed here of two that share their clocks and their reset.             *)
(***************************************************************************)
Hand(s, d) ==
  /\ \A i \in Flops : d.req_sync[i] # s.req_toggle =>
        (\A j \in Flops : i <= j => d.req_sync[j] # s.req_toggle) /\ d.req_prev # s.req_toggle
  /\ d.req_prev # s.req_toggle => d.ack_toggle # s.req_toggle
  /\ d.ack_toggle # s.req_toggle => \A j \in Flops : s.ack_sync[j] # s.req_toggle
  /\ \A i, j \in Flops : s.ack_sync[i] # s.req_toggle /\ i <= j => s.ack_sync[j] # s.req_toggle
  /\ s.ready = ~s.pending
  /\ s.ready => s.ack_sync[BRIDGE_STAGES] = s.req_toggle
  /\ d.valid = (d.req_prev # d.ack_toggle)
  /\ d.valid => d.data = s.data_hold

\* A word is under way in the handshake.
Carries(s, d) == s.req_toggle # d.ack_toggle

\* A ready source has nothing under way, and what is offered is what was sent
\* (cdc_handshake.sv).
LEMMA HandFacts ==
  ASSUME LongReset, NEW s \in A!SrcState, NEW d \in A!DstState, Hand(s, d)
  PROVE  /\ s.ready => /\ ~Carries(s, d) /\ ~d.valid /\ d.req_prev = s.req_toggle
                       /\ \A i \in Flops : d.req_sync[i] = s.req_toggle /\ s.ack_sync[i] = s.req_toggle
         /\ d.valid => Carries(s, d) /\ d.data = s.data_hold
BY DEF LongReset, Hand, Carries, A!SrcState, A!DstState, A!Stages, Flops

\* The registers keep their types.
LEMMA HandType ==
  ASSUME LongReset, NEW s \in A!SrcState, NEW d \in A!DstState,
         NEW v \in BOOLEAN, NEW x \in Requests, NEW r \in BOOLEAN
  PROVE  A!SrcNext(s, d, v, x) \in A!SrcState /\ A!DstNext(d, s, r) \in A!DstState
<1>1. ASSUME NEW sync \in [A!Stages -> BOOLEAN], NEW din \in BOOLEAN
      PROVE  A!Shift(sync, din) \in [A!Stages -> BOOLEAN]
  BY DEF LongReset, A!Shift, A!Stages
<1>2. A!SrcNext(s, d, v, x) \in A!SrcState
  BY <1>1 DEF A!SrcNext, A!SrcState, A!DstState, A!SrcFire, A!Acknowledged
<1>3. d.req_sync[BRIDGE_STAGES] \in BOOLEAN
  BY DEF LongReset, A!DstState, A!Stages
<1>4. A!DstNext(d, s, r) \in A!DstState
  BY <1>1, <1>3 DEF A!DstNext, A!SrcState, A!DstState, A!DstFire, A!ReqSeen
<1> QED BY <1>2, <1>4

\* An edge of the source's clock: a word is under way from the moment it is taken.
LEMMA SrcHand ==
  ASSUME LongReset, NEW s \in A!SrcState, NEW d \in A!DstState, Hand(s, d),
         NEW v \in BOOLEAN, NEW x \in Requests, NEW s2, s2 = A!SrcNext(s, d, v, x)
  PROVE  /\ Hand(s2, d)
         /\ Carries(s2, d) <=> Carries(s, d) \/ (v /\ s.ready)
         /\ s2.data_hold = IF v /\ s.ready THEN x ELSE s.data_hold
BY HandFacts, SMTT(30) DEF LongReset, Hand, Carries, A!SrcState, A!DstState, A!Stages, Flops, A!SrcNext,
   A!SrcFire, A!Acknowledged, A!Shift

\* An edge of the destination's clock: it is until it is consumed.
LEMMA DstHand ==
  ASSUME LongReset, NEW s \in A!SrcState, NEW d \in A!DstState, Hand(s, d),
         NEW r \in BOOLEAN, NEW d2, d2 = A!DstNext(d, s, r)
  PROVE  /\ Hand(s, d2)
         /\ Carries(s, d2) <=> Carries(s, d) /\ ~(r /\ d.valid)
BY HandFacts, SMTT(30) DEF LongReset, Hand, Carries, A!SrcState, A!DstState, A!Stages, Flops, A!DstNext,
   A!DstFire, A!ReqSeen, A!Shift

(***************************************************************************)
(* Where the request is                                                    *)
(***************************************************************************)
Places == {"none", "offered", "request", "arrived", "served", "answered", "response", "back"}

\* It is at w and nowhere else.
At(w) ==
  /\ sys.aValid <=> w = "offered"
  /\ Carries(aSrc, aDst) <=> w = "request"
  /\ per.aValid <=> w = "arrived"
  /\ serving # Nothing <=> w = "served"
  /\ per.dValid <=> w = "answered"
  /\ Carries(dSrc, dDst) <=> w = "response"
  /\ sys.dValid <=> w = "back"
  /\ waiting = Nothing <=> w = "none"

\* And it is the request that the bus has under way.
Carried ==
  /\ sys.aValid => sys.aData = waiting
  /\ Carries(aSrc, aDst) => aSrc.data_hold = waiting
  /\ per.aValid => per.aData = waiting
  /\ serving # Nothing => serving = waiting
  /\ per.dValid => per.dData = waiting
  /\ Carries(dSrc, dDst) => dSrc.data_hold = waiting
  /\ sys.dValid => sys.dData = waiting

OnTheWay == Carried /\ \E w \in Places : At(w)

\* The eight ways in which it moves on: the bus offers (n), the first handshake
\* takes (pA) and delivers (tA), the peripheral accepts (ac) and answers (an),
\* the second handshake takes (pD) and delivers (tD), the bus takes the response (g).
Moves(n, q, pA, tA, ac, an, pD, tD, g) ==
  /\ n => waiting = Nothing
  /\ pA => sys.aValid
  /\ tA => Carries(aSrc, aDst) /\ aDst.data = aSrc.data_hold
  /\ ac => per.aValid
  /\ an => serving # Nothing
  /\ pD => per.dValid
  /\ tD => Carries(dSrc, dDst) /\ dDst.data = dSrc.data_hold
  /\ g => sys.dValid
  /\ sys'.aValid <=> n \/ (sys.aValid /\ ~pA)
  /\ sys'.aData = IF n THEN q ELSE sys.aData
  /\ Carries(aSrc', aDst') <=> (Carries(aSrc, aDst) /\ ~tA) \/ pA
  /\ aSrc'.data_hold = IF pA THEN sys.aData ELSE aSrc.data_hold
  /\ per'.aValid <=> tA \/ (per.aValid /\ ~ac)
  /\ per'.aData = IF tA THEN aDst.data ELSE per.aData
  /\ serving' = IF ac THEN per.aData ELSE IF an THEN Nothing ELSE serving
  /\ per'.dValid <=> an \/ (per.dValid /\ ~pD)
  /\ per'.dData = IF an THEN serving ELSE per.dData
  /\ Carries(dSrc', dDst') <=> (Carries(dSrc, dDst) /\ ~tD) \/ pD
  /\ dSrc'.data_hold = IF pD THEN per.dData ELSE dSrc.data_hold
  /\ sys'.dValid <=> tD \/ (sys.dValid /\ ~g)
  /\ sys'.dData = IF tD THEN dDst.data ELSE sys.dData
  /\ waiting' = IF n THEN q ELSE IF g THEN Nothing ELSE waiting

\* Whatever moves at an edge of one clock or of both, the request is in one place
\* afterwards (bus_cdc_bridge.sv:90-140).
LEMMA WayStep ==
  ASSUME LongReset, BridgeTypeOK, OnTheWay, NEW q \in Requests,
         NEW n, NEW pA, NEW tA, NEW ac, NEW an, NEW pD, NEW tD, NEW g,
         Moves(n, q, pA, tA, ac, an, pD, tD, g)
  PROVE  OnTheWay'
<1>1. per.aData \in Requests /\ q # Nothing /\ per.aData # Nothing
  BY DEF BridgeTypeOK, LongReset
<1>2. PICK w \in Places : At(w)
  BY DEF OnTheWay
<1>3. Carried
  BY DEF OnTheWay
<1>4. ASSUME w = "none"     PROVE At(IF n THEN "offered" ELSE w)' /\ Carried'
  BY <1>1, <1>2, <1>3, <1>4 DEF At, Carried, Moves
<1>5. ASSUME w = "offered"  PROVE At(IF pA THEN "request" ELSE w)' /\ Carried'
  BY <1>1, <1>2, <1>3, <1>5 DEF At, Carried, Moves
<1>6. ASSUME w = "request"  PROVE At(IF tA THEN "arrived" ELSE w)' /\ Carried'
  BY <1>1, <1>2, <1>3, <1>6 DEF At, Carried, Moves
<1>7. ASSUME w = "arrived"  PROVE At(IF ac THEN "served" ELSE w)' /\ Carried'
  BY <1>1, <1>2, <1>3, <1>7 DEF At, Carried, Moves
<1>8. ASSUME w = "served"   PROVE At(IF an THEN "answered" ELSE w)' /\ Carried'
  BY <1>1, <1>2, <1>3, <1>8 DEF At, Carried, Moves
<1>9. ASSUME w = "answered" PROVE At(IF pD THEN "response" ELSE w)' /\ Carried'
  BY <1>1, <1>2, <1>3, <1>9 DEF At, Carried, Moves
<1>10. ASSUME w = "response" PROVE At(IF tD THEN "back" ELSE w)' /\ Carried'
  BY <1>1, <1>2, <1>3, <1>10 DEF At, Carried, Moves
<1>11. ASSUME w = "back"    PROVE At(IF g THEN "none" ELSE w)' /\ Carried'
  BY <1>1, <1>2, <1>3, <1>11 DEF At, Carried, Moves
<1>12. \A n2 \in Places : At(n2)' /\ Carried' => OnTheWay'
  BY DEF OnTheWay
<1> QED BY <1>2, <1>4, <1>5, <1>6, <1>7, <1>8, <1>9, <1>10, <1>11, <1>12 DEF Places

(***************************************************************************)
(* The two sides                                                           *)
(***************************************************************************)
SysType == [aValid : BOOLEAN, aReady : BOOLEAN, aData : Requests, dValid : BOOLEAN, dData : Requests]
PerType == [aValid : BOOLEAN, aData : Requests, dValid : BOOLEAN, dReady : BOOLEAN, dData : Requests]

\* u_addr_channel_cdc and u_data_channel_cdc are the same module.
LEMMA SameHandshake ==
  /\ A!SrcState = D!SrcState /\ A!DstState = D!DstState
  /\ \A s, d, v, x : D!SrcNext(s, d, v, x) = A!SrcNext(s, d, v, x)
  /\ \A s, d, r : D!DstNext(d, s, r) = A!DstNext(d, s, r)
  /\ \A x : D!SrcReset(x) = A!SrcReset(x) /\ D!DstReset(x) = A!DstReset(x)
BY DEF A!SrcState, A!DstState, A!SrcNext, A!DstNext, A!SrcReset, A!DstReset, A!SrcFire, A!Acknowledged,
   A!DstFire, A!ReqSeen, A!Shift, A!Stages, A!SyncReset,
   D!SrcState, D!DstState, D!SrcNext, D!DstNext, D!SrcReset, D!DstReset, D!SrcFire, D!Acknowledged,
   D!DstFire, D!ReqSeen, D!Shift, D!Stages, D!SyncReset

\* An edge of sys_clk out of reset.
LEMMA SysFacts ==
  ASSUME LongReset, BridgeTypeOK, ~rst.sys,
         NEW v \in BOOLEAN, NEW q \in Requests, NEW ready \in BOOLEAN, v => waiting = Nothing,
         SysEdge(v, q, ready),
         NEW n, n = (v /\ sys.aReady), NEW p, p = (sys.aValid /\ aSrc.ready),
         NEW t, t = (dDst.valid /\ DDstReady(ready)), NEW g, g = (sys.dValid /\ ready)
  PROVE  /\ n \in BOOLEAN /\ p \in BOOLEAN /\ t \in BOOLEAN /\ g \in BOOLEAN
         /\ sys' \in SysType /\ sys'.aReady = ~sys'.aValid /\ waiting' \in AnyReq
         /\ aSrc' = A!SrcNext(aSrc, aDst, sys.aValid, sys.aData)
         /\ dDst' = A!DstNext(dDst, dSrc, DDstReady(ready)) /\ DDstReady(ready) \in BOOLEAN
         /\ n => waiting = Nothing
         /\ sys'.aValid <=> n \/ (sys.aValid /\ ~p)
         /\ sys'.aData = IF n THEN q ELSE sys.aData
         /\ sys'.dValid <=> t \/ (sys.dValid /\ ~g)
         /\ sys'.dData = IF t THEN dDst.data ELSE sys.dData
         /\ waiting' = IF n THEN q ELSE IF g THEN Nothing ELSE waiting
<1>1. /\ sys \in SysType /\ waiting \in AnyReq
      /\ sys.aValid \in BOOLEAN /\ sys.aReady \in BOOLEAN /\ sys.dValid \in BOOLEAN
      /\ sys.aData \in Requests /\ sys.dData \in Requests
      /\ aSrc.ready \in BOOLEAN /\ dDst.valid \in BOOLEAN /\ dDst.data \in Requests
  BY DEF BridgeTypeOK, SysType, A!SrcState, D!DstState
<1>2. n \in BOOLEAN /\ p \in BOOLEAN /\ t \in BOOLEAN /\ g \in BOOLEAN /\ DDstReady(ready) \in BOOLEAN
  BY <1>1 DEF DDstReady
<1>3. /\ sys' = SysANext(SysDNext(sys, ready), v, q)
      /\ aSrc' = A!SrcNext(aSrc, aDst, sys.aValid, sys.aData)
      /\ dDst' = A!DstNext(dDst, dSrc, DDstReady(ready))
      /\ waiting' = IF v /\ sys.aReady THEN q
                    ELSE IF sys.dValid /\ ready THEN Nothing ELSE waiting
  BY SameHandshake DEF SysEdge
<1> DEFINE s == SysDNext(sys, ready)
<1>4. /\ s \in SysType /\ s.aValid = sys.aValid /\ s.aReady = sys.aReady /\ s.aData = sys.aData
      /\ s.dValid <=> t \/ (sys.dValid /\ ~g)
      /\ s.dData = IF t THEN dDst.data ELSE sys.dData
  <2>1. CASE t
    <3>1. s = [sys EXCEPT !.dValid = TRUE, !.dData = dDst.data]
      BY <2>1 DEF SysDNext
    <3> QED BY <1>1, <2>1, <3>1 DEF SysType
  <2>2. CASE ~t
    <3>1. s = [sys EXCEPT !.dValid = sys.dValid /\ ~ready]
      BY <2>2 DEF SysDNext
    <3> QED BY <1>1, <2>2, <3>1 DEF SysType
  <2> QED BY <1>2, <2>1, <2>2
<1>5. sys' = SysANext(s, v, q)
  BY <1>3
<1> HIDE DEF s
<1>6. /\ sys' \in SysType /\ sys'.dValid = s.dValid /\ sys'.dData = s.dData
      /\ sys'.aValid <=> n \/ (sys.aValid /\ ~p)
      /\ sys'.aReady = ~sys'.aValid
      /\ sys'.aData = IF n THEN q ELSE sys.aData
  <2> DEFINE left == n \/ (sys.aValid /\ ~p)
             data == IF n THEN q ELSE s.aData
  <2>1. sys' = [s EXCEPT !.aValid = left, !.aReady = ~left, !.aData = data]
    BY <1>4, <1>5, Zenon DEF SysANext
  <2>2. left \in BOOLEAN /\ data \in Requests
    BY <1>1, <1>2, <1>4
  <2> HIDE DEF left, data
  <2>3. /\ sys' \in SysType /\ sys'.dValid = s.dValid /\ sys'.dData = s.dData
        /\ sys'.aValid = left /\ sys'.aReady = ~left /\ sys'.aData = data
    BY <1>4, <2>1, <2>2 DEF SysType
  <2> QED BY <1>4, <2>2, <2>3 DEF left, data
<1> QED BY <1>1, <1>2, <1>3, <1>4, <1>6 DEF AnyReq

\* An edge of periph_clk out of reset.
LEMMA PerFacts ==
  ASSUME LongReset, BridgeTypeOK, ~PeriphRst,
         NEW accept \in BOOLEAN, NEW answer \in BOOLEAN,
         accept => per.aValid /\ serving = Nothing, answer => serving # Nothing,
         PerEdge(accept, answer),
         NEW t, t = (aDst.valid /\ ADstReady(accept)), NEW an, an = (answer /\ per.dReady),
         NEW p, p = (per.dValid /\ dSrc.ready)
  PROVE  /\ t \in BOOLEAN /\ an \in BOOLEAN /\ p \in BOOLEAN
         /\ per' \in PerType /\ per'.dReady = ~per'.dValid /\ serving' \in AnyReq
         /\ aDst' = A!DstNext(aDst, aSrc, ADstReady(accept)) /\ ADstReady(accept) \in BOOLEAN
         /\ dSrc' = A!SrcNext(dSrc, dDst, per.dValid, per.dData)
         /\ an => serving # Nothing
         /\ per'.aValid <=> t \/ (per.aValid /\ ~accept)
         /\ per'.aData = IF t THEN aDst.data ELSE per.aData
         /\ serving' = IF accept THEN per.aData ELSE IF an THEN Nothing ELSE serving
         /\ per'.dValid <=> an \/ (per.dValid /\ ~p)
         /\ per'.dData = IF an THEN serving ELSE per.dData
<1>1. /\ per \in PerType /\ serving \in AnyReq
      /\ per.aValid \in BOOLEAN /\ per.dReady \in BOOLEAN /\ per.dValid \in BOOLEAN
      /\ per.aData \in Requests /\ per.dData \in Requests
      /\ dSrc.ready \in BOOLEAN /\ aDst.valid \in BOOLEAN /\ aDst.data \in Requests
  BY DEF BridgeTypeOK, PerType, D!SrcState, A!DstState
<1>2. t \in BOOLEAN /\ an \in BOOLEAN /\ p \in BOOLEAN /\ ADstReady(accept) \in BOOLEAN
  BY <1>1 DEF ADstReady
<1>3. /\ per' = PerDNext(PerANext(per, accept), answer, serving)
      /\ aDst' = A!DstNext(aDst, aSrc, ADstReady(accept))
      /\ dSrc' = A!SrcNext(dSrc, dDst, per.dValid, per.dData)
      /\ serving' = IF accept THEN per.aData
                    ELSE IF answer /\ per.dReady THEN Nothing ELSE serving
  BY SameHandshake DEF PerEdge
<1> DEFINE s == PerANext(per, accept)
<1>4. /\ s \in PerType /\ s.dValid = per.dValid /\ s.dReady = per.dReady /\ s.dData = per.dData
      /\ s.aValid <=> t \/ (per.aValid /\ ~accept)
      /\ s.aData = IF t THEN aDst.data ELSE per.aData
  <2>1. CASE t
    <3>1. s = [per EXCEPT !.aValid = TRUE, !.aData = aDst.data]
      BY <2>1 DEF PerANext
    <3> QED BY <1>1, <2>1, <3>1 DEF PerType
  <2>2. CASE ~t
    <3>1. s = [per EXCEPT !.aValid = per.aValid /\ ~accept]
      BY <2>2 DEF PerANext
    <3> QED BY <1>1, <2>2, <3>1 DEF PerType
  <2> QED BY <1>2, <2>1, <2>2
<1>5. per' = PerDNext(s, answer, serving)
  BY <1>3
<1> HIDE DEF s
<1>6. /\ per' \in PerType /\ per'.aValid = s.aValid /\ per'.aData = s.aData
      /\ per'.dValid <=> an \/ (per.dValid /\ ~p)
      /\ per'.dReady = ~per'.dValid
      /\ per'.dData = IF an THEN serving ELSE per.dData
  <2> DEFINE left == an \/ (per.dValid /\ ~p)
             data == IF an THEN serving ELSE s.dData
  <2>1. per' = [s EXCEPT !.dValid = left, !.dReady = ~left, !.dData = data]
    BY <1>4, <1>5, Zenon DEF PerDNext
  <2>2. left \in BOOLEAN /\ data \in Requests
    BY <1>1, <1>2, <1>4 DEF AnyReq
  <2> HIDE DEF left, data
  <2>3. /\ per' \in PerType /\ per'.aValid = s.aValid /\ per'.aData = s.aData
        /\ per'.dValid = left /\ per'.dReady = ~left /\ per'.dData = data
    BY <1>4, <2>1, <2>2 DEF PerType
  <2> QED BY <1>4, <2>2, <2>3 DEF left, data
<1> QED BY <1>1, <1>2, <1>3, <1>4, <1>6 DEF AnyReq

(***************************************************************************)
(* The resets                                                              *)
(***************************************************************************)
PerIsReset ==
  /\ ~per.aValid /\ ~per.dValid /\ per.dReady
  /\ aDst = A!DstReset(aDst.data) /\ dSrc = A!SrcReset(dSrc.data_hold)
  /\ serving = Nothing

\* Out of reset of the system side: the two handshakes are sound, the request is
\* in one place, and the peripheral side, if still in reset, has nothing.
Linked ==
  /\ Hand(aSrc, aDst) /\ Hand(dSrc, dDst)
  /\ OnTheWay
  /\ sys.aReady = ~sys.aValid /\ per.dReady = ~per.dValid
  /\ \A i, j \in Flops : rst.sync[i] /\ j <= i => rst.sync[j]
  /\ PeriphRst => PerIsReset

\* In it: the reset has come as far into the synchronizer as there were edges.
Resetting ==
  /\ \A i \in Flops : i <= rst.edges => ~rst.sync[i]
  /\ rst.edges > BRIDGE_STAGES => PerIsReset

IInv == BridgeTypeOK /\ (~rst.sys => Linked) /\ (rst.sys => Resetting)

\* An edge of periph_clk in reset puts that side into reset, and leaves it there.
LEMMA PerResets ==
  ASSUME LongReset, BridgeTypeOK, PeriphRst, NEW accept \in BOOLEAN, NEW answer \in BOOLEAN, PerEdge(accept, answer)
  PROVE  /\ PerIsReset' /\ per' \in PerType /\ aDst' \in A!DstState /\ dSrc' \in D!SrcState /\ serving' \in AnyReq
         /\ PerIsReset => UNCHANGED <<per, aDst, dSrc, serving>>
<1>1. per \in PerType /\ aDst.data \in Requests /\ dSrc.data_hold \in Requests
  BY DEF BridgeTypeOK, PerType, A!DstState, D!SrcState
<1>2. /\ per' = [per EXCEPT !.aValid = FALSE, !.dValid = FALSE, !.dReady = TRUE]
      /\ aDst' = A!DstReset(aDst.data) /\ dSrc' = A!SrcReset(dSrc.data_hold)
      /\ serving' = Nothing
  BY SameHandshake DEF PerEdge, PerReset
<1>3. /\ per' \in PerType /\ ~per'.aValid /\ ~per'.dValid /\ per'.dReady
  BY <1>1, <1>2 DEF PerType
<1>4. /\ aDst' \in A!DstState /\ aDst'.data = aDst.data
      /\ dSrc' \in D!SrcState /\ dSrc'.data_hold = dSrc.data_hold
  <2>1. A!SyncReset \in [A!Stages -> BOOLEAN] /\ D!SyncReset \in [D!Stages -> BOOLEAN] /\ A!SyncReset = D!SyncReset
    BY DEF A!SyncReset, D!SyncReset, A!Stages, D!Stages
  <2> QED BY <1>1, <1>2, <2>1 DEF A!DstReset, A!SrcReset, A!DstState, D!SrcState
<1>5. PerIsReset => per' = per
  BY <1>1, <1>2 DEF PerIsReset, PerType
<1> QED BY <1>2, <1>3, <1>4, <1>5 DEF PerIsReset, AnyReq

RstType == [sys : BOOLEAN, sync : [Flops -> BOOLEAN], edges : 0 .. RESET_EDGES]

\* A level of the reset that reached a register has passed all those before it.
Ordered(sync) == \A i, j \in Flops : sync[i] /\ j <= i => sync[j]

\* The reset has reached the first n registers.
Reached(sync, n) == \A i \in Flops : i <= n => ~sync[i]

\* One edge of ff_sync (cdc_handshake.sv, ff_sync.sv).
LEMMA SyncFacts ==
  ASSUME LongReset, rst \in RstType, NEW next, next = SyncNext
  PROVE  /\ next \in [Flops -> BOOLEAN]
         /\ ~rst.sys /\ Ordered(rst.sync) =>
              Ordered(next) /\ (~next[BRIDGE_STAGES] => ~rst.sync[BRIDGE_STAGES])
         /\ rst.sys => \A n \in Nat : Reached(rst.sync, n) => Reached(next, n + 1) /\ Reached(next, n)
<1>1. rst.sys \in BOOLEAN /\ rst.sync \in [Flops -> BOOLEAN] /\ BRIDGE_STAGES \in Nat /\ BRIDGE_STAGES >= 2
  BY DEF RstType, LongReset
<1>2. next = [i \in Flops |-> IF i = 1 THEN ~rst.sys ELSE rst.sync[i - 1]]
  BY DEF SyncNext, A!Shift, A!Stages, Flops
<1>3. next \in [Flops -> BOOLEAN]
  <2>1. \A i \in Flops : i # 1 => i - 1 \in Flops
    BY <1>1 DEF Flops
  <2>2. (~rst.sys) \in BOOLEAN
    OBVIOUS
  <2>3. \A i \in Flops : (IF i = 1 THEN ~rst.sys ELSE rst.sync[i - 1]) \in BOOLEAN
    BY <1>1, <2>1, <2>2, Zenon
  <2> QED BY <1>2, <2>3, Zenon
<1>4. ASSUME ~rst.sys, Ordered(rst.sync)
      PROVE  Ordered(next) /\ (~next[BRIDGE_STAGES] => ~rst.sync[BRIDGE_STAGES])
  <2>1. Ordered(next)
    BY <1>1, <1>2, <1>4 DEF Ordered, Flops
  <2>2. next[BRIDGE_STAGES] = rst.sync[BRIDGE_STAGES - 1]
    BY <1>1, <1>2 DEF Flops
  <2>3. rst.sync[BRIDGE_STAGES] => rst.sync[BRIDGE_STAGES - 1]
    BY <1>1, <1>4 DEF Ordered, Flops
  <2> QED BY <2>1, <2>2, <2>3
<1>5. ASSUME rst.sys, NEW n \in Nat, Reached(rst.sync, n)
      PROVE  Reached(next, n + 1) /\ Reached(next, n)
  <2>1. ASSUME NEW i \in Flops, i <= n + 1
        PROVE  ~next[i]
    <3>1. CASE i = 1
      BY <1>2, <1>5, <3>1
    <3>2. CASE i # 1
      <4>1. i - 1 \in Flops /\ i - 1 <= n
        BY <1>1, <2>1, <3>2 DEF Flops
      <4>2. next[i] = rst.sync[i - 1]
        BY <1>2, <3>2
      <4> QED BY <1>5, <4>1, <4>2, Zenon DEF Reached
    <3> QED BY <3>1, <3>2
  <2>2. \A i \in Flops : i <= n => i <= n + 1
    BY <1>1 DEF Flops
  <2> QED BY <2>1, <2>2 DEF Reached
<1> QED BY <1>3, <1>4, <1>5

\* What becomes of the reset when rst is next at level, at an edge of sys_clk
\* alone (sync stays), or at one of periph_clk (sync moves).
LEMMA LevelFacts ==
  ASSUME LongReset, rst \in RstType, NEW level \in BOOLEAN, rst.sys /\ ~level => MayRelease,
         NEW sync, NEW edges, NEW r, r = [sys |-> level, sync |-> sync, edges |-> edges],
         \/ sync = rst.sync /\ edges = IF rst.sys THEN rst.edges ELSE 0
         \/ sync = SyncNext /\ ~rst.sys /\ edges \in {0, rst.edges} /\ (level => edges = 0)
         \/ sync = SyncNext /\ rst.sys /\ edges = IF MayRelease THEN rst.edges ELSE rst.edges + 1
  PROVE  /\ r \in RstType
         /\ ~rst.sys /\ ~r.sys /\ Ordered(rst.sync) =>
              Ordered(r.sync) /\ (~r.sync[BRIDGE_STAGES] => ~rst.sync[BRIDGE_STAGES])
         /\ ~rst.sys /\ r.sys => r.edges = 0
         /\ rst.sys /\ Reached(rst.sync, rst.edges) =>
              /\ Reached(r.sync, r.edges)
              /\ r.edges > BRIDGE_STAGES => r.edges = rst.edges \/ (sync = SyncNext /\ ~rst.sync[BRIDGE_STAGES])
              /\ ~r.sys => /\ rst.edges > BRIDGE_STAGES /\ ~rst.sync[BRIDGE_STAGES]
                           /\ ~r.sync[BRIDGE_STAGES] /\ Ordered(r.sync)
<1>1. /\ rst.sys \in BOOLEAN /\ rst.sync \in [Flops -> BOOLEAN] /\ rst.edges \in 0 .. RESET_EDGES
      /\ RESET_EDGES \in Nat /\ BRIDGE_STAGES \in Nat /\ BRIDGE_STAGES \in Flops /\ RESET_EDGES > BRIDGE_STAGES
  BY DEF LongReset, RstType, Flops
<1>2. r.sys = level /\ r.sync = sync /\ r.edges = edges
  OBVIOUS
<1>3. PICK next : next = SyncNext
  OBVIOUS
<1>4. /\ next \in [Flops -> BOOLEAN]
      /\ ~rst.sys /\ Ordered(rst.sync) =>
              Ordered(next) /\ (~next[BRIDGE_STAGES] => ~rst.sync[BRIDGE_STAGES])
      /\ rst.sys => \A n \in Nat : Reached(rst.sync, n) => Reached(next, n + 1) /\ Reached(next, n)
  BY <1>3, SyncFacts
<1>5. sync \in [Flops -> BOOLEAN] /\ edges \in 0 .. RESET_EDGES
  BY <1>1, <1>3, <1>4 DEF MayRelease
<1>6. r \in RstType
  BY <1>5 DEF RstType
<1>7. ~rst.sys /\ ~r.sys /\ Ordered(rst.sync) =>
              Ordered(r.sync) /\ (~r.sync[BRIDGE_STAGES] => ~rst.sync[BRIDGE_STAGES])
  BY <1>2, <1>3, <1>4
<1>8. ~rst.sys /\ r.sys => r.edges = 0
  BY <1>2
<1>9. ASSUME rst.sys, Reached(rst.sync, rst.edges)
      PROVE  /\ Reached(sync, edges)
             /\ edges > BRIDGE_STAGES => edges = rst.edges \/ (sync = SyncNext /\ ~rst.sync[BRIDGE_STAGES])
             /\ ~level => /\ rst.edges > BRIDGE_STAGES /\ ~rst.sync[BRIDGE_STAGES]
                          /\ ~sync[BRIDGE_STAGES] /\ Ordered(sync)
  <2>1. Reached(next, rst.edges + 1) /\ Reached(next, rst.edges)
    BY <1>1, <1>4, <1>9
  <2>2. Reached(sync, edges)
    BY <1>3, <1>9, <2>1
  <2>3. edges > BRIDGE_STAGES => edges = rst.edges \/ (sync = SyncNext /\ ~rst.sync[BRIDGE_STAGES])
    BY <1>1, <1>9 DEF Reached
  <2>4. ~level => rst.edges > BRIDGE_STAGES /\ edges = rst.edges
    BY <1>1, <1>9 DEF MayRelease
  <2>5. ~level => ~rst.sync[BRIDGE_STAGES] /\ ~sync[BRIDGE_STAGES] /\ Ordered(sync)
    BY <1>1, <1>9, <2>2, <2>4 DEF Reached, Ordered, Flops
  <2> QED BY <2>2, <2>3, <2>4, <2>5
<1> QED BY <1>2, <1>6, <1>7, <1>8, <1>9

\* An edge of either clock or of both, seen by the reset: it lifts in order, and
\* rst is not lifted before the peripheral side has seen it.
LEMMA RstFacts ==
  ASSUME LongReset, BridgeTypeOK, SysStep \/ PerStep \/ BothEdges
  PROVE  /\ rst' \in RstType
         /\ ~rst.sys /\ ~rst'.sys /\ Ordered(rst.sync) => Ordered(rst'.sync) /\ (PeriphRst' => PeriphRst)
         /\ ~rst.sys /\ rst'.sys => rst'.edges = 0
         /\ rst.sys /\ Reached(rst.sync, rst.edges) =>
              /\ Reached(rst'.sync, rst'.edges)
              /\ rst'.edges > BRIDGE_STAGES => PeriphRst
              /\ ~rst'.sys => rst.edges > BRIDGE_STAGES /\ PeriphRst /\ PeriphRst' /\ Ordered(rst'.sync)
         /\ PerStep => rst'.sys = rst.sys
         /\ SysStep /\ rst.sys => rst'.edges = rst.edges
<1>1. /\ rst \in RstType /\ rst.sys \in BOOLEAN /\ rst.edges \in 0 .. RESET_EDGES
      /\ rst = [sys |-> rst.sys, sync |-> rst.sync, edges |-> rst.edges]
  BY DEF BridgeTypeOK, RstType, Flops
<1> DEFINE From(level, sync, edges) ==
             /\ rst.sys /\ ~level => MayRelease
             /\ \/ sync = rst.sync /\ edges = IF rst.sys THEN rst.edges ELSE 0
                \/ sync = SyncNext /\ ~rst.sys /\ edges \in {0, rst.edges} /\ (level => edges = 0)
                \/ sync = SyncNext /\ rst.sys /\ edges = IF MayRelease THEN rst.edges ELSE rst.edges + 1
           Same == /\ PerStep => rst'.sys = rst.sys
                   /\ SysStep /\ rst.sys => rst'.edges = rst.edges
<1>2. SysStep => \E level \in BOOLEAN :
        /\ rst' = [rst EXCEPT !.sys = level, !.edges = IF rst.sys THEN @ ELSE 0]
        /\ rst.sys /\ ~level => MayRelease
  BY DEF SysStep, RstSys
<1>3. PerStep => rst' = [rst EXCEPT !.sync = SyncNext,
                                    !.edges = IF rst.sys /\ ~MayRelease THEN @ + 1 ELSE @]
  BY DEF PerStep, RstPer
<1>4. BothEdges => \E level \in BOOLEAN :
        /\ rst' = [sys   |-> level, sync |-> SyncNext,
                   edges |-> IF ~rst.sys THEN 0 ELSE IF MayRelease THEN rst.edges ELSE rst.edges + 1]
        /\ rst.sys /\ ~level => MayRelease
  BY DEF BothEdges
<1>5. Same
  BY <1>1, <1>2, <1>3
<1>6. \E level, sync, edges :
         level \in BOOLEAN /\ rst' = [sys |-> level, sync |-> sync, edges |-> edges] /\ From(level, sync, edges)
  <2>1. CASE SysStep
    <3>1. PICK level \in BOOLEAN :
            /\ rst' = [rst EXCEPT !.sys = level, !.edges = IF rst.sys THEN @ ELSE 0]
            /\ rst.sys /\ ~level => MayRelease
      BY <1>2, <2>1
    <3>2. rst' = [sys |-> level, sync |-> rst.sync, edges |-> IF rst.sys THEN rst.edges ELSE 0]
      BY <1>1, <3>1
    <3> QED BY <3>1, <3>2
  <2>2. CASE PerStep
    <3> DEFINE n == IF rst.sys /\ ~MayRelease THEN rst.edges + 1 ELSE rst.edges
    <3>1. rst' = [sys |-> rst.sys, sync |-> SyncNext, edges |-> n]
      BY <1>1, <1>3, <2>2
    <3>2. From(rst.sys, SyncNext, n)
      OBVIOUS
    <3> QED BY <1>1, <3>1, <3>2
  <2>3. CASE BothEdges
    <3>1. PICK level \in BOOLEAN :
            /\ rst' = [sys   |-> level, sync |-> SyncNext,
                       edges |-> IF ~rst.sys THEN 0 ELSE IF MayRelease THEN rst.edges ELSE rst.edges + 1]
            /\ rst.sys /\ ~level => MayRelease
      BY <1>4, <2>3
    <3> DEFINE n == IF ~rst.sys THEN 0 ELSE IF MayRelease THEN rst.edges ELSE rst.edges + 1
    <3>2. From(level, SyncNext, n)
      BY <3>1
    <3> QED BY <3>1, <3>2
  <2> QED BY <2>1, <2>2, <2>3
<1>7. PICK level, sync, edges :
         level \in BOOLEAN /\ rst' = [sys |-> level, sync |-> sync, edges |-> edges] /\ From(level, sync, edges)
  BY <1>6
<1>8. PICK r : r = [sys |-> level, sync |-> sync, edges |-> edges]
  OBVIOUS
<1>9. /\ r \in RstType
      /\ ~rst.sys /\ ~r.sys /\ Ordered(rst.sync) =>
              Ordered(r.sync) /\ (~r.sync[BRIDGE_STAGES] => ~rst.sync[BRIDGE_STAGES])
      /\ ~rst.sys /\ r.sys => r.edges = 0
      /\ rst.sys /\ Reached(rst.sync, rst.edges) =>
              /\ Reached(r.sync, r.edges)
              /\ r.edges > BRIDGE_STAGES => r.edges = rst.edges \/ (sync = SyncNext /\ ~rst.sync[BRIDGE_STAGES])
              /\ ~r.sys => /\ rst.edges > BRIDGE_STAGES /\ ~rst.sync[BRIDGE_STAGES]
                           /\ ~r.sync[BRIDGE_STAGES] /\ Ordered(r.sync)
  BY <1>1, <1>7, <1>8, LevelFacts
<1>10. Reached(rst.sync, rst.edges) /\ rst.edges > BRIDGE_STAGES => ~rst.sync[BRIDGE_STAGES]
  BY <1>1 DEF Reached, Flops, LongReset
<1>11. rst' = r
  BY <1>7, <1>8
<1>12. PeriphRst = ~rst.sync[BRIDGE_STAGES] /\ PeriphRst' = ~r.sync[BRIDGE_STAGES]
  BY <1>11 DEF PeriphRst
<1> HIDE DEF From, Same
<1>13. ASSUME rst.sys, Reached(rst.sync, rst.edges)
       PROVE  /\ Reached(r.sync, r.edges)
              /\ r.edges > BRIDGE_STAGES => PeriphRst
              /\ ~r.sys => rst.edges > BRIDGE_STAGES /\ PeriphRst /\ PeriphRst' /\ Ordered(r.sync)
  BY <1>9, <1>10, <1>12, <1>13
<1>14. Same
  BY <1>5
<1> QED BY <1>9, <1>11, <1>12, <1>13, <1>14 DEF Same

(***************************************************************************)
(* A step out of reset of the system side                                  *)
(***************************************************************************)
\* The next registers of a handshake's source, which takes x (p) or not, and of
\* its destination, which is relieved of its word (t) or not; either clock may
\* have no edge.
SrcMove(s, d, s2, v, x, p) ==
  \/ s2 = s /\ p = FALSE
  \/ s2 = A!SrcNext(s, d, v, x) /\ p = (v /\ s.ready)
DstMove(s, d, d2, r, t) ==
  \/ d2 = d /\ t = FALSE
  \/ d2 = A!DstNext(d, s, r) /\ t = (r /\ d.valid)

\* What becomes of the handshake and of the word in it.
HandNext(s, d, s2, d2, x, p, t) ==
  /\ Hand(s2, d2) /\ s2 \in A!SrcState /\ d2 \in A!DstState
  /\ Carries(s2, d2) <=> (Carries(s, d) /\ ~t) \/ p
  /\ s2.data_hold = IF p THEN x ELSE s.data_hold
  /\ t => Carries(s, d) /\ d.data = s.data_hold

\* Whichever of the clocks has an edge (cdc_handshake.sv:88-132).
LEMMA HandMove ==
  ASSUME LongReset, NEW s \in A!SrcState, NEW d \in A!DstState, Hand(s, d),
         NEW v \in BOOLEAN, NEW x \in Requests, NEW r \in BOOLEAN, NEW p \in BOOLEAN, NEW t \in BOOLEAN,
         NEW s2, NEW d2, SrcMove(s, d, s2, v, x, p), DstMove(s, d, d2, r, t)
  PROVE  HandNext(s, d, s2, d2, x, p, t)
<1>1. s2 \in A!SrcState /\ d2 \in A!DstState
  BY HandType DEF SrcMove, DstMove
<1>2. t => Carries(s, d) /\ d.data = s.data_hold
  BY HandFacts DEF DstMove
<1>3. CASE s2 = s /\ p = FALSE /\ d2 = d /\ t = FALSE
  BY <1>1, <1>2, <1>3 DEF HandNext
<1>4. CASE s2 = A!SrcNext(s, d, v, x) /\ p = (v /\ s.ready) /\ d2 = d /\ t = FALSE
  BY <1>1, <1>2, <1>4, SrcHand DEF HandNext
<1>5. CASE s2 = s /\ p = FALSE /\ d2 = A!DstNext(d, s, r) /\ t = (r /\ d.valid)
  BY <1>1, <1>2, <1>5, DstHand DEF HandNext
<1>6. CASE s2 = A!SrcNext(s, d, v, x) /\ p = (v /\ s.ready) /\ d2 = A!DstNext(d, s, r) /\ t = (r /\ d.valid)
  <2>1. /\ Hand(s2, d2)
        /\ Carries(s2, d2) <=> (Carries(s, d) /\ ~(r /\ d.valid)) \/ (v /\ s.ready)
        /\ s2.data_hold = IF v /\ s.ready THEN x ELSE s.data_hold
    BY <1>6, HandFacts DEF LongReset, Hand, Carries, A!SrcState, A!DstState, A!Stages, Flops, A!SrcNext,
       A!SrcFire, A!Acknowledged, A!Shift, A!DstNext, A!DstFire, A!ReqSeen
  <2> QED BY <1>1, <1>2, <1>6, <2>1 DEF HandNext
<1> QED BY <1>3, <1>4, <1>5, <1>6 DEF SrcMove, DstMove

\* The part of Moves that the system side does; r is whether it has room for a response.
SysMove(n, q, p, t, g, r) ==
  /\ sys' \in SysType /\ sys'.aReady = ~sys'.aValid /\ waiting' \in AnyReq
  /\ SrcMove(aSrc, aDst, aSrc', sys.aValid, sys.aData, p)
  /\ DstMove(dSrc, dDst, dDst', r, t)
  /\ n => waiting = Nothing
  /\ p => sys.aValid
  /\ g => sys.dValid
  /\ sys'.aValid <=> n \/ (sys.aValid /\ ~p)
  /\ sys'.aData = IF n THEN q ELSE sys.aData
  /\ sys'.dValid <=> t \/ (sys.dValid /\ ~g)
  /\ sys'.dData = IF t THEN dDst.data ELSE sys.dData
  /\ waiting' = IF n THEN q ELSE IF g THEN Nothing ELSE waiting

\* The part that the peripheral side does; r is whether it has room for a request.
PerMove(ac, an, p, t, r) ==
  /\ per' \in PerType /\ per'.dReady = ~per'.dValid /\ serving' \in AnyReq
  /\ SrcMove(dSrc, dDst, dSrc', per.dValid, per.dData, p)
  /\ DstMove(aSrc, aDst, aDst', r, t)
  /\ ac => per.aValid
  /\ an => serving # Nothing
  /\ p => per.dValid
  /\ per'.aValid <=> t \/ (per.aValid /\ ~ac)
  /\ per'.aData = IF t THEN aDst.data ELSE per.aData
  /\ serving' = IF ac THEN per.aData ELSE IF an THEN Nothing ELSE serving
  /\ per'.dValid <=> an \/ (per.dValid /\ ~p)
  /\ per'.dData = IF an THEN serving ELSE per.dData

\* An edge of sys_clk, or none (bus_cdc_bridge.sv:90-140).
LEMMA SysMoves ==
  ASSUME LongReset, BridgeTypeOK, ~rst.sys, sys.aReady = ~sys.aValid,
         \/ \E v \in Offers, q \in Requests, ready \in BOOLEAN : SysEdge(v, q, ready)
         \/ UNCHANGED <<sys, aSrc, dDst, waiting>>
  PROVE  \E q \in Requests : \E n, p, t, g, r \in BOOLEAN : SysMove(n, q, p, t, g, r)
<1>1. CASE UNCHANGED <<sys, aSrc, dDst, waiting>>
  <2>1. sys.aData \in Requests /\ sys \in SysType /\ waiting \in AnyReq
    BY DEF BridgeTypeOK, SysType
  <2>2. SysMove(FALSE, sys.aData, FALSE, FALSE, FALSE, FALSE)
    BY <1>1, <2>1 DEF SysMove, SrcMove, DstMove
  <2> QED BY <2>1, <2>2
<1>2. CASE \E v \in Offers, q \in Requests, ready \in BOOLEAN : SysEdge(v, q, ready)
  <2>1. PICK v \in Offers, q \in Requests, ready \in BOOLEAN : SysEdge(v, q, ready)
    BY <1>2
  <2>2. v \in BOOLEAN /\ (v => waiting = Nothing)
    BY <2>1 DEF Offers
  <2>3. PICK n : n = (v /\ sys.aReady)
    OBVIOUS
  <2>4. PICK p : p = (sys.aValid /\ aSrc.ready)
    OBVIOUS
  <2>5. PICK t : t = (dDst.valid /\ DDstReady(ready))
    OBVIOUS
  <2>6. PICK g : g = (sys.dValid /\ ready)
    OBVIOUS
  <2>7. /\ n \in BOOLEAN /\ p \in BOOLEAN /\ t \in BOOLEAN /\ g \in BOOLEAN
        /\ sys' \in SysType /\ sys'.aReady = ~sys'.aValid /\ waiting' \in AnyReq
        /\ aSrc' = A!SrcNext(aSrc, aDst, sys.aValid, sys.aData)
        /\ dDst' = A!DstNext(dDst, dSrc, DDstReady(ready)) /\ DDstReady(ready) \in BOOLEAN
        /\ n => waiting = Nothing
        /\ sys'.aValid <=> n \/ (sys.aValid /\ ~p)
        /\ sys'.aData = IF n THEN q ELSE sys.aData
        /\ sys'.dValid <=> t \/ (sys.dValid /\ ~g)
        /\ sys'.dData = IF t THEN dDst.data ELSE sys.dData
        /\ waiting' = IF n THEN q ELSE IF g THEN Nothing ELSE waiting
    BY <2>1, <2>2, <2>3, <2>4, <2>5, <2>6, SysFacts
  <2>8. t = (DDstReady(ready) /\ dDst.valid)
    BY <2>5
  <2>9. SysMove(n, q, p, t, g, DDstReady(ready))
    BY <2>4, <2>6, <2>7, <2>8 DEF SysMove, SrcMove, DstMove
  <2> QED BY <2>7, <2>9
<1> QED BY <1>1, <1>2

\* An edge of periph_clk, or none, or one in the reset that it has not left yet.
LEMMA PerMoves ==
  ASSUME LongReset, BridgeTypeOK, per.dReady = ~per.dValid, PeriphRst => PerIsReset,
         \/ \E accept \in Accepts, answer \in Answers : PerEdge(accept, answer)
         \/ UNCHANGED <<per, aDst, dSrc, serving>>
  PROVE  /\ \E ac, an, p, t, r \in BOOLEAN : PerMove(ac, an, p, t, r)
         /\ PeriphRst => PerIsReset'
<1>1. CASE UNCHANGED <<per, aDst, dSrc, serving>>
  <2>1. per.aData \in Requests /\ per \in PerType /\ serving \in AnyReq
    BY DEF BridgeTypeOK, PerType
  <2>2. PerMove(FALSE, FALSE, FALSE, FALSE, FALSE)
    BY <1>1, <2>1 DEF PerMove, SrcMove, DstMove
  <2>3. PeriphRst => PerIsReset'
    BY <1>1 DEF PerIsReset, A!DstReset, A!SrcReset, A!SyncReset, A!Stages
  <2> QED BY <2>2, <2>3
<1>2. ASSUME NEW accept \in Accepts, NEW answer \in Answers, PerEdge(accept, answer)
      PROVE  \/ UNCHANGED <<per, aDst, dSrc, serving>>
             \/ ~PeriphRst /\ \E ac, an, p, t, r \in BOOLEAN : PerMove(ac, an, p, t, r)
  <2>1. /\ accept \in BOOLEAN /\ answer \in BOOLEAN
        /\ accept => per.aValid /\ serving = Nothing
        /\ answer => serving # Nothing
    BY <1>2 DEF Accepts, Answers
  <2>2. CASE PeriphRst
    BY <1>2, <2>1, <2>2, PerResets
  <2>3. CASE ~PeriphRst
    <3>1. PICK t : t = (aDst.valid /\ ADstReady(accept))
      OBVIOUS
    <3>2. PICK an : an = (answer /\ per.dReady)
      OBVIOUS
    <3>3. PICK p : p = (per.dValid /\ dSrc.ready)
      OBVIOUS
    <3>4. /\ t \in BOOLEAN /\ an \in BOOLEAN /\ p \in BOOLEAN
          /\ per' \in PerType /\ per'.dReady = ~per'.dValid /\ serving' \in AnyReq
          /\ aDst' = A!DstNext(aDst, aSrc, ADstReady(accept)) /\ ADstReady(accept) \in BOOLEAN
          /\ dSrc' = A!SrcNext(dSrc, dDst, per.dValid, per.dData)
          /\ an => serving # Nothing
          /\ per'.aValid <=> t \/ (per.aValid /\ ~accept)
          /\ per'.aData = IF t THEN aDst.data ELSE per.aData
          /\ serving' = IF accept THEN per.aData ELSE IF an THEN Nothing ELSE serving
          /\ per'.dValid <=> an \/ (per.dValid /\ ~p)
          /\ per'.dData = IF an THEN serving ELSE per.dData
      BY <1>2, <2>1, <2>3, <3>1, <3>2, <3>3, PerFacts
    <3>5. t = (ADstReady(accept) /\ aDst.valid)
      BY <3>1
    <3>6. PerMove(accept, an, p, t, ADstReady(accept))
      BY <2>1, <3>3, <3>4, <3>5 DEF PerMove, SrcMove, DstMove
    <3> QED BY <2>1, <2>3, <3>4, <3>6
  <2> QED BY <2>2, <2>3
<1> QED BY <1>1, <1>2

\* An edge of either clock or of both leaves the request in one place, and the
\* handshakes sound (bus_cdc_bridge.sv:90-140).
LEMMA LinkedStep ==
  ASSUME LongReset, BridgeTypeOK, ~rst.sys, Linked, SysStep \/ PerStep \/ BothEdges
  PROVE  /\ Hand(aSrc, aDst)' /\ Hand(dSrc, dDst)' /\ OnTheWay'
         /\ sys'.aReady = ~sys'.aValid /\ per'.dReady = ~per'.dValid
         /\ PeriphRst => PerIsReset'
         /\ sys' \in SysType /\ per' \in PerType
         /\ aSrc' \in A!SrcState /\ aDst' \in A!DstState /\ dSrc' \in A!SrcState /\ dDst' \in A!DstState
         /\ waiting' \in AnyReq /\ serving' \in AnyReq
<1>1. /\ \/ \E v \in Offers, q \in Requests, ready \in BOOLEAN : SysEdge(v, q, ready)
         \/ UNCHANGED <<sys, aSrc, dDst, waiting>>
      /\ \/ \E accept \in Accepts, answer \in Answers : PerEdge(accept, answer)
         \/ UNCHANGED <<per, aDst, dSrc, serving>>
  BY DEF SysStep, PerStep, BothEdges
<1>2. PICK q \in Requests : \E n, p, t, g, r \in BOOLEAN : SysMove(n, q, p, t, g, r)
  BY <1>1, SysMoves DEF Linked
<1>3. PICK n, pA, tD, g, rD \in BOOLEAN : SysMove(n, q, pA, tD, g, rD)
  BY <1>2
<1>4. PeriphRst => PerIsReset'
  BY <1>1, PerMoves DEF Linked
<1>5. PICK ac, an, pD, tA, rA \in BOOLEAN : PerMove(ac, an, pD, tA, rA)
  BY <1>1, PerMoves DEF Linked
<1>6. /\ aSrc \in A!SrcState /\ aDst \in A!DstState /\ dSrc \in A!SrcState /\ dDst \in A!DstState
      /\ sys.aValid \in BOOLEAN /\ sys.aData \in Requests /\ per.dValid \in BOOLEAN /\ per.dData \in Requests
      /\ Hand(aSrc, aDst) /\ Hand(dSrc, dDst) /\ OnTheWay
  BY SameHandshake DEF BridgeTypeOK, Linked
<1>7. /\ SrcMove(aSrc, aDst, aSrc', sys.aValid, sys.aData, pA) /\ DstMove(aSrc, aDst, aDst', rA, tA)
      /\ SrcMove(dSrc, dDst, dSrc', per.dValid, per.dData, pD) /\ DstMove(dSrc, dDst, dDst', rD, tD)
  BY <1>3, <1>5 DEF SysMove, PerMove
<1>8. /\ Hand(aSrc, aDst)' /\ aSrc' \in A!SrcState /\ aDst' \in A!DstState
      /\ Carries(aSrc', aDst') <=> (Carries(aSrc, aDst) /\ ~tA) \/ pA
      /\ aSrc'.data_hold = IF pA THEN sys.aData ELSE aSrc.data_hold
      /\ tA => Carries(aSrc, aDst) /\ aDst.data = aSrc.data_hold
  <2>1. PICK s2, d2 : s2 = aSrc' /\ d2 = aDst'
    OBVIOUS
  <2>2. SrcMove(aSrc, aDst, s2, sys.aValid, sys.aData, pA) /\ DstMove(aSrc, aDst, d2, rA, tA)
    BY <1>7, <2>1
  <2>3. /\ aSrc \in A!SrcState /\ aDst \in A!DstState /\ Hand(aSrc, aDst)
        /\ sys.aValid \in BOOLEAN /\ sys.aData \in Requests
    BY <1>6
  <2>4. HandNext(aSrc, aDst, s2, d2, sys.aData, pA, tA)
    BY <2>2, <2>3, HandMove
  <2>5. Hand(aSrc, aDst)' <=> Hand(s2, d2)
    BY <2>1 DEF Hand
  <2> QED BY <2>1, <2>4, <2>5 DEF HandNext
<1>9. /\ Hand(dSrc, dDst)' /\ dSrc' \in A!SrcState /\ dDst' \in A!DstState
      /\ Carries(dSrc', dDst') <=> (Carries(dSrc, dDst) /\ ~tD) \/ pD
      /\ dSrc'.data_hold = IF pD THEN per.dData ELSE dSrc.data_hold
      /\ tD => Carries(dSrc, dDst) /\ dDst.data = dSrc.data_hold
  <2>1. PICK s2, d2 : s2 = dSrc' /\ d2 = dDst'
    OBVIOUS
  <2>2. SrcMove(dSrc, dDst, s2, per.dValid, per.dData, pD) /\ DstMove(dSrc, dDst, d2, rD, tD)
    BY <1>7, <2>1
  <2>3. /\ dSrc \in A!SrcState /\ dDst \in A!DstState /\ Hand(dSrc, dDst)
        /\ per.dValid \in BOOLEAN /\ per.dData \in Requests
    BY <1>6
  <2>4. HandNext(dSrc, dDst, s2, d2, per.dData, pD, tD)
    BY <2>2, <2>3, HandMove
  <2>5. Hand(dSrc, dDst)' <=> Hand(s2, d2)
    BY <2>1 DEF Hand
  <2> QED BY <2>1, <2>4, <2>5 DEF HandNext
<1>10. Moves(n, q, pA, tA, ac, an, pD, tD, g)
  BY <1>3, <1>5, <1>8, <1>9 DEF Moves, SysMove, PerMove
<1>11. OnTheWay'
  BY <1>6, <1>10, WayStep
<1> QED BY <1>3, <1>4, <1>5, <1>8, <1>9, <1>11 DEF SysMove, PerMove

(***************************************************************************)
(* A step in reset of the system side                                      *)
(***************************************************************************)
\* Whatever its state, an edge of periph_clk keeps that side's registers in their
\* types, and resets it where the reset has reached it.
LEMMA PerTypes ==
  ASSUME LongReset, BridgeTypeOK,
         \/ \E accept \in Accepts, answer \in Answers : PerEdge(accept, answer)
         \/ UNCHANGED <<per, aDst, dSrc, serving>>
  PROVE  /\ per' \in PerType /\ aDst' \in A!DstState /\ dSrc' \in A!SrcState /\ serving' \in AnyReq
         /\ PeriphRst => PerIsReset' \/ UNCHANGED <<per, aDst, dSrc, serving>>
<1>1. per \in PerType /\ aDst \in A!DstState /\ dSrc \in A!SrcState /\ serving \in AnyReq
  BY SameHandshake DEF BridgeTypeOK, PerType
<1>2. CASE UNCHANGED <<per, aDst, dSrc, serving>>
  BY <1>1, <1>2
<1>3. ASSUME NEW accept \in Accepts, NEW answer \in Answers, PerEdge(accept, answer)
      PROVE  /\ per' \in PerType /\ aDst' \in A!DstState /\ dSrc' \in A!SrcState /\ serving' \in AnyReq
             /\ PeriphRst => PerIsReset'
  <2>1. /\ accept \in BOOLEAN /\ answer \in BOOLEAN
        /\ accept => per.aValid /\ serving = Nothing
        /\ answer => serving # Nothing
    BY <1>3 DEF Accepts, Answers
  <2>2. CASE PeriphRst
    BY <1>3, <2>1, <2>2, PerResets, SameHandshake
  <2>3. CASE ~PeriphRst
    <3>1. PICK t : t = (aDst.valid /\ ADstReady(accept))
      OBVIOUS
    <3>2. PICK an : an = (answer /\ per.dReady)
      OBVIOUS
    <3>3. PICK p : p = (per.dValid /\ dSrc.ready)
      OBVIOUS
    <3>4. /\ per' \in PerType /\ serving' \in AnyReq
          /\ aDst' = A!DstNext(aDst, aSrc, ADstReady(accept)) /\ ADstReady(accept) \in BOOLEAN
          /\ dSrc' = A!SrcNext(dSrc, dDst, per.dValid, per.dData)
      BY <1>3, <2>1, <2>3, <3>1, <3>2, <3>3, PerFacts
    <3>5. /\ aSrc \in A!SrcState /\ dDst \in A!DstState
          /\ per.dValid \in BOOLEAN /\ per.dData \in Requests
      BY SameHandshake DEF BridgeTypeOK
    <3>6. \A v \in BOOLEAN, x \in Requests, r \in BOOLEAN :
            A!SrcNext(dSrc, dDst, v, x) \in A!SrcState /\ A!DstNext(aDst, aSrc, r) \in A!DstState
      BY <1>1, <3>5, HandType
    <3> QED BY <2>3, <3>4, <3>5, <3>6
  <2> QED BY <2>2, <2>3
<1> QED BY <1>2, <1>3

SysIsReset ==
  /\ ~sys.aValid /\ sys.aReady /\ ~sys.dValid /\ waiting = Nothing
  /\ aSrc = A!SrcReset(aSrc.data_hold) /\ dDst = A!DstReset(dDst.data)

\* An edge of sys_clk in reset.
LEMMA SysResets ==
  ASSUME LongReset, BridgeTypeOK, rst.sys,
         \E v \in Offers, q \in Requests, ready \in BOOLEAN : SysEdge(v, q, ready)
  PROVE  /\ sys' \in SysType /\ aSrc' \in A!SrcState /\ dDst' \in A!DstState /\ waiting' \in AnyReq
         /\ SysIsReset'
<1>1. /\ sys \in SysType /\ aSrc.data_hold \in Requests /\ dDst.data \in Requests
  BY SameHandshake DEF BridgeTypeOK, SysType, A!SrcState, A!DstState
<1>2. /\ sys' = [sys EXCEPT !.aValid = FALSE, !.aReady = TRUE, !.dValid = FALSE]
      /\ aSrc' = A!SrcReset(aSrc.data_hold) /\ dDst' = A!DstReset(dDst.data)
      /\ waiting' = Nothing
  BY SameHandshake DEF SysEdge, SysReset
<1>3. sys' \in SysType /\ ~sys'.aValid /\ sys'.aReady /\ ~sys'.dValid
  BY <1>1, <1>2 DEF SysType
<1>4. /\ dDst' \in A!DstState /\ dDst'.data = dDst.data
      /\ aSrc' \in A!SrcState /\ aSrc'.data_hold = aSrc.data_hold
  <2>1. A!SyncReset \in [A!Stages -> BOOLEAN]
    BY DEF A!SyncReset, A!Stages
  <2> QED BY <1>1, <1>2, <2>1 DEF A!DstReset, A!SrcReset, A!DstState, A!SrcState
<1> QED BY <1>2, <1>3, <1>4 DEF SysIsReset, AnyReq

\* Both sides in reset have nothing under way.
LEMMA BothReset ==
  ASSUME LongReset, SysIsReset, PerIsReset
  PROVE  /\ Hand(aSrc, aDst) /\ Hand(dSrc, dDst) /\ OnTheWay
         /\ sys.aReady = ~sys.aValid /\ per.dReady = ~per.dValid
<1>1. ASSUME NEW x, NEW y
      PROVE  Hand(A!SrcReset(x), A!DstReset(y)) /\ ~Carries(A!SrcReset(x), A!DstReset(y))
  <2>1. BRIDGE_STAGES \in Flops /\ \A i \in Flops : A!SyncReset[i] = FALSE
    BY DEF A!SyncReset, A!Stages, Flops, LongReset
  <2>2. PICK s : s = A!SrcReset(x)
    OBVIOUS
  <2>3. PICK d : d = A!DstReset(y)
    OBVIOUS
  <2>4. /\ s.req_toggle = FALSE /\ s.pending = FALSE /\ s.ready = TRUE /\ s.ack_sync = A!SyncReset
        /\ d.valid = FALSE /\ d.ack_toggle = FALSE /\ d.req_prev = FALSE /\ d.req_sync = A!SyncReset
    BY <2>2, <2>3 DEF A!SrcReset, A!DstReset
  <2>5. Hand(s, d) /\ ~Carries(s, d)
    BY <2>1, <2>4 DEF Hand, Carries
  <2> QED BY <2>2, <2>3, <2>5
<1>2. /\ Hand(aSrc, aDst) /\ ~Carries(aSrc, aDst)
      /\ Hand(dSrc, dDst) /\ ~Carries(dSrc, dDst)
  BY <1>1, Zenon DEF SysIsReset, PerIsReset
<1>3. At("none") /\ Carried
  BY <1>2 DEF At, Carried, SysIsReset, PerIsReset
<1> QED BY <1>2, <1>3 DEF OnTheWay, Places, SysIsReset, PerIsReset

\* The edges of BridgeNext, each side having one or not.
LEMMA Sides ==
  ASSUME SysStep \/ PerStep \/ BothEdges
  PROVE  /\ \/ \E v \in Offers, q \in Requests, ready \in BOOLEAN : SysEdge(v, q, ready)
            \/ UNCHANGED <<sys, aSrc, dDst, waiting>>
         /\ \/ \E accept \in Accepts, answer \in Answers : PerEdge(accept, answer)
            \/ UNCHANGED <<per, aDst, dSrc, serving>>
BY DEF SysStep, PerStep, BothEdges

\* BridgeNext keeps the registers in their types.
LEMMA TypesStep ==
  ASSUME LongReset, IInv, SysStep \/ PerStep \/ BothEdges
  PROVE  BridgeTypeOK'
<1>1. /\ \/ \E v \in Offers, q \in Requests, ready \in BOOLEAN : SysEdge(v, q, ready)
         \/ UNCHANGED <<sys, aSrc, dDst, waiting>>
      /\ \/ \E accept \in Accepts, answer \in Answers : PerEdge(accept, answer)
         \/ UNCHANGED <<per, aDst, dSrc, serving>>
  BY Sides
<1>2. BridgeTypeOK /\ rst' \in RstType
  BY RstFacts DEF IInv
<1>3. per' \in PerType /\ aDst' \in A!DstState /\ dSrc' \in A!SrcState /\ serving' \in AnyReq
  BY <1>1, <1>2, PerTypes
<1>4. sys' \in SysType /\ aSrc' \in A!SrcState /\ dDst' \in A!DstState /\ waiting' \in AnyReq
  <2>1. CASE rst.sys
    <3>1. /\ sys \in SysType /\ aSrc \in A!SrcState /\ dDst \in A!DstState /\ waiting \in AnyReq
      BY <1>2, SameHandshake DEF BridgeTypeOK, SysType
    <3> QED BY <1>1, <1>2, <2>1, <3>1, SysResets
  <2>2. CASE ~rst.sys
    BY <1>2, <2>2, LinkedStep DEF IInv
  <2> QED BY <2>1, <2>2
<1>5. aSrc' \in A!SrcState /\ aDst' \in A!DstState /\ dSrc' \in D!SrcState /\ dDst' \in D!DstState
  BY <1>3, <1>4, SameHandshake
<1>6. /\ sys' \in [aValid : BOOLEAN, aReady : BOOLEAN, aData : Requests, dValid : BOOLEAN, dData : Requests]
      /\ per' \in [aValid : BOOLEAN, aData : Requests, dValid : BOOLEAN, dReady : BOOLEAN, dData : Requests]
      /\ rst' \in [sys : BOOLEAN, sync : [1 .. BRIDGE_STAGES -> BOOLEAN], edges : 0 .. RESET_EDGES]
  BY <1>2, <1>3, <1>4, Zenon DEF SysType, PerType, RstType, Flops
<1>7. aSrc' \in A!SrcState' /\ aDst' \in A!DstState' /\ dSrc' \in D!SrcState' /\ dDst' \in D!DstState'
  BY <1>5 DEF A!SrcState, A!DstState, D!SrcState, D!DstState, A!Stages, D!Stages
<1> QED BY <1>3, <1>4, <1>6, <1>7 DEF BridgeTypeOK, AnyReq, Nothing

\* An edge of either clock or of both keeps the invariant.
LEMMA IInvStep ==
  ASSUME LongReset, IInv, SysStep \/ PerStep \/ BothEdges
  PROVE  IInv'
<1>1. BridgeTypeOK /\ BridgeTypeOK'
  BY TypesStep DEF IInv
<1>2. /\ ~rst.sys /\ ~rst'.sys /\ Ordered(rst.sync) => Ordered(rst'.sync) /\ (PeriphRst' => PeriphRst)
      /\ ~rst.sys /\ rst'.sys => rst'.edges = 0
      /\ rst.sys /\ Reached(rst.sync, rst.edges) =>
           /\ Reached(rst'.sync, rst'.edges)
           /\ rst'.edges > BRIDGE_STAGES => PeriphRst
           /\ ~rst'.sys => rst.edges > BRIDGE_STAGES /\ PeriphRst /\ PeriphRst' /\ Ordered(rst'.sync)
      /\ PerStep => rst'.sys = rst.sys
      /\ SysStep /\ rst.sys => rst'.edges = rst.edges
  BY <1>1, RstFacts
<1>3. /\ ~rst.sys => Linked
      /\ rst.sys => Resetting
  BY DEF IInv
<1>4. ASSUME ~rst.sys, ~rst'.sys
      PROVE  Linked'
  <2>1. Linked /\ Ordered(rst.sync)
    BY <1>3, <1>4 DEF Linked, Ordered
  <2>2. Ordered(rst'.sync) /\ (PeriphRst' => PeriphRst)
    BY <1>2, <1>4, <2>1
  <2>3. /\ Hand(aSrc, aDst)' /\ Hand(dSrc, dDst)' /\ OnTheWay'
        /\ sys'.aReady = ~sys'.aValid /\ per'.dReady = ~per'.dValid
        /\ PeriphRst => PerIsReset'
    BY <1>1, <1>4, <2>1, LinkedStep
  <2> QED BY <2>2, <2>3 DEF Linked, Ordered, Flops
<1>5. ASSUME ~rst.sys, rst'.sys
      PROVE  Resetting'
  <2>1. rst'.edges = 0
    BY <1>2, <1>5
  <2> QED BY <2>1 DEF Resetting, LongReset, Flops
<1>6. ASSUME rst.sys
      PROVE  /\ rst'.edges > BRIDGE_STAGES \/ ~rst'.sys => PerIsReset'
             /\ Reached(rst'.sync, rst'.edges)
             /\ ~rst'.sys => PeriphRst' /\ Ordered(rst'.sync) /\ SysIsReset'
  <2>1. Resetting /\ Reached(rst.sync, rst.edges)
    BY <1>3, <1>6 DEF Resetting, Reached
  <2>2. /\ Reached(rst'.sync, rst'.edges)
        /\ rst'.edges > BRIDGE_STAGES => PeriphRst
        /\ ~rst'.sys => rst.edges > BRIDGE_STAGES /\ PeriphRst /\ PeriphRst' /\ Ordered(rst'.sync)
        /\ SysStep => rst'.edges = rst.edges
    BY <1>2, <1>6, <2>1
  <2>3. PeriphRst => PerIsReset' \/ UNCHANGED <<per, aDst, dSrc, serving>>
    BY <1>1, Sides, PerTypes
  <2>4. UNCHANGED <<per, aDst, dSrc, serving>> /\ PerIsReset => PerIsReset'
    BY DEF PerIsReset, A!DstReset, A!SrcReset, A!SyncReset, A!Stages
  <2>5. rst.edges > BRIDGE_STAGES => PerIsReset
    BY <2>1 DEF Resetting
  <2>6. ~rst'.sys => PerIsReset'
    BY <2>2, <2>3, <2>4, <2>5
  <2>7. rst'.edges > BRIDGE_STAGES => PerIsReset'
    <3>1. CASE SysStep
      <4>1. UNCHANGED <<per, aDst, dSrc, serving>>
        BY <3>1 DEF SysStep
      <4> QED BY <2>2, <2>4, <2>5, <3>1, <4>1
    <3>2. CASE PerStep \/ BothEdges
      <4>1. PICK accept \in Accepts, answer \in Answers : PerEdge(accept, answer)
        BY <3>2 DEF PerStep, BothEdges
      <4>2. accept \in BOOLEAN /\ answer \in BOOLEAN
        BY <4>1 DEF Accepts, Answers
      <4>3. PeriphRst => PerIsReset'
        BY <1>1, <4>1, <4>2, PerResets
      <4> QED BY <2>2, <4>3
    <3> QED BY <3>1, <3>2
  <2>8. ~rst'.sys => SysIsReset'
    <3>1. CASE SysStep \/ BothEdges
      <4>1. \E v \in Offers, q \in Requests, ready \in BOOLEAN : SysEdge(v, q, ready)
        BY <3>1 DEF SysStep, BothEdges
      <4> QED BY <1>1, <1>6, <4>1, SysResets
    <3>2. CASE PerStep
      BY <1>2, <1>6, <3>2
    <3> QED BY <3>1, <3>2
  <2> QED BY <2>2, <2>6, <2>7, <2>8
<1>7. ASSUME rst.sys, ~rst'.sys
      PROVE  Linked'
  <2>1. SysIsReset' /\ PerIsReset' /\ PeriphRst' /\ Ordered(rst'.sync)
    BY <1>6, <1>7
  <2>2. LongReset'
    BY DEF LongReset, Nothing
  <2>3. /\ Hand(aSrc, aDst)' /\ Hand(dSrc, dDst)' /\ OnTheWay'
        /\ (sys.aReady = ~sys.aValid)' /\ (per.dReady = ~per.dValid)'
    BY <2>1, <2>2, BothReset, PTL
  <2> QED BY <2>1, <2>3 DEF Linked, Ordered, Flops
<1>8. ASSUME rst.sys, rst'.sys
      PROVE  Resetting'
  BY <1>6, <1>8 DEF Resetting, Reached
<1> QED BY <1>1, <1>4, <1>5, <1>7, <1>8 DEF IInv

(***************************************************************************)
(* What it is for                                                          *)
(***************************************************************************)
\* The request is where BridgeInv looks for it.
LEMMA InvFacts ==
  ASSUME LongReset, IInv
  PROVE  BridgeInv
<1>1. BridgeTypeOK
  BY DEF IInv
<1>2. ASSUME ~rst.sys
      PROVE  /\ Hand(aSrc, aDst) /\ Hand(dSrc, dDst) /\ Carried
             /\ \E w \in Places : At(w)
  BY <1>2 DEF IInv, Linked, OnTheWay
<1>3. ResponseAnswers
  BY <1>2 DEF ResponseAnswers, Carried
<1>4. ServesCurrent
  BY <1>2 DEF ServesCurrent, Carried
<1>5. OnePlace
  <2> SUFFICES ASSUME ~rst.sys
               PROVE  Count(sys.aValid) + Len(A!InFlight) + Count(per.aValid) + Count(serving # Nothing)
                        + Count(per.dValid) + Len(D!InFlight) + Count(sys.dValid) = Count(waiting # Nothing)
    BY DEF OnePlace
  <2>1. PICK w \in Places : At(w)
    BY <1>2
  <2>2. /\ Len(A!InFlight) = Count(Carries(aSrc, aDst))
        /\ Len(D!InFlight) = Count(Carries(dSrc, dDst))
    BY DEF A!InFlight, D!InFlight, Carries, Count
  <2>3. /\ Count(sys.aValid) = (IF w = "offered" THEN 1 ELSE 0)
        /\ Len(A!InFlight) = (IF w = "request" THEN 1 ELSE 0)
        /\ Count(per.aValid) = (IF w = "arrived" THEN 1 ELSE 0)
        /\ Count(serving # Nothing) = (IF w = "served" THEN 1 ELSE 0)
        /\ Count(per.dValid) = (IF w = "answered" THEN 1 ELSE 0)
        /\ Len(D!InFlight) = (IF w = "response" THEN 1 ELSE 0)
        /\ Count(sys.dValid) = (IF w = "back" THEN 1 ELSE 0)
        /\ Count(waiting # Nothing) = (IF w = "none" THEN 0 ELSE 1)
    BY <2>1, <2>2 DEF At, Count
  <2> QED BY <2>3 DEF Places
<1> QED BY <1>1, <1>3, <1>4, <1>5 DEF BridgeInv

\* After power-on both sides are as after a reset, and neither is in one.
LEMMA Starts ==
  ASSUME LongReset, BridgeInit
  PROVE  IInv
<1>1. PICK q \in Requests :
        /\ sys = [aValid |-> FALSE, aReady |-> TRUE, aData |-> q, dValid |-> FALSE, dData |-> q]
        /\ per = [aValid |-> FALSE, aData |-> q, dValid |-> FALSE, dReady |-> TRUE, dData |-> q]
        /\ aSrc = A!SrcReset(q) /\ aDst = A!DstReset(q)
        /\ dSrc = A!SrcReset(q) /\ dDst = A!DstReset(q)
        /\ rst = [sys |-> FALSE, sync |-> [i \in 1 .. BRIDGE_STAGES |-> TRUE], edges |-> 0]
        /\ waiting = Nothing /\ serving = Nothing
  BY SameHandshake DEF BridgeInit
<1>2. /\ aSrc.data_hold = q /\ aDst.data = q /\ dSrc.data_hold = q /\ dDst.data = q
      /\ aSrc \in A!SrcState /\ aDst \in A!DstState /\ dSrc \in D!SrcState /\ dDst \in D!DstState
  <2>1. A!SyncReset \in [A!Stages -> BOOLEAN]
    BY DEF A!SyncReset, A!Stages
  <2>2. /\ aSrc.data_hold = q /\ aDst.data = q /\ dSrc.data_hold = q /\ dDst.data = q
        /\ aSrc \in A!SrcState /\ aDst \in A!DstState /\ dSrc \in A!SrcState /\ dDst \in A!DstState
    BY <1>1, <2>1 DEF A!SrcReset, A!DstReset, A!SrcState, A!DstState
  <2> QED BY <2>2, SameHandshake
<1>3. SysIsReset /\ PerIsReset
  BY <1>1, <1>2 DEF SysIsReset, PerIsReset
<1>4. /\ rst \in [sys : BOOLEAN, sync : [1 .. BRIDGE_STAGES -> BOOLEAN], edges : 0 .. RESET_EDGES]
      /\ ~rst.sys /\ \A i \in Flops : rst.sync[i] = TRUE
  BY <1>1 DEF LongReset, Flops
<1>5. BridgeTypeOK
  BY <1>1, <1>2, <1>4 DEF BridgeTypeOK, AnyReq
<1> QED BY <1>3, <1>4, <1>5, BothReset DEF IInv, Linked

\* The bridge, between the bus and a peripheral on another clock: the request
\* under way is in one place, a response answers the request that waits for it,
\* and a reset that outlasts the synchronizers leaves nothing of an earlier
\* request behind in either direction (bus_cdc_bridge.sv:90-140).
THEOREM BridgeSafe ==
  ASSUME LongReset
  PROVE  BridgeSpec => []BridgeInv
<1>1. BridgeInit => IInv
  BY Starts
<1>2. IInv /\ [BridgeNext]_bridge_vars => IInv'
  <2>1. CASE UNCHANGED bridge_vars
    <3>1. BridgeTypeOK' <=> BridgeTypeOK
      BY <2>1 DEF bridge_vars, BridgeTypeOK, AnyReq, Nothing, A!SrcState, A!DstState, D!SrcState, D!DstState, A!Stages, D!Stages
    <3>2. PeriphRst' = PeriphRst /\ PerIsReset' = PerIsReset /\ rst' = rst
      BY <2>1 DEF bridge_vars, PeriphRst, PerIsReset, A!DstReset, A!SrcReset, A!SyncReset, A!Stages
    <3>3. Hand(aSrc, aDst)' = Hand(aSrc, aDst) /\ Hand(dSrc, dDst)' = Hand(dSrc, dDst)
      BY <2>1 DEF bridge_vars, Hand, Flops
    <3>4. OnTheWay' = OnTheWay
      BY <2>1 DEF bridge_vars, OnTheWay, At, Carried, Carries, Nothing, Places
    <3>5. Linked' <=> Linked
      BY <2>1, <3>2, <3>3, <3>4 DEF bridge_vars, Linked, Flops
    <3>6. Resetting' <=> Resetting
      BY <2>1, <3>2 DEF Resetting, Flops
    <3> QED BY <3>1, <3>2, <3>5, <3>6 DEF IInv
  <2>2. CASE BridgeNext
    BY <2>2, IInvStep DEF BridgeNext
  <2> QED BY <2>1, <2>2
<1>3. IInv => BridgeInv
  BY InvFacts
<1> QED BY <1>1, <1>2, <1>3, PTL DEF BridgeSpec

=============================================================================
