------------------------ MODULE DeviceRuntimeOutcomes ------------------------
(***************************************************************************)
(* What becomes of a request. Whatever times out or fails, every part of   *)
(* the runtime holds requests that the client can have made, the link      *)
(* holds no more packets than are accounted for, requests are concluded    *)
(* once each and in order, and a command that waits for its requests       *)
(* returns when they are over. As long as nothing fails, and no old event  *)
(* is left over at its start, the command does what it says (at the end).  *)
(***************************************************************************)
EXTENDS DeviceRuntimeProofs

(***************************************************************************)
(* The places of the client, and how it moves between them.                *)
(***************************************************************************)
Places == {"idle", "next", "enqueue", "poll", "wait_reset", "drain", "join", "gone"}
Results == {"none", "done", "refused", "failed"}

\* How far a request brings its call, and what has been read with it.
Stride == IF Call \in {"write_region", "read_region"} THEN main.req.size * main.req.beats ELSE 1
ReadSoFar(data) == IF Call = "read_region" THEN main.data \o data ELSE main.data

\* The next request of the call, the next call of the command, or its end.
LEMMA AdvanceFields ==
  ASSUME ClientInv, NEW data, NEW m, m = Advance(data)
  PROVE  /\ DOMAIN m = DOMAIN main /\ m.cmd = main.cmd /\ m.region = main.region
         /\ m.fresh = main.fresh /\ m.data = ReadSoFar(data)
         /\ \/ /\ main.offset + Stride < CallLength(Call, main.region)
               /\ m.at = "next" /\ m.call = main.call /\ m.offset = main.offset + Stride
               /\ m.req = main.req /\ m.result = main.result
            \/ /\ ~(main.offset + Stride < CallLength(Call, main.region))
               /\ main.call < Len(Script[main.cmd])
               /\ m.at = "next" /\ m.call = main.call + 1 /\ m.offset = 0
               /\ m.req = main.req /\ m.result = main.result
            \/ /\ ~(main.offset + Stride < CallLength(Call, main.region))
               /\ ~(main.call < Len(Script[main.cmd]))
               /\ m.at = "idle" /\ m.call = main.call /\ m.offset = main.offset
               /\ m.req = None /\ m.result = Outcome(ReadSoFar(data))
<1>1. DOMAIN main = {"at", "cmd", "call", "offset", "data", "req", "region", "result", "fresh"}
  BY DEF ClientInv
<1>2. PICK step, all : step = Stride /\ all = ReadSoFar(data)
  OBVIOUS
<1>3. m = IF main.offset + step < CallLength(Call, main.region)
          THEN [main EXCEPT !.at = "next", !.offset = main.offset + step, !.data = all]
          ELSE IF main.call < Len(Script[main.cmd])
          THEN [main EXCEPT !.at = "next", !.call = @ + 1, !.offset = 0, !.data = all]
          ELSE [Finish(Outcome(all)) EXCEPT !.data = all]
  BY <1>2 DEF Advance, Stride, ReadSoFar
<1>4. CASE main.offset + step < CallLength(Call, main.region)
  <2>1. m = [main EXCEPT !.at = "next", !.offset = main.offset + step, !.data = all]
    BY <1>3, <1>4
  <2> QED BY <1>1, <1>2, <1>4, <2>1
<1>5. CASE ~(main.offset + step < CallLength(Call, main.region)) /\ main.call < Len(Script[main.cmd])
  <2>1. m = [main EXCEPT !.at = "next", !.call = @ + 1, !.offset = 0, !.data = all]
    BY <1>3, <1>5
  <2> QED BY <1>1, <1>2, <1>5, <2>1
<1>6. CASE ~(main.offset + step < CallLength(Call, main.region)) /\ ~(main.call < Len(Script[main.cmd]))
  <2>1. m = [Finish(Outcome(all)) EXCEPT !.data = all]
    BY <1>3, <1>6
  <2>2. PICK o : o = Outcome(all)
    OBVIOUS
  <2>3. m = [[main EXCEPT !.at = "idle", !.req = None, !.result = o] EXCEPT !.data = all]
    BY <2>1, <2>2 DEF Finish
  <2> QED BY <1>1, <1>2, <1>6, <2>2, <2>3
<1> QED BY <1>4, <1>5, <1>6

\* The end of a command.
LEMMA FinishFields ==
  ASSUME ClientInv, NEW result, NEW m, m = Finish(result)
  PROVE  /\ DOMAIN m = DOMAIN main /\ m.at = "idle" /\ m.req = None /\ m.result = result
         /\ m.cmd = main.cmd /\ m.call = main.call /\ m.region = main.region
         /\ m.data = main.data /\ m.fresh = main.fresh /\ m.offset = main.offset
BY DEF Finish, ClientInv

LEMMA FailedFields ==
  ASSUME ClientInv, NEW m, m = Failed
  PROVE  /\ DOMAIN m = DOMAIN main /\ m.at = (IF Starting THEN "gone" ELSE "idle")
         /\ m.req = None /\ m.result = "failed"
         /\ m.cmd = main.cmd /\ m.region = main.region /\ m.fresh = main.fresh
<1>1. PICK f : f = Finish("failed")
  OBVIOUS
<1>2. m = [f EXCEPT !.at = IF Starting THEN "gone" ELSE @]
  BY <1>1 DEF Failed
<1>3. DOMAIN f = {"at", "cmd", "call", "offset", "data", "req", "region", "result", "fresh"}
  BY <1>1, FinishFields DEF ClientInv
<1> QED BY <1>1, <1>2, <1>3, FinishFields

\* The result of a reset finds the client where it waits for it, or nowhere.
LEMMA ReportFields ==
  ASSUME Reported
  PROVE  \/ main' = main
         \/ main.at = "wait_reset" /\ (main' = Failed \/ main' = Advance(<< >>))
         \/ /\ main.at = "wait_reset" /\ main' = [main EXCEPT !.at = "drain"]
            /\ Call = "reset_system" /\ backend = "fpga"
BY DEF Reported, ReportReset, Awaited

\* What the background thread and the target leave alone.
LEMMA ThreadFrame ==
  ASSUME Thread \/ Failure \/ CpuIssue \/ DevTake \/ DevServe
  PROVE  /\ UNCHANGED <<backend, budget>> /\ (UNCHANGED main \/ Reported)
         /\ ~Command => /\ UNCHANGED commands /\ pending' \in {pending, None}
                        /\ direct' \in {direct, NoResponse}
<1>1. CASE Command
  BY <1>1 DEF Command, LocalCommand, RtlCommand, SimCommand, FpgaReset, SimReset, Reported, fixed
<1>2. CASE NoCommand \/ SimTimeOut \/ NoTimeOut \/ RxPacket \/ TxPackets \/ SimLink \/ FpgaCpu \/ SimNoResponse
  BY <1>2
     DEF NoCommand, SimTimeOut, NoTimeOut, RxPacket, TxPackets, SimLink, FpgaCpu, SimNoResponse, client, fixed
<1>3. CASE FpgaTimeOut
  BY <1>3 DEF FpgaTimeOut, Reported, fixed
<1>4. CASE Response
  BY <1>4 DEF Response, Reported, fixed
<1>5. CASE Settle
  BY <1>5 DEF Settle, Reported, fixed
<1>6. CASE Failure
  BY <1>6 DEF Failure, PortError, SimulationError, client, Reported, fixed
<1>7. CASE CpuIssue \/ DevTake \/ DevServe
  BY <1>7 DEF CpuIssue, DevTake, DevServe, client, fixed
<1> QED BY <1>1, <1>2, <1>3, <1>4, <1>5, <1>6, <1>7 DEF Thread

\* Requests and commands are counted upwards.
LEMMA Counted ==
  ASSUME DOMAIN count = {"ids", "commands", "faults", "botched", "cpu"}, count.ids \in Nat, [Next]_vars
  PROVE  /\ DOMAIN count' = DOMAIN count
         /\ count'.ids \in Nat /\ count'.ids >= count.ids
         /\ ~Client => count'.commands = count.commands
         /\ ~Client /\ ~Command => count'.ids = count.ids
<1>1. CASE Client
  <2>1. \/ UNCHANGED count
        \/ count' = [count EXCEPT !.commands = @ + 1]
        \/ count' = [count EXCEPT !.ids = @ + 1]
    BY <1>1, ClientFrame
  <2> QED BY <1>1, <2>1
<1>2. CASE Command
  BY <1>2, CommandCount
<1>3. CASE ~Client /\ ~Command
  <2>1. \/ UNCHANGED count
        \/ count' = [count EXCEPT !.faults = @ + 1]
        \/ count' = [count EXCEPT !.cpu = @ + 1]
        \/ \E b : count' = [count EXCEPT !.faults = @ + 1, !.botched = b]
    BY <1>3 DEF Next, Thread, Failure, NoCommand, FpgaTimeOut, SimTimeOut, NoTimeOut, RxPacket, TxPackets,
                SimLink, Response, FpgaCpu, SimNoResponse, Settle, PortError, SimulationError, CpuIssue,
                DevTake, DevServe, Fault, vars
  <2>2. DOMAIN count' = DOMAIN count /\ count'.ids = count.ids /\ count'.commands = count.commands
    <3>1. CASE UNCHANGED count
      BY <3>1
    <3>2. CASE count' = [count EXCEPT !.faults = @ + 1] \/ count' = [count EXCEPT !.cpu = @ + 1]
      BY <3>2
    <3>3. ASSUME NEW b, count' = [count EXCEPT !.faults = @ + 1, !.botched = b]
          PROVE  DOMAIN count' = DOMAIN count /\ count'.ids = count.ids /\ count'.commands = count.commands
      BY <3>3
    <3> QED BY <2>1, <3>1, <3>2, <3>3
  <2> QED BY <1>3, <2>2
<1> QED BY <1>1, <1>2, <1>3

(***************************************************************************)
(* What the link holds: requests of a set G that the host can have made,   *)
(* and at most n packets more than the request that is outgoing and the    *)
(* access of the CPU account for.  The arguments are those of OneRequest.  *)
(***************************************************************************)
LinkOf(h, t, d, u, held, G) ==
  /\ h.outgoing_request \in G /\ h.outgoing_response.req \in G /\ held \in G
  /\ \A x \in Elems(t) : x.type = "host_req" => x.req \in G
  /\ \A x \in Elems(d) : x.type = "host_req" => x.req \in G
  /\ \A x \in Elems(u) : x.type = "host_resp" => x.req \in G

One(x) == IF x THEN 1 ELSE 0

Weight(h, t, d, u, held) ==
  Len(t) + Len(d) + Len(u) + One(held # None) + One(h.incoming_request # None)
  + One(h.accepted_request # None) + One(h.outgoing_request # None /\ ~h.tx_started)
  + One(h.outgoing_response # NoResponse)

Fits(h, t, d, u, held, n) ==
  Weight(h, t, d, u, held) <= n + One(h.outgoing_request # None) + One(HasAccess(h, t, d, u))

\* What is true of a link stays true of it.
StaysIn(h, t, d, u, g, s, v, w, held) ==
  /\ \A G : LinkOf(h, t, d, u, held, G) => LinkOf(g, s, v, w, held, G)
  /\ \A n \in Nat : Fits(h, t, d, u, held, n) => Fits(g, s, v, w, held, n)

\* A packet of the target goes to its buffer (finalize_rx_packet).
LEMMA TakeIn ==
  ASSUME NEW h, IsHandler(h), NEW t, IsSeq(t), NEW d, IsSeq(d), NEW u, FromTarget(u), u # << >>,
         CanTake(h, Head(u)), NEW g, g = FinalizeRx(h, Head(u)), NEW held
  PROVE  StaysIn(h, t, d, u, g, t, d, Tail(u), held)
<1>1. PICK x, w : x = Head(u) /\ w = Tail(u)
  OBVIOUS
<1>2. /\ IsSeq(u) /\ x.type \in {"cpu_req", "host_resp"} /\ Elems(u) = Elems(w) \cup {x}
      /\ Len(u) \in Nat /\ Len(w) = Len(u) - 1 /\ Len(t) \in Nat /\ Len(d) \in Nat
  BY <1>1, FirstFromTarget, TailElems, TailSeq DEF FromTarget, IsSeq
<1>3. /\ Has(u, "cpu_req") <=> Has(w, "cpu_req") \/ x.type = "cpu_req"
  BY <1>1, <1>2, TailHas
<1>4. CASE x.type = "cpu_req"
  <2>1. /\ g.outgoing_request = h.outgoing_request /\ g.tx_started = h.tx_started
        /\ g.outgoing_response = h.outgoing_response /\ g.accepted_request = h.accepted_request
        /\ h.incoming_request = None
    BY <1>1, <1>4 DEF FinalizeRx, IsResponse, CanTake, IsHandler
  <2>2. \A G : LinkOf(h, t, d, u, held, G) => LinkOf(g, t, d, w, held, G)
    BY <1>2, <2>1 DEF LinkOf
  <2>3. ASSUME NEW n \in Nat, Fits(h, t, d, u, held, n) PROVE Fits(g, t, d, w, held, n)
    <3>1. HasAccess(h, t, d, u)
      BY <1>3, <1>4 DEF HasAccess
    <3>2. g.incoming_request # None => HasAccess(g, t, d, w)
      BY DEF HasAccess
    <3> QED BY <1>2, <2>1, <2>3, <3>1, <3>2 DEF Fits, Weight, One
  <2> QED BY <1>1, <2>2, <2>3 DEF StaysIn
<1>5. CASE x.type = "host_resp"
  <2>1. /\ g.outgoing_request = h.outgoing_request /\ g.tx_started = h.tx_started
        /\ g.incoming_request = h.incoming_request /\ g.accepted_request = h.accepted_request
        /\ h.outgoing_response = NoResponse
        /\ g.outgoing_response \in {h.outgoing_response, [req |-> x.req, data |-> x.data]}
    BY <1>1, <1>5 DEF FinalizeRx, IsResponse, CanTake, IsHandler
  <2>2. \A G : LinkOf(h, t, d, u, held, G) => LinkOf(g, t, d, w, held, G)
    BY <1>2, <1>5, <2>1 DEF LinkOf
  <2>3. ASSUME NEW n \in Nat, Fits(h, t, d, u, held, n) PROVE Fits(g, t, d, w, held, n)
    <3>1. HasAccess(h, t, d, u) <=> HasAccess(g, t, d, w)
      BY <1>3, <1>5, <2>1 DEF HasAccess
    <3> QED BY <1>2, <2>1, <2>3, <3>1 DEF Fits, Weight, One
  <2> QED BY <1>1, <2>2, <2>3 DEF StaysIn
<1> QED BY <1>2, <1>4, <1>5

\* A packet leaves the handler for a buffer (start_tx_packet).
LEMMA StartIn ==
  ASSUME NEW h, IsHandler(h), NEW t, IsSeq(t), NEW d, IsSeq(d), NEW u, IsSeq(u),
         NEW g, g = AfterTx(h), NEW held
  PROVE  StaysIn(h, t, d, u, g, t \o Encoded(h), d, u, held)
<1>1. PICK e, v : e = Encoded(h) /\ v = t \o e
  OBVIOUS
<1>2. /\ IsSeq(e) /\ Len(e) \in Nat /\ Len(e) <= 1
      /\ \A i \in 1 .. Len(e) : e[i].type = "host_req" => e[i].req = h.outgoing_request
      /\ Has(e, "cpu_resp") <=> h.accepted_request # None /\ h.pending_response
  BY <1>1, EncodedHas DEF IsSeq
<1>3. /\ Elems(v) = Elems(t) \cup Elems(e) /\ Len(v) = Len(t) + Len(e)
      /\ Len(t) \in Nat /\ Len(d) \in Nat /\ Len(u) \in Nat
  BY <1>1, <1>2, ConcatElems, ConcatSeq DEF IsSeq
<1>4. Has(v, "cpu_resp") <=> Has(t, "cpu_resp") \/ Has(e, "cpu_resp")
  BY <1>1, <1>2, ConcatHas
<1>5. \A x \in Elems(e) : x.type = "host_req" => x.req = h.outgoing_request
  BY <1>2 DEF Elems
<1>6. /\ g.outgoing_request = h.outgoing_request /\ g.outgoing_response = h.outgoing_response
      /\ g.incoming_request = h.incoming_request
      /\ \/ /\ h.accepted_request # None /\ h.pending_response
            /\ g.accepted_request = None /\ g.tx_started = h.tx_started
         \/ /\ ~(h.accepted_request # None /\ h.pending_response)
            /\ h.outgoing_request # None /\ ~h.tx_started
            /\ g.accepted_request = h.accepted_request /\ g.tx_started
         \/ /\ ~(h.accepted_request # None /\ h.pending_response)
            /\ e = << >> /\ g = h
  <2>1. CASE h.accepted_request # None /\ h.pending_response
    <3>1. g = [h EXCEPT !.accepted_request = None, !.pending_response = FALSE]
      BY <2>1 DEF AfterTx, HasTx, StartTx
    <3> QED BY <2>1, <3>1 DEF IsHandler
  <2>2. CASE ~(h.accepted_request # None /\ h.pending_response) /\ h.outgoing_request # None /\ ~h.tx_started
    <3>1. g = [h EXCEPT !.tx_started = TRUE]
      BY <2>2 DEF AfterTx, HasTx, StartTx
    <3> QED BY <2>2, <3>1 DEF IsHandler
  <2>3. CASE ~HasTx(h)
    <3>1. g = h /\ e = << >>
      BY <1>1, <2>3 DEF AfterTx, Encoded
    <3> QED BY <2>3, <3>1 DEF HasTx
  <2> QED BY <2>1, <2>2, <2>3 DEF HasTx
<1>7. \A G : LinkOf(h, t, d, u, held, G) => LinkOf(g, v, d, u, held, G)
  BY <1>3, <1>5, <1>6 DEF LinkOf
<1>8. ASSUME NEW n \in Nat, Fits(h, t, d, u, held, n) PROVE Fits(g, v, d, u, held, n)
  <2>1. CASE h.accepted_request # None /\ h.pending_response
    <3>1. HasAccess(h, t, d, u) /\ HasAccess(g, v, d, u)
      BY <1>2, <1>4, <2>1 DEF HasAccess
    <3> QED BY <1>2, <1>3, <1>6, <1>8, <2>1, <3>1 DEF Fits, Weight, One
  <2>2. CASE ~(h.accepted_request # None /\ h.pending_response)
    <3>1. HasAccess(h, t, d, u) <=> HasAccess(g, v, d, u)
      BY <1>2, <1>4, <1>6, <2>2 DEF HasAccess
    <3>2. Len(<< >>) = 0
      OBVIOUS
    <3> QED BY <1>2, <1>3, <1>6, <1>8, <2>2, <3>1, <3>2 DEF Fits, Weight, One
  <2> QED BY <2>1, <2>2
<1> QED BY <1>1, <1>7, <1>8 DEF StaysIn

\* Some of a buffer moves to the other one (drain_tx_buffer).
LEMMA SplitIn ==
  ASSUME NEW h, NEW t, IsSeq(t), NEW d, IsSeq(d), NEW u, IsSeq(u), NEW n \in 0 .. Len(t), NEW held
  PROVE  StaysIn(h, t, d, u, h, SubSeq(t, n + 1, Len(t)), d \o SubSeq(t, 1, n), u, held)
<1>1. PICK a, b, v : a = SubSeq(t, 1, n) /\ b = SubSeq(t, n + 1, Len(t)) /\ v = d \o a
  OBVIOUS
<1>2. /\ Len(t) \in Nat /\ n \in Nat /\ n <= Len(t) /\ 1 \in Nat /\ 1 <= 1 /\ 1 <= n + 1
      /\ n + 1 \in Nat /\ n + 1 <= Len(t) + 1 /\ Len(d) \in Nat /\ Len(u) \in Nat
  BY DEF IsSeq
<1>3. /\ IsSeq(a) /\ Len(a) = n /\ IsSeq(b) /\ Len(b) = Len(t) - n
      /\ Elems(t) = Elems(a) \cup Elems(b)
  <2>1. IsSeq(a) /\ Len(a) = n + 1 - 1
    BY <1>1, <1>2, SubSeqSeq
  <2>2. IsSeq(b) /\ Len(b) = Len(t) + 1 - (n + 1)
    BY <1>1, <1>2, SubSeqSeq
  <2> QED BY <1>1, <1>2, <2>1, <2>2, SplitElems
<1>4. Elems(v) = Elems(d) \cup Elems(a) /\ Len(v) = Len(d) + n
  BY <1>1, <1>3, ConcatElems, ConcatSeq
<1>5. \A G : LinkOf(h, t, d, u, held, G) => LinkOf(h, b, v, u, held, G)
  BY <1>3, <1>4 DEF LinkOf
<1>6. HasAccess(h, t, d, u) <=> HasAccess(h, b, v, u)
  <2>1. Has(t, "cpu_resp") <=> Has(a, "cpu_resp") \/ Has(b, "cpu_resp")
    BY <1>3, HasElems
  <2>2. Has(v, "cpu_resp") <=> Has(d, "cpu_resp") \/ Has(a, "cpu_resp")
    BY <1>4, HasElems
  <2> QED BY <2>1, <2>2 DEF HasAccess
<1>7. Weight(h, t, d, u, held) = Weight(h, b, v, u, held)
  <2>1. Len(t) + Len(d) = Len(b) + Len(v) /\ Len(b) \in Int /\ Len(v) \in Int
    BY <1>2, <1>3, <1>4
  <2> QED BY <1>2, <2>1 DEF Weight
<1>8. \A m \in Nat : Fits(h, t, d, u, held, m) => Fits(h, b, v, u, held, m)
  BY <1>6, <1>7 DEF Fits, One
<1> QED BY <1>1, <1>5, <1>8 DEF StaysIn

\* The request of the CPU is accepted, and answered.
LEMMA AcceptIn ==
  ASSUME NEW h, IsHandler(h), NEW t, IsSeq(t), NEW d, IsSeq(d), NEW u, IsSeq(u), NEW held,
         NEW a, a = (IF HasIncoming(h) THEN Accept(h) ELSE h), NEW g, g \in {a, Complete(a)}
  PROVE  StaysIn(h, t, d, u, g, t, d, u, held)
<1>1. /\ IsHandler(a) /\ a.outgoing_request = h.outgoing_request /\ a.tx_started = h.tx_started
      /\ a.outgoing_response = h.outgoing_response
      /\ \/ /\ a.incoming_request = h.incoming_request /\ a.accepted_request = h.accepted_request
         \/ /\ h.accepted_request = None /\ a.accepted_request = h.incoming_request
            /\ a.incoming_request = None
  <2>1. CASE HasIncoming(h)
    <3>1. a = [h EXCEPT !.accepted_request = h.incoming_request, !.incoming_request = None]
      BY <2>1 DEF Accept
    <3> QED BY <2>1, <3>1 DEF IsHandler, HasIncoming
  <2> QED BY <2>1
<1>2. /\ g.outgoing_request = a.outgoing_request /\ g.tx_started = a.tx_started
      /\ g.outgoing_response = a.outgoing_response /\ g.accepted_request = a.accepted_request
      /\ g.incoming_request = a.incoming_request
  BY <1>1 DEF Complete, IsHandler
<1>3. HasAccess(g, t, d, u) <=> HasAccess(h, t, d, u)
  BY <1>1, <1>2 DEF HasAccess
<1>4. \A G : LinkOf(h, t, d, u, held, G) => LinkOf(g, t, d, u, held, G)
  BY <1>1, <1>2 DEF LinkOf
<1>5. Len(t) \in Nat /\ Len(d) \in Nat /\ Len(u) \in Nat
  BY DEF IsSeq
<1>6. Weight(h, t, d, u, held) = Weight(g, t, d, u, held)
  BY <1>1, <1>2, <1>5 DEF Weight, One
<1>7. \A n \in Nat : Fits(h, t, d, u, held, n) => Fits(g, t, d, u, held, n)
  BY <1>1, <1>2, <1>3, <1>6 DEF Fits, One
<1> QED BY <1>4, <1>7 DEF StaysIn

(***************************************************************************)
(* The link, step by step: nothing gets on it that is not in the set of    *)
(* requests already, and its packets stay accounted for.                   *)
(***************************************************************************)
Accounted == Fits(handler, tx, toDev, toHost, dev.request, 1 + count.faults)

StepStays ==
  /\ \A G : None \in G /\ LinkOf(handler, tx, toDev, toHost, dev.request, G)
              => LinkOf(handler', tx', toDev', toHost', dev'.request, G)
  /\ ~count'.botched /\ Accounted => Accounted'

LEMMA MoreFits ==
  ASSUME NEW h, NEW t, IsSeq(t), NEW d, IsSeq(d), NEW u, IsSeq(u), NEW held,
         NEW m \in Nat, NEW n \in Nat, m <= n, Fits(h, t, d, u, held, m)
  PROVE  Fits(h, t, d, u, held, n)
BY DEF Fits, Weight, One, IsSeq

\* The packets move, and nothing else.
LEMMA MoveStays ==
  ASSUME LinkInv, LinkInv', dev'.request = dev.request, count'.faults >= count.faults,
         StaysIn(handler, tx, toDev, toHost, handler', tx', toDev', toHost', dev.request)
  PROVE  StepStays
<1>1. count.faults \in Nat /\ count'.faults \in Nat
  BY DEF LinkInv, Shaped
<1>2. /\ \A G : LinkOf(handler, tx, toDev, toHost, dev.request, G)
                  => LinkOf(handler', tx', toDev', toHost', dev.request, G)
      /\ Accounted => Fits(handler', tx', toDev', toHost', dev.request, 1 + count.faults)
  BY <1>1 DEF StaysIn, Accounted
<1>3. Fits(handler', tx', toDev', toHost', dev.request, 1 + count.faults)
        => Fits(handler', tx', toDev', toHost', dev'.request, 1 + count'.faults)
  BY <1>1, MoreFits DEF LinkInv, Shaped, FromTarget
<1> QED BY <1>2, <1>3 DEF StepStays, Accounted

LEMMA SameStays ==
  ASSUME LinkInv, LinkInv', UNCHANGED <<handler, tx, toDev, toHost, dev>>, count'.faults >= count.faults
  PROVE  StepStays
<1>1. StaysIn(handler, tx, toDev, toHost, handler', tx', toDev', toHost', dev.request)
  BY DEF StaysIn
<1> QED BY <1>1, MoveStays

\* The handler, the transmit buffer and some of what has arrived are given up (reset_host_bus,
\* drain_port).
LEMMA FpgaTimeOutStays ==
  ASSUME LinkInv, FpgaTimeOut
  PROVE  StepStays
<1>1. /\ UNCHANGED <<toDev, dev>> /\ tx' = << >> /\ handler' = NewHandler
      /\ count'.faults = count.faults + 1 /\ count.faults \in Nat
  BY DEF FpgaTimeOut, Fault, LinkInv, Shaped
<1>2. PICK n \in 0 .. Len(toHost) : toHost' = SubSeq(toHost, n + 1, Len(toHost))
  BY DEF FpgaTimeOut
<1>3. PICK w : w = SubSeq(toHost, n + 1, Len(toHost))
  OBVIOUS
<1>4. IsSeq(toHost) /\ IsSeq(tx) /\ IsSeq(toDev) /\ IsHandler(handler)
  BY DEF LinkInv, Shaped, FromTarget
<1>5. /\ Len(toHost) \in Nat /\ Len(tx) \in Nat /\ Len(toDev) \in Nat /\ n \in Nat /\ n <= Len(toHost)
      /\ 1 <= n + 1 /\ n + 1 <= Len(toHost) + 1 /\ n + 1 \in Nat
  BY <1>4 DEF IsSeq
<1>6. /\ IsSeq(w) /\ Len(w) = Len(toHost) + 1 - (n + 1) /\ Elems(w) \subseteq Elems(toHost)
      /\ Has(toHost, "cpu_req") /\ ~Has(w, "cpu_req") => n # 0
  <2>1. IsSeq(w) /\ Len(w) = Len(toHost) + 1 - (n + 1)
    BY <1>3, <1>4, <1>5, SubSeqSeq
  <2>2. Elems(w) \subseteq Elems(toHost)
    BY <1>3, <1>4, SplitElems
  <2>3. ASSUME n = 0 PROVE w = toHost
    <3>1. \A i \in 1 .. Len(toHost) + 1 - (n + 1) : w[i] = toHost[n + 1 + i - 1]
      BY <1>3, <1>4, <1>5, SubSeqSeq
    <3>2. Len(w) = Len(toHost) /\ \A i \in 1 .. Len(toHost) : w[i] = toHost[i]
      BY <1>5, <2>1, <2>3, <3>1
    <3> QED BY <1>4, <2>1, <3>2 DEF IsSeq
  <2> QED BY <2>1, <2>2, <2>3
<1>7. /\ NewHandler.outgoing_request = None /\ NewHandler.outgoing_response.req = None
      /\ NewHandler.outgoing_response = NoResponse /\ NewHandler.incoming_request = None
      /\ NewHandler.accepted_request = None
  BY DEF NewHandler, NoResponse
<1>8. ASSUME NEW G, None \in G, LinkOf(handler, tx, toDev, toHost, dev.request, G)
      PROVE  LinkOf(NewHandler, << >>, toDev, w, dev.request, G)
  BY <1>6, <1>7, <1>8, EmptyElems DEF LinkOf
<1>9. ASSUME Accounted PROVE Fits(NewHandler, << >>, toDev, w, dev.request, 1 + (count.faults + 1))
  <2>1. Has(tx, "cpu_resp") => Len(tx) >= 1
    BY <1>5 DEF Has
  <2>2. /\ HasAccess(NewHandler, << >>, toDev, w) <=> Has(w, "cpu_req") \/ Has(toDev, "cpu_resp")
    BY <1>7, EmptySeq DEF HasAccess
  <2>3. HasAccess(handler, tx, toDev, toHost) =>
          \/ Has(w, "cpu_req") \/ Has(toDev, "cpu_resp") \/ n # 0 \/ Len(tx) >= 1
          \/ handler.incoming_request # None \/ handler.accepted_request # None
    BY <1>6, <2>1 DEF HasAccess
  <2>4. Len(<< >>) = 0
    OBVIOUS
  <2>5. PICK held, i, a, s, r, o, x, y :
          /\ held = One(dev.request # None) /\ i = One(handler.incoming_request # None)
          /\ a = One(handler.accepted_request # None) /\ r = One(handler.outgoing_response # NoResponse)
          /\ s = One(handler.outgoing_request # None /\ ~handler.tx_started)
          /\ o = One(handler.outgoing_request # None) /\ x = One(HasAccess(handler, tx, toDev, toHost))
          /\ y = One(HasAccess(NewHandler, << >>, toDev, w))
    OBVIOUS
  <2>6. /\ held \in 0 .. 1 /\ i \in 0 .. 1 /\ a \in 0 .. 1 /\ s \in 0 .. 1
        /\ r \in 0 .. 1 /\ o \in 0 .. 1 /\ x \in 0 .. 1 /\ y \in 0 .. 1
        /\ x <= y + n + Len(tx) + i + a
    <3>1. /\ held \in 0 .. 1 /\ i \in 0 .. 1 /\ a \in 0 .. 1 /\ s \in 0 .. 1
          /\ r \in 0 .. 1 /\ o \in 0 .. 1 /\ x \in 0 .. 1 /\ y \in 0 .. 1
      BY <2>5 DEF One
    <3>2. x = 1 => y = 1 \/ n # 0 \/ Len(tx) >= 1 \/ i = 1 \/ a = 1
      BY <2>2, <2>3, <2>5 DEF One
    <3> QED BY <1>5, <3>1, <3>2
  <2>7. Len(tx) + Len(toDev) + Len(toHost) + held + i + a + s + r <= 1 + count.faults + o + x
    BY <1>9, <2>5 DEF Accounted, Fits, Weight
  <2>8. Len(toDev) + Len(w) + held <= 2 + count.faults + y
    <3>1. PICK lt, ld, lu, lw, f : /\ lt = Len(tx) /\ ld = Len(toDev) /\ lu = Len(toHost) /\ lw = Len(w)
                                   /\ f = count.faults
      OBVIOUS
    <3>2. /\ lt \in Nat /\ ld \in Nat /\ lu \in Nat /\ f \in Nat /\ n \in Nat /\ lw = lu - n
      BY <1>1, <1>5, <1>6, <3>1
    <3>3. lt + ld + lu + held + i + a + s + r <= 1 + f + o + x /\ x <= y + n + lt + i + a
      BY <2>6, <2>7, <3>1
    <3>4. ld + lw + held <= 2 + f + y
      BY <2>6, <3>2, <3>3
    <3> QED BY <3>1, <3>4
  <2>9. One(FALSE) = 0
    BY DEF One
  <2>10. Weight(NewHandler, << >>, toDev, w, dev.request) = Len(toDev) + Len(w) + held
    <3>1. PICK z, l : z = One(FALSE) /\ l = Len(<< >>)
      OBVIOUS
    <3>2. Weight(NewHandler, << >>, toDev, w, dev.request) = l + Len(toDev) + Len(w) + held + z + z + z + z
      BY <1>7, <2>5, <3>1 DEF Weight
    <3>3. Len(w) \in Int /\ Len(toDev) \in Int
      BY <1>5, <1>6
    <3>4. held \in Int
      BY <2>6
    <3>5. z = 0 /\ l = 0
      BY <2>4, <2>9, <3>1
    <3> QED BY <3>2, <3>3, <3>4, <3>5
  <2>11. One(NewHandler.outgoing_request # None) = 0
    BY <1>7, <2>9
  <2>12. Len(w) \in Int
    BY <1>5, <1>6
  <2>13. Len(toDev) + Len(w) + held <= 1 + (count.faults + 1) + 0 + y
    BY <1>1, <1>5, <2>6, <2>8, <2>12
  <2> QED BY <2>5, <2>10, <2>11, <2>13 DEF Fits
<1> QED BY <1>1, <1>2, <1>3, <1>8, <1>9 DEF StepStays, Accounted

\* A packet arrives.
LEMMA RxPacketStays ==
  ASSUME LinkInv, LinkInv', RxPacket
  PROVE  StepStays
<1>1. /\ UNCHANGED <<tx, toDev, dev, count>> /\ toHost # << >> /\ CanTake(handler, Head(toHost))
      /\ handler' = FinalizeRx(handler, Head(toHost)) /\ toHost' = Tail(toHost)
  BY DEF RxPacket
<1>2. IsHandler(handler) /\ IsSeq(tx) /\ IsSeq(toDev) /\ FromTarget(toHost) /\ count.faults \in Nat
  BY DEF LinkInv, Shaped
<1>3. StaysIn(handler, tx, toDev, toHost, handler', tx, toDev, Tail(toHost), dev.request)
  BY <1>1, <1>2, TakeIn
<1> QED BY <1>1, <1>2, <1>3, MoveStays

\* One stay after another.
LEMMA StaysOn ==
  ASSUME NEW h, NEW t, NEW d, NEW u, NEW held, NEW h1, NEW t1, NEW d1, NEW u1, NEW h2, NEW t2, NEW d2, NEW u2,
         StaysIn(h, t, d, u, h1, t1, d1, u1, held), StaysIn(h1, t1, d1, u1, h2, t2, d2, u2, held)
  PROVE  StaysIn(h, t, d, u, h2, t2, d2, u2, held)
BY DEF StaysIn

\* The transmit buffer is filled, and the port takes some of it.
LEMMA TxPacketsStays ==
  ASSUME LinkInv, LinkInv', TxPackets
  PROVE  StepStays
<1>1. PICK h, s, full :
           h = AfterTx(handler) /\ s = tx \o Encoded(handler) /\ full = s \o Encoded(h)
  OBVIOUS
<1>2. UNCHANGED <<dev, toHost>> /\ handler' = AfterTx(h)
  BY <1>1 DEF TxPackets
<1>3. PICK n \in 0 .. Len(full) :
           toDev' = toDev \o SubSeq(full, 1, n) /\ tx' = SubSeq(full, n + 1, Len(full))
  BY <1>1 DEF TxPackets
<1>4. PICK g : g = AfterTx(h)
  OBVIOUS
<1>5. IsHandler(handler) /\ IsSeq(tx) /\ IsSeq(toDev) /\ IsSeq(toHost)
  BY DEF LinkInv, Shaped, FromTarget
<1>6. IsHandler(h) /\ IsSeq(s) /\ StaysIn(handler, tx, toDev, toHost, h, s, toDev, toHost, dev.request)
  BY <1>1, <1>5, StartOp, StartIn
<1>7. IsSeq(full) /\ StaysIn(h, s, toDev, toHost, g, full, toDev, toHost, dev.request)
  BY <1>1, <1>4, <1>5, <1>6, StartOp, StartIn
<1>8. StaysIn(g, full, toDev, toHost, g, SubSeq(full, n + 1, Len(full)), toDev \o SubSeq(full, 1, n),
              toHost, dev.request)
  BY <1>5, <1>7, SplitIn
<1>9. StaysIn(handler, tx, toDev, toHost, handler', tx', toDev', toHost', dev.request)
  BY <1>2, <1>3, <1>4, <1>6, <1>7, <1>8, StaysOn
<1>10. count'.faults >= count.faults
  BY DEF TxPackets, Fault, LinkInv, Shaped
<1> QED BY <1>2, <1>9, <1>10, MoveStays

\* It does not matter which of the two buffers a packet waits in.
LEMMA Turned ==
  ASSUME NEW h, NEW t, IsSeq(t), NEW d, IsSeq(d), NEW u, IsSeq(u), NEW g, NEW v, IsSeq(v), NEW held,
         StaysIn(h, d, t, u, g, v, t, u, held)
  PROVE  StaysIn(h, t, d, u, g, t, v, u, held)
<1>1. \A G : /\ LinkOf(h, t, d, u, held, G) => LinkOf(h, d, t, u, held, G)
             /\ LinkOf(g, v, t, u, held, G) => LinkOf(g, t, v, u, held, G)
  BY DEF LinkOf
<1>2. \A n \in Nat : /\ Fits(h, t, d, u, held, n) => Fits(h, d, t, u, held, n)
                     /\ Fits(g, v, t, u, held, n) => Fits(g, t, v, u, held, n)
  <2>1. /\ HasAccess(h, t, d, u) <=> HasAccess(h, d, t, u)
        /\ HasAccess(g, v, t, u) <=> HasAccess(g, t, v, u)
    BY Symmetric
  <2>2. Len(t) \in Nat /\ Len(d) \in Nat /\ Len(u) \in Nat /\ Len(v) \in Nat
    BY DEF IsSeq
  <2> QED BY <2>1, <2>2 DEF Fits, Weight, One
<1> QED BY <1>1, <1>2 DEF StaysIn

\* A step of the simulator's link.
LEMMA SimLinkStays ==
  ASSUME LinkInv, LinkInv', SimLink
  PROVE  StepStays
<1>1. UNCHANGED <<tx, dev, count>>
  BY DEF SimLink
<1>2. PICK take, send, ready, h, e, sent, accepted, g, u, v :
        /\ take => toHost # << >> /\ CanTake(handler, Head(toHost))
        /\ h = (IF take THEN FinalizeRx(handler, Head(toHost)) ELSE handler)
        /\ e = Encoded(h)
        /\ sent = (IF send THEN AfterTx(h) ELSE h)
        /\ accepted = (IF HasIncoming(sent) THEN Accept(sent) ELSE sent)
        /\ g = (IF ready THEN Complete(accepted) ELSE accepted)
        /\ u = (IF take THEN Tail(toHost) ELSE toHost)
        /\ v = (IF send THEN toDev \o e ELSE toDev)
        /\ handler' = g /\ toHost' = u /\ toDev' = v
  BY SimLinkStep
<1>3. IsHandler(handler) /\ IsSeq(tx) /\ IsSeq(toDev) /\ FromTarget(toHost) /\ count.faults \in Nat
  BY DEF LinkInv, Shaped
<1>4. IsHandler(h) /\ FromTarget(u) /\ StaysIn(handler, tx, toDev, toHost, h, tx, toDev, u, dev.request)
  <2>1. CASE take
    <3>1. toHost # << >> /\ CanTake(handler, Head(toHost)) /\ h = FinalizeRx(handler, Head(toHost)) /\ u = Tail(toHost)
      BY <1>2, <2>1
    <3> QED BY <1>3, <3>1, TakeIn, TakeOp, FirstFromTarget
  <2>2. CASE ~take
    BY <1>2, <1>3, <2>2 DEF StaysIn
  <2> QED BY <2>1, <2>2
<1>5. IsHandler(sent) /\ IsSeq(v) /\ StaysIn(h, tx, toDev, u, sent, tx, v, u, dev.request)
  <2>1. CASE send
    <3>1. sent = AfterTx(h) /\ v = toDev \o Encoded(h)
      BY <1>2, <2>1
    <3>2. IsHandler(sent) /\ IsSeq(v)
      BY <1>3, <1>4, <3>1, StartOp
    <3>3. StaysIn(h, toDev, tx, u, sent, v, tx, u, dev.request)
      BY <1>3, <1>4, <3>1, StartIn DEF FromTarget
    <3>4. StaysIn(h, tx, toDev, u, sent, tx, v, u, dev.request)
      BY <1>3, <1>4, <3>2, <3>3, Turned DEF FromTarget
    <3> QED BY <3>2, <3>4
  <2>2. CASE ~send
    BY <1>2, <1>3, <1>4, <2>2 DEF StaysIn
  <2> QED BY <2>1, <2>2
<1>6. StaysIn(sent, tx, v, u, g, tx, v, u, dev.request)
  <2>1. g \in {accepted, Complete(accepted)}
    BY <1>2
  <2> QED BY <1>2, <1>3, <1>4, <1>5, <2>1, AcceptIn DEF FromTarget
<1>7. StaysIn(handler, tx, toDev, toHost, handler', tx', toDev', toHost', dev.request)
  BY <1>1, <1>2, <1>4, <1>5, <1>6, StaysOn
<1> QED BY <1>1, <1>3, <1>7, MoveStays

\* The request of the CPU is answered.
LEMMA FpgaCpuStays ==
  ASSUME LinkInv, LinkInv', FpgaCpu
  PROVE  StepStays
<1>1. /\ UNCHANGED <<tx, toDev, toHost, dev, count>>
      /\ UNCHANGED handler \/ (HasIncoming(handler) /\ handler' = Complete(Accept(handler)))
  BY DEF FpgaCpu, link
<1>2. IsHandler(handler) /\ IsSeq(tx) /\ IsSeq(toDev) /\ IsSeq(toHost) /\ count.faults \in Nat
  BY DEF LinkInv, Shaped, FromTarget
<1>3. CASE UNCHANGED handler
  BY <1>1, <1>2, <1>3, SameStays
<1>4. CASE HasIncoming(handler) /\ handler' = Complete(Accept(handler))
  <2>1. PICK a : a = Accept(handler)
    OBVIOUS
  <2>2. a = (IF HasIncoming(handler) THEN Accept(handler) ELSE handler) /\ handler' \in {a, Complete(a)}
    BY <1>4, <2>1
  <2>3. StaysIn(handler, tx, toDev, toHost, handler', tx, toDev, toHost, dev.request)
    BY <1>2, <2>2, AcceptIn
  <2> QED BY <1>1, <1>2, <2>3, MoveStays
<1> QED BY <1>1, <1>3, <1>4

\* A response is taken: its request is over (receive_response).
LEMMA ReceiveIn ==
  ASSUME NEW h, IsHandler(h), h.outgoing_response # NoResponse, NEW t, IsSeq(t), NEW d, IsSeq(d),
         NEW u, IsSeq(u), NEW held, NEW g, g = ReceiveResponse(h)
  PROVE  /\ \A G : None \in G /\ LinkOf(h, t, d, u, held, G) => LinkOf(g, t, d, u, held, G)
         /\ \A n \in Nat : Fits(h, t, d, u, held, n) => Fits(g, t, d, u, held, n)
<1>1. /\ g.outgoing_request = None /\ g.outgoing_response = NoResponse
      /\ g.incoming_request = h.incoming_request /\ g.accepted_request = h.accepted_request
  BY DEF ReceiveResponse, IsHandler
<1>2. NoResponse.req = None
  BY DEF NoResponse
<1>3. HasAccess(g, t, d, u) <=> HasAccess(h, t, d, u)
  BY <1>1 DEF HasAccess
<1>4. Len(t) \in Nat /\ Len(d) \in Nat /\ Len(u) \in Nat
  BY DEF IsSeq
<1>5. \A G : None \in G /\ LinkOf(h, t, d, u, held, G) => LinkOf(g, t, d, u, held, G)
  BY <1>1, <1>2 DEF LinkOf
<1>6. \A n \in Nat : Fits(h, t, d, u, held, n) => Fits(g, t, d, u, held, n)
  BY <1>1, <1>3, <1>4 DEF Fits, Weight, One
<1> QED BY <1>5, <1>6

LEMMA ResponseStays ==
  ASSUME LinkInv, LinkInv', Response
  PROVE  StepStays
<1>1. /\ UNCHANGED <<tx, toDev, toHost, dev, count>>
      /\ \/ UNCHANGED handler
         \/ handler' = ReceiveResponse(handler) /\ handler.outgoing_response # NoResponse
  BY DEF Response, link, Available, HasResponse
<1>2. IsHandler(handler) /\ IsSeq(tx) /\ IsSeq(toDev) /\ IsSeq(toHost) /\ count.faults \in Nat
  BY DEF LinkInv, Shaped, FromTarget
<1>3. CASE UNCHANGED handler
  BY <1>1, <1>2, <1>3, SameStays
<1>4. CASE handler' = ReceiveResponse(handler) /\ handler.outgoing_response # NoResponse
  <2>1. 1 + count.faults \in Nat
    BY <1>2
  <2>2. /\ \A G : None \in G /\ LinkOf(handler, tx, toDev, toHost, dev.request, G)
                    => LinkOf(handler', tx, toDev, toHost, dev.request, G)
        /\ Accounted => Fits(handler', tx, toDev, toHost, dev.request, 1 + count.faults)
    BY <1>2, <1>4, <2>1, ReceiveIn DEF Accounted
  <2> QED BY <1>1, <2>2 DEF StepStays, Accounted
<1> QED BY <1>1, <1>3, <1>4

\* A pass ends with an error of the port.
LEMMA PortErrorStays ==
  ASSUME LinkInv, LinkInv', PortError("error") \/ PortError("fatal")
  PROVE  StepStays
<1>1. /\ UNCHANGED <<toDev, toHost, dev>>
      /\ \/ UNCHANGED <<handler, tx>>
         \/ handler' = AfterTx(handler) /\ tx' = tx \o Encoded(handler)
      /\ count' = [count EXCEPT !.faults = @ + 1, !.botched = @ \/ bg.resetting = "system"]
  BY DEF PortError
<1>2. IsHandler(handler) /\ IsSeq(tx) /\ IsSeq(toDev) /\ IsSeq(toHost) /\ count.faults \in Nat
  BY DEF LinkInv, Shaped, FromTarget
<1>3. count'.faults >= count.faults
  BY <1>1, <1>2 DEF LinkInv, Shaped
<1>4. StaysIn(handler, tx, toDev, toHost, handler', tx', toDev, toHost, dev.request)
  <2>1. CASE UNCHANGED <<handler, tx>>
    BY <2>1 DEF StaysIn
  <2>2. CASE handler' = AfterTx(handler) /\ tx' = tx \o Encoded(handler)
    <3>1. PICK g : g = AfterTx(handler)
      OBVIOUS
    <3>2. StaysIn(handler, tx, toDev, toHost, g, tx \o Encoded(handler), toDev, toHost, dev.request)
      BY <1>2, <3>1, StartIn
    <3> QED BY <2>2, <3>1, <3>2
  <2> QED BY <1>1, <2>1, <2>2
<1> QED BY <1>1, <1>3, <1>4, MoveStays

\* Handler and link start anew.
LEMMA ClearAccounted ==
  ASSUME handler' = NewHandler, tx' = << >>, toDev' = << >>, toHost' = << >>,
         dev'.request = None, count'.faults \in Nat
  PROVE  Accounted'
<1>1. /\ NewHandler.outgoing_request = None /\ NewHandler.outgoing_response = NoResponse
      /\ NewHandler.incoming_request = None /\ NewHandler.accepted_request = None
  BY DEF NewHandler, NoResponse
<1>2. Len(<< >>) = 0
  OBVIOUS
<1>3. One(FALSE) = 0
  BY DEF One
<1>4. Weight(handler', tx', toDev', toHost', dev'.request) = 0
  <2>1. PICK z, l : z = One(FALSE) /\ l = Len(<< >>)
    OBVIOUS
  <2>2. Weight(handler', tx', toDev', toHost', dev'.request) = l + l + l + z + z + z + z + z
    BY <1>1, <2>1 DEF Weight
  <2>3. z = 0 /\ l = 0
    BY <1>2, <1>3, <2>1
  <2> QED BY <2>2, <2>3
<1>5. One(handler'.outgoing_request # None) = 0
  BY <1>1, <1>3
<1>6. One(HasAccess(handler', tx', toDev', toHost')) \in 0 .. 1
  BY DEF One
<1> QED BY <1>4, <1>5, <1>6 DEF Accounted, Fits

LEMMA SettleStays ==
  ASSUME LinkInv, Settle
  PROVE  StepStays
<1>1. /\ UNCHANGED <<count, dev>> /\ handler' = NewHandler /\ dev.request = None
      /\ tx' = << >> /\ toDev' = << >> /\ toHost' = << >> /\ count.faults \in Nat
  BY DEF Settle, LinkInv, Shaped
<1>2. NewHandler.outgoing_request = None /\ NewHandler.outgoing_response.req = None
  BY DEF NewHandler, NoResponse
<1>3. \A G : None \in G => LinkOf(handler', tx', toDev', toHost', dev'.request, G)
  BY <1>1, <1>2, EmptyElems DEF LinkOf
<1>4. Accounted'
  BY <1>1, ClearAccounted
<1> QED BY <1>3, <1>4 DEF StepStays

\* The CPU has an access under way at a time.
LEMMA CpuIssueStays ==
  ASSUME LinkInv, CpuIssue
  PROVE  StepStays
<1>1. PICK x : /\ x = Packet("cpu_req", Request(count.cpu + 1, FALSE, RTL_END, 4, 1, 0), << >>)
               /\ toHost' = Append(toHost, x)
  BY DEF CpuIssue
<1>2. /\ UNCHANGED <<handler, tx, toDev>> /\ ~dev.booting /\ ~dev.cpu_wait_resp
      /\ dev' = [dev EXCEPT !.cpu_wait_resp = TRUE] /\ count' = [count EXCEPT !.cpu = @ + 1]
  BY DEF CpuIssue
<1>3. /\ count'.faults = count.faults /\ count'.botched = count.botched /\ count.faults \in Nat
      /\ dev'.request = dev.request
  BY <1>2 DEF LinkInv, Shaped
<1>4. PICK u : u = Append(toHost, x)
  OBVIOUS
<1>5. x.type = "cpu_req" /\ IsSeq(toHost) /\ IsSeq(tx) /\ IsSeq(toDev)
  BY <1>1 DEF Packet, LinkInv, Shaped, FromTarget
<1>6. Elems(u) = Elems(toHost) \cup {x} /\ Len(u) = Len(toHost) + 1 /\ Has(u, "cpu_req")
  BY <1>4, <1>5, AppendElems, AppendSeq, AppendHas
<1>7. ASSUME NEW G, LinkOf(handler, tx, toDev, toHost, dev.request, G)
      PROVE  LinkOf(handler', tx', toDev', toHost', dev'.request, G)
  BY <1>1, <1>2, <1>3, <1>4, <1>5, <1>6, <1>7 DEF LinkOf
<1>8. ASSUME ~count'.botched, Accounted PROVE Accounted'
  <2>1. ~HasAccess(handler, tx, toDev, toHost)
    BY <1>2, <1>3, <1>8 DEF LinkInv, CpuAccess, Restarted
  <2>2. HasAccess(handler, tx, toDev, u)
    BY <1>6 DEF HasAccess
  <2>3. Len(tx) \in Nat /\ Len(toDev) \in Nat /\ Len(toHost) \in Nat
    BY <1>5 DEF IsSeq
  <2>4. Fits(handler, tx, toDev, u, dev.request, 1 + count.faults)
    BY <1>3, <1>6, <1>8, <2>1, <2>2, <2>3 DEF Accounted, Fits, Weight, One
  <2> QED BY <1>1, <1>2, <1>3, <1>4, <2>4 DEF Accounted
<1> QED BY <1>7, <1>8 DEF StepStays

\* The target takes a packet.
LEMMA DevTakeStays ==
  ASSUME LinkInv, DevTake
  PROVE  StepStays
<1>1. PICK pkt, v : pkt = Head(toDev) /\ v = Tail(toDev)
  OBVIOUS
<1>2. /\ UNCHANGED <<handler, tx, toHost, count>> /\ toDev # << >> /\ toDev' = v
      /\ \/ pkt.type = "cpu_resp" /\ dev' = [dev EXCEPT !.cpu_wait_resp = FALSE]
         \/ pkt.type = "host_req" /\ dev.request = None /\ dev' = [dev EXCEPT !.request = pkt.req]
  BY <1>1 DEF DevTake
<1>3. /\ IsSeq(tx) /\ IsSeq(toDev) /\ IsSeq(toHost) /\ count.faults \in Nat
      /\ DOMAIN dev = {"cpu_wait_resp", "request", "booting"}
  BY DEF LinkInv, Shaped, FromTarget
<1>4. /\ Elems(toDev) = Elems(v) \cup {pkt} /\ Len(v) = Len(toDev) - 1
      /\ Len(toDev) \in Nat /\ Len(tx) \in Nat /\ Len(toHost) \in Nat
      /\ \A type : Has(toDev, type) <=> Has(v, type) \/ pkt.type = type
  BY <1>1, <1>2, <1>3, TailElems, TailSeq, TailHas DEF IsSeq
<1>5. \/ pkt.type = "cpu_resp" /\ dev'.request = dev.request
      \/ pkt.type = "host_req" /\ dev.request = None /\ dev'.request = pkt.req
  BY <1>2, <1>3
<1>6. ASSUME NEW G, LinkOf(handler, tx, toDev, toHost, dev.request, G)
      PROVE  LinkOf(handler, tx, v, toHost, dev'.request, G)
  BY <1>4, <1>5, <1>6 DEF LinkOf
<1>7. ASSUME Accounted PROVE Fits(handler, tx, v, toHost, dev'.request, 1 + count.faults)
  <2>1. CASE pkt.type = "cpu_resp" /\ dev'.request = dev.request
    <3>1. HasAccess(handler, tx, toDev, toHost)
      BY <1>4, <2>1 DEF HasAccess
    <3> QED BY <1>3, <1>4, <1>7, <2>1, <3>1 DEF Accounted, Fits, Weight, One
  <2>2. CASE pkt.type = "host_req" /\ dev.request = None
    <3>1. HasAccess(handler, tx, toDev, toHost) <=> HasAccess(handler, tx, v, toHost)
      BY <1>4, <2>2 DEF HasAccess
    <3> QED BY <1>3, <1>4, <1>7, <2>2, <3>1 DEF Accounted, Fits, Weight, One
  <2> QED BY <1>5, <2>1, <2>2
<1> QED BY <1>2, <1>6, <1>7 DEF StepStays, Accounted

\* The target answers the request in hand.
LEMMA DevServeStays ==
  ASSUME LinkInv, LinkInv', DevServe
  PROVE  StepStays
<1>1. UNCHANGED <<handler, tx, toDev, count>> /\ dev.request # None
  BY DEF DevServe
<1>2. /\ IsSeq(tx) /\ IsSeq(toDev) /\ IsSeq(toHost) /\ count.faults \in Nat
      /\ Len(tx) \in Nat /\ Len(toDev) \in Nat /\ Len(toHost) \in Nat
  BY DEF LinkInv, Shaped, FromTarget, IsSeq
<1>3. /\ dev'.request = None
      /\ \/ toHost' = toHost
         \/ \E x : x.type = "host_resp" /\ x.req = dev.request /\ toHost' = Append(toHost, x)
  BY Served
<1>4. PICK u : u = toHost'
  OBVIOUS
<1>5. CASE u = toHost
  <2>1. \A G : None \in G /\ LinkOf(handler, tx, toDev, toHost, dev.request, G)
                 => LinkOf(handler, tx, toDev, u, None, G)
    BY <1>5 DEF LinkOf
  <2>2. Accounted => Fits(handler, tx, toDev, u, None, 1 + count.faults)
    BY <1>1, <1>2, <1>5 DEF Accounted, Fits, Weight, One
  <2> QED BY <1>1, <1>3, <1>4, <2>1, <2>2 DEF StepStays, Accounted
<1>6. ASSUME NEW x, x.type = "host_resp", x.req = dev.request, u = Append(toHost, x)
      PROVE  StepStays
  <2>1. Elems(u) = Elems(toHost) \cup {x} /\ Len(u) = Len(toHost) + 1
    BY <1>2, <1>6, AppendElems, AppendSeq
  <2>2. HasAccess(handler, tx, toDev, u) <=> HasAccess(handler, tx, toDev, toHost)
    <3>1. Has(u, "cpu_req") <=> Has(toHost, "cpu_req")
      BY <1>2, <1>6, AppendHas
    <3> QED BY <3>1 DEF HasAccess
  <2>3. \A G : None \in G /\ LinkOf(handler, tx, toDev, toHost, dev.request, G)
                 => LinkOf(handler, tx, toDev, u, None, G)
    BY <1>6, <2>1 DEF LinkOf
  <2>4. Accounted => Fits(handler, tx, toDev, u, None, 1 + count.faults)
    BY <1>1, <1>2, <2>1, <2>2 DEF Accounted, Fits, Weight, One
  <2> QED BY <1>1, <1>3, <1>4, <2>3, <2>4 DEF StepStays, Accounted
<1> QED BY <1>3, <1>4, <1>5, <1>6

\* Every step but the commands, which bring new requests to the link.
LEMMA LinkStays ==
  ASSUME IInv, IInv', [Next]_vars, ~Command
  PROVE  StepStays
<1>1. LinkInv /\ LinkInv' /\ DOMAIN count = {"ids", "commands", "faults", "botched", "cpu"} /\ count.faults \in Nat
  BY DEF IInv, LinkInv, Shaped
<1>2. CASE UNCHANGED vars
  BY <1>1, <1>2, SameStays DEF vars, link
<1>3. CASE Client
  BY <1>1, <1>3, ClientFrame, SameStays
<1>4. CASE NoCommand \/ SimTimeOut \/ NoTimeOut \/ SimNoResponse \/ SimulationError
  <2>1. UNCHANGED <<handler, tx, toDev, toHost, dev>>
    BY <1>4 DEF NoCommand, SimTimeOut, NoTimeOut, SimNoResponse, SimulationError, link
  <2>2. UNCHANGED count \/ count' = [count EXCEPT !.faults = @ + 1]
    BY <1>4 DEF NoCommand, SimTimeOut, NoTimeOut, SimNoResponse, SimulationError, Fault
  <2> QED BY <1>1, <2>1, <2>2, SameStays
<1>5. CASE FpgaTimeOut \/ RxPacket \/ TxPackets \/ SimLink
  BY <1>1, <1>5, FpgaTimeOutStays, RxPacketStays, TxPacketsStays, SimLinkStays
<1>6. CASE Response \/ FpgaCpu \/ Settle \/ PortError("error") \/ PortError("fatal")
  BY <1>1, <1>6, ResponseStays, FpgaCpuStays, SettleStays, PortErrorStays
<1>7. CASE CpuIssue \/ DevTake \/ DevServe
  BY <1>1, <1>7, CpuIssueStays, DevTakeStays, DevServeStays
<1> QED BY <1>2, <1>3, <1>4, <1>5, <1>6, <1>7 DEF Next, Thread, Failure

\* A command brings its request, or a reset with a new number (handle_command,
\* handle_reset_command).
LEMMA CommandStays ==
  ASSUME IInv, Command, NEW G, None \in G, LinkOf(handler, tx, toDev, toHost, dev.request, G),
         \A c \in Elems(commands) :
           c.req \in G /\ (c.type = "reset" /\ count'.ids = count.ids + 1
                             => [c.req EXCEPT !.id = count.ids + 1] \in G)
  PROVE  /\ LinkOf(handler', tx', toDev', toHost', dev'.request, G)
         /\ Accounted => Accounted'
<1>1. /\ LinkInv /\ IsHandler(handler) /\ IsSeq(tx) /\ IsSeq(toDev) /\ IsSeq(toHost) /\ count.faults \in Nat
      /\ Len(tx) \in Nat /\ Len(toDev) \in Nat /\ Len(toHost) \in Nat
      /\ DOMAIN count = {"ids", "commands", "faults", "botched", "cpu"}
  BY DEF IInv, LinkInv, Shaped, FromTarget, IsSeq
<1>2. count'.faults = count.faults
  BY <1>1, CommandCount
<1>3. PICK c : c = Head(commands)
  OBVIOUS
<1>4. /\ c.req \in G
      /\ c.type = "reset" /\ count'.ids = count.ids + 1 => [c.req EXCEPT !.id = count.ids + 1] \in G
  <2>1. IsSeq(commands) /\ commands # << >>
    BY DEF IInv, CommandsInv, Command
  <2>2. c \in Elems(commands)
    BY <1>3, <2>1, TailElems
  <2> QED BY <2>2
<1>5. CASE UNCHANGED <<handler, tx, toDev, toHost, dev>>
  BY <1>2, <1>5 DEF Accounted
<1>6. ASSUME NEW r \in G, handler.outgoing_request = None, handler' = SendRequest(handler, r),
             UNCHANGED <<tx, toDev, toHost, dev>>
      PROVE  /\ LinkOf(handler', tx', toDev', toHost', dev'.request, G)
             /\ Accounted => Accounted'
  <2>1. PICK g : g = SendRequest(handler, r)
    OBVIOUS
  <2>2. /\ g.outgoing_request = r /\ g.tx_started = handler.tx_started
        /\ g.outgoing_response = handler.outgoing_response
        /\ g.incoming_request = handler.incoming_request /\ g.accepted_request = handler.accepted_request
    BY <1>1, <2>1 DEF SendRequest, IsHandler
  <2>3. LinkOf(g, tx, toDev, toHost, dev.request, G)
    BY <1>6, <2>2 DEF LinkOf
  <2>4. HasAccess(g, tx, toDev, toHost) <=> HasAccess(handler, tx, toDev, toHost)
    BY <2>2 DEF HasAccess
  <2>5. Accounted => Fits(g, tx, toDev, toHost, dev.request, 1 + count.faults)
    BY <1>1, <1>6, <2>2, <2>4 DEF Accounted, Fits, Weight, One
  <2> QED BY <1>2, <1>6, <2>1, <2>3, <2>5 DEF Accounted
<1>7. CASE c.type = "send" /\ (LocalCommand(c.req) \/ RtlCommand(c.req) \/ SimCommand(c.req))
           /\ UNCHANGED <<link, dev>>
  <2>1. UNCHANGED <<tx, toDev, toHost, dev>>
    BY <1>7 DEF link
  <2>2. \/ UNCHANGED handler
        \/ handler.outgoing_request = None /\ handler' = SendRequest(handler, c.req)
    BY <1>7 DEF LocalCommand, RtlCommand, SimCommand, Sendable
  <2> QED BY <1>4, <1>5, <1>6, <2>1, <2>2
<1>8. CASE c.type = "reset" /\ FpgaReset(c.req)
  <2>1. PICK r : r = [c.req EXCEPT !.id = count.ids + 1]
    OBVIOUS
  <2>2. UNCHANGED <<tx, toDev, toHost, dev>>
    BY <1>8 DEF FpgaReset, link
  <2>3. \/ UNCHANGED handler
        \/ handler.outgoing_request = None /\ handler' = SendRequest(handler, r)
    BY <1>8, <2>1 DEF FpgaReset, Sendable
  <2>4. count'.ids = count.ids + 1
    BY <1>1, <1>8 DEF FpgaReset
  <2> QED BY <1>4, <1>5, <1>6, <1>8, <2>1, <2>2, <2>3, <2>4
<1>9. CASE SimReset
  <2>1. /\ handler' = NewHandler /\ tx' = << >> /\ toDev' = << >> /\ toHost' = << >>
        /\ dev' = Booting /\ UNCHANGED count
    BY <1>9 DEF SimReset
  <2>2. dev'.request = None
    BY <2>1 DEF Booting
  <2>3. /\ NewHandler.outgoing_request = None /\ NewHandler.outgoing_response.req = None
    BY DEF NewHandler, NoResponse
  <2>4. LinkOf(handler', tx', toDev', toHost', dev'.request, G)
    BY <2>1, <2>2, <2>3, EmptyElems DEF LinkOf
  <2>5. Accounted'
    BY <1>1, <1>2, <2>1, <2>2, ClearAccounted
  <2> QED BY <2>4, <2>5
<1>10. CASE UNCHANGED <<handler, link, dev>>
  BY <1>5, <1>10 DEF link
<1> QED BY <1>3, <1>7, <1>8, <1>9, <1>10 DEF Command

(***************************************************************************)
(* Requests. Those that the host can have made have a number it has given, *)
(* a size and a length that a burst can have, and a place on one of the    *)
(* two sides; what they write, but to RESET, is the number of a command.   *)
(***************************************************************************)
Requests(ids, top) ==
  {r \in [id : 0 .. ids, write : BOOLEAN, addr : 0 .. ADDR_END - 1, size : {0, 1, 2, 4},
          beats : 0 .. MAX_BURST_BEATS, value : Nat] :
     /\ Route(r) # "invalid"
     /\ r # None => r.size # 0 /\ r.beats # 0
     /\ r.addr # RESET => r.value <= top}

Known == Requests(count.ids, budget.commands)

LEMMA Placed ==
  ASSUME NEW r, EndAddr(r) \in Int, Route(r) # "invalid"
  PROVE  EndAddr(r) < ADDR_END
<1>1. ASSUME EndAddr(r) >= ADDR_END PROVE FALSE
  <2>1. Route(r) = "invalid"
    BY <1>1, RegionAssumption DEF Route
  <2> QED BY <2>1
<1> QED BY <1>1, RegionAssumption

\* The bytes of a request are addresses (request_end_addr).
LEMMA RequestBytes ==
  ASSUME NEW ids \in Nat, NEW top \in Nat, NEW r \in Requests(ids, top)
  PROVE  /\ r.id \in 0 .. ids /\ r.write \in BOOLEAN /\ r.size \in {0, 1, 2, 4} /\ r.addr \in Nat
         /\ r.beats \in 0 .. MAX_BURST_BEATS /\ r.value \in Nat /\ EndAddr(r) \in Int
         /\ EndAddr(r) < ADDR_END /\ Bytes(r) \subseteq -1 .. ADDR_END - 1
<1>1. /\ r.id \in 0 .. ids /\ r.write \in BOOLEAN /\ r.size \in {0, 1, 2, 4}
      /\ r.addr \in Nat /\ r.beats \in 0 .. MAX_BURST_BEATS /\ r.value \in Nat /\ Route(r) # "invalid"
  BY RegionAssumption DEF Requests
<1>2. r.beats \in Nat /\ r.size \in Nat /\ r.size * r.beats \in Int
  BY <1>1, RegionAssumption
<1>3. EndAddr(r) \in Int
  BY <1>1, <1>2 DEF EndAddr
<1>4. EndAddr(r) < ADDR_END
  BY <1>1, <1>3, Placed
<1>5. Bytes(r) \subseteq -1 .. ADDR_END - 1
  BY <1>1, <1>3, <1>4, RegionAssumption DEF Bytes
<1> QED BY <1>1, <1>3, <1>4, <1>5

LEMMA NoneRequest == ASSUME NEW ids \in Nat, NEW top \in Nat PROVE None \in Requests(ids, top)
<1>1. /\ None.id = 0 /\ None.write = FALSE /\ None.addr = 0 /\ None.size = 0 /\ None.beats = 0 /\ None.value = 0
      /\ None \in [id : 0 .. ids, write : BOOLEAN, addr : 0 .. ADDR_END - 1, size : {0, 1, 2, 4},
                   beats : 0 .. MAX_BURST_BEATS, value : Nat]
  BY RegionAssumption DEF None, Request
<1>2. EndAddr(None) = -1
  BY <1>1 DEF EndAddr
<1>3. Route(None) # "invalid"
  BY <1>1, <1>2, RegionAssumption DEF Route
<1> QED BY <1>1, <1>3 DEF Requests, RESET

LEMMA MoreRequests ==
  ASSUME NEW i \in Nat, NEW j \in Nat, i <= j, NEW top
  PROVE  Requests(i, top) \subseteq Requests(j, top)
BY DEF Requests

\* A chunk is a burst that lies in what remains (write_memory_region).
LEMMA ChunkShape ==
  ASSUME NEW a \in Int, NEW n \in Int
  PROVE  /\ Chunk(a, n).size \in {1, 2, 4} /\ Chunk(a, n).beats \in 1 .. MAX_BURST_BEATS
         /\ 0 < n => Chunk(a, n).size * Chunk(a, n).beats <= n
<1>1. MAX_BURST_BEATS \in Nat \ {0}
  BY RegionAssumption
<1>2. CASE n >= 4 /\ a % 4 = 0
  <2>1. n \div 4 \in Nat /\ n \div 4 >= 1 /\ 4 * (n \div 4) <= n
    BY <1>2
  <2>2. /\ Chunk(a, n).size = 4
        /\ Chunk(a, n).beats = IF n \div 4 < MAX_BURST_BEATS THEN n \div 4 ELSE MAX_BURST_BEATS
    BY <1>2 DEF Chunk
  <2> QED BY <1>1, <2>1, <2>2
<1>3. CASE ~(n >= 4 /\ a % 4 = 0)
  <2>1. /\ Chunk(a, n).size = (IF n >= 2 /\ a % 2 = 0 THEN 2 ELSE 1)
        /\ Chunk(a, n).beats = 1
    BY <1>3 DEF Chunk
  <2> QED BY <1>1, <2>1
<1> QED BY <1>2, <1>3

\* The parts of what a call sends.
LEMMA RequestParts ==
  ASSUME NEW call \in PlainCalls \cup RegionCalls, call # "drop",
         NEW region \in REGIONS \cup {NoRegion}, call \in RegionCalls => region \in REGIONS,
         NEW offset \in Nat, offset < CallLength(call, region), NEW id, NEW value \in Nat
  PROVE  \E write \in BOOLEAN, addr \in Nat, size \in {1, 2, 4}, beats \in 1 .. MAX_BURST_BEATS,
            v \in {0, value, RESET_CPU, RESET_SYSTEM} :
           /\ RequestAt(call, region, offset, id, value) = Request(id, write, addr, size, beats, v)
           /\ addr # RESET => v \in {0, value}
<1>1. /\ region.addr \in Int /\ region.len \in Int
      /\ region \in REGIONS => region.addr >= 12 /\ region.len >= 1
  BY Regions
<1>2. PICK addr, c : addr = region.addr + offset /\ c = Chunk(addr, region.len - offset)
  OBVIOUS
<1>3. /\ c.size \in {1, 2, 4} /\ c.beats \in 1 .. MAX_BURST_BEATS
      /\ AlignedSize(region) \in {1, 2, 4} /\ 1 \in 1 .. MAX_BURST_BEATS
  BY <1>1, <1>2, ChunkShape, RegionAssumption DEF AlignedSize
<1>4. call \in RegionCalls => addr \in Nat /\ region.addr \in Nat
  BY <1>1, <1>2
<1>5. CASE call = "write_region"
  <2>1. RequestAt(call, region, offset, id, value) = Request(id, TRUE, addr, c.size, c.beats, value)
    BY <1>2, <1>5, Zenon DEF RequestAt
  <2> QED BY <1>3, <1>4, <1>5, <2>1 DEF RegionCalls
<1>6. CASE call = "read_region"
  <2>1. RequestAt(call, region, offset, id, value) = Request(id, FALSE, addr, c.size, c.beats, 0)
    BY <1>2, <1>6 DEF RequestAt
  <2> QED BY <1>3, <1>4, <1>6, <2>1 DEF RegionCalls
<1>7. CASE call = "boot_cpu"
  <2>1. offset = 0 \/ offset = 1
    BY <1>7 DEF CallLength
  <2>2. CASE offset = 0
    <3>1. RequestAt(call, region, offset, id, value) = Request(id, FALSE, STATUS, 4, 1, 0)
      BY <1>7, <2>2 DEF RequestAt
    <3> QED BY <1>3, <3>1 DEF STATUS
  <2>3. CASE offset = 1
    <3>1. RequestAt(call, region, offset, id, value) = Request(id, TRUE, BOOT, 4, 1, value)
      BY <1>7, <2>3 DEF RequestAt
    <3> QED BY <1>3, <3>1 DEF BOOT
  <2> QED BY <2>1, <2>2, <2>3
<1>8. CASE call = "reset_cpu"
  <2>1. RequestAt(call, region, offset, id, value) = Request(id, TRUE, RESET, 4, 1, RESET_CPU)
    BY <1>8 DEF RequestAt
  <2> QED BY <1>3, <2>1 DEF RESET
<1>9. CASE call = "reset_system"
  <2>1. RequestAt(call, region, offset, id, value) = Request(id, TRUE, RESET, 4, 1, RESET_SYSTEM)
    BY <1>9 DEF RequestAt
  <2> QED BY <1>3, <2>1 DEF RESET
<1>10. CASE call = "send_read"
  <2>1. RequestAt(call, region, offset, id, value) = Request(id, FALSE, region.addr, AlignedSize(region), 1, 0)
    BY <1>10 DEF RequestAt
  <2> QED BY <1>3, <1>4, <1>10, <2>1 DEF RegionCalls
<1>11. CASE call = "send_write"
  <2>1. RequestAt(call, region, offset, id, value) = Request(id, TRUE, region.addr, AlignedSize(region), 1, value)
    BY <1>11 DEF RequestAt
  <2> QED BY <1>3, <1>4, <1>11, <2>1 DEF RegionCalls
<1> QED BY <1>5, <1>6, <1>7, <1>8, <1>9, <1>10, <1>11 DEF PlainCalls, RegionCalls

\* A request of these parts is one that the host can have made, if it has a place.
LEMMA RequestMade ==
  ASSUME NEW ids \in Nat, NEW top \in Nat, NEW id \in 0 .. ids, NEW write \in BOOLEAN, NEW addr \in Nat,
         NEW size \in {1, 2, 4}, NEW beats \in 1 .. MAX_BURST_BEATS, NEW value \in Nat,
         addr # RESET => value <= top, NEW r, r = Request(id, write, addr, size, beats, value),
         Route(r) # "invalid"
  PROVE  r \in Requests(ids, top) /\ r # None
<1>1. /\ r.id = id /\ r.write = write /\ r.addr = addr /\ r.size = size /\ r.beats = beats /\ r.value = value
      /\ DOMAIN r = {"id", "write", "addr", "size", "beats", "value"}
  BY DEF Request
<1>2. r # None
  BY <1>1 DEF None, Request
<1>3. EndAddr(r) = addr + size * beats - 1 /\ EndAddr(r) < ADDR_END /\ size * beats >= 1 /\ size * beats \in Int
  <2>1. EndAddr(r) = addr + size * beats - 1
    BY <1>1 DEF EndAddr
  <2>2. size * beats >= 1 /\ size * beats \in Int
    BY RegionAssumption
  <2> QED BY <2>1, <2>2, Placed
<1>4. addr \in 0 .. ADDR_END - 1
  BY <1>3, RegionAssumption
<1>5. r \in [id : 0 .. ids, write : BOOLEAN, addr : 0 .. ADDR_END - 1, size : {0, 1, 2, 4},
             beats : 0 .. MAX_BURST_BEATS, value : Nat]
  BY <1>4, RegionAssumption DEF Request
<1> QED BY <1>1, <1>2, <1>5, RegionAssumption DEF Requests

\* A reset lies on the target, whatever its number.
LEMMA ResetMade ==
  ASSUME NEW ids \in Nat, NEW top \in Nat, NEW r, ResetRequest(r), r.id \in 0 .. ids
  PROVE  r \in Requests(ids, top) /\ r # None
<1>1. /\ r = Request(r.id, TRUE, RESET, 4, 1, r.value) /\ r.value \in {RESET_CPU, RESET_SYSTEM}
  BY DEF ResetRequest
<1>2. Route(r) # "invalid"
  BY ResetSendable
<1>3. 1 \in 1 .. MAX_BURST_BEATS
  BY RegionAssumption
<1>4. PICK write \in BOOLEAN, value \in Nat, id \in 0 .. ids :
        write = TRUE /\ value = r.value /\ id = r.id
  BY <1>1 DEF RESET_CPU, RESET_SYSTEM
<1>5. r = Request(id, write, RESET, 4, 1, value)
  BY <1>1, <1>4, Zenon
<1>6. RESET \in Nat
  BY DEF RESET
<1> QED BY <1>2, <1>3, <1>5, <1>6, RequestMade

\* The request that the client is about to send, if it has a place.
LEMMA NextMade ==
  ASSUME ClientInv, main.at = "next", Call # "drop", count.ids \in Nat, count.commands \in Nat,
         NEW top \in Nat, count.commands <= top, Route(NextRequest) # "invalid"
  PROVE  /\ NextRequest \in Requests(count.ids + 1, top) /\ NextRequest # None
         /\ NextRequest.id = count.ids + 1
<1>1. main.cmd \notin Connecting
  BY DEF ClientInv, Active
<1>2. /\ Call \in PlainCalls \cup RegionCalls
      /\ Call \in RegionCalls => main.region \in REGIONS
  BY <1>1, CallKnown DEF Active
<1>3. /\ main.region \in REGIONS \cup {NoRegion} /\ main.offset \in Nat
      /\ main.offset < CallLength(Call, main.region)
  BY DEF ClientInv
<1>4. PICK r : r = RequestAt(Call, main.region, main.offset, count.ids + 1, count.commands)
  OBVIOUS
<1>5. PICK write \in BOOLEAN, addr \in Nat, size \in {1, 2, 4}, beats \in 1 .. MAX_BURST_BEATS,
           v \in {0, count.commands, RESET_CPU, RESET_SYSTEM} :
             /\ r = Request(count.ids + 1, write, addr, size, beats, v)
             /\ addr # RESET => v \in {0, count.commands}
  BY <1>2, <1>3, <1>4, RequestParts
<1>6. v \in Nat /\ (addr # RESET => v <= top) /\ count.ids + 1 \in Nat /\ count.ids + 1 \in 0 .. count.ids + 1
  BY <1>5 DEF RESET_CPU, RESET_SYSTEM
<1>7. r \in Requests(count.ids + 1, top) /\ r # None
  BY <1>4, <1>5, <1>6, RequestMade DEF NextRequest
<1>8. r.id = count.ids + 1
  BY <1>5 DEF Request
<1> QED BY <1>4, <1>7, <1>8 DEF NextRequest

(***************************************************************************)
(* The steps of the client: every step starts a command, ends one, or goes *)
(* on with it.                                                             *)
(***************************************************************************)
Starts == \E cmd \in COMMANDS : \E region \in IF Regional(cmd) THEN REGIONS ELSE {NoRegion} : Start(cmd, region)

Ends(at, results) == main.at \in at /\ \E result \in results : main' = Finish(result)
Fails == main.at = "wait_reset" /\ main' = Failed
Advances == main.at \in {"poll", "wait_reset", "drain"} /\ \E data : main' = Advance(data)
Asks(at) == /\ main.at = "next" /\ Call # "drop"
            /\ main' = [main EXCEPT !.at = at, !.req = NextRequest]
Goes(from, at) == main.at \in from /\ main' = [main EXCEPT !.at = at]
Leaves == main.at = "join" /\ main' = [Finish("done") EXCEPT !.at = "gone"]

LEMMA MainSteps ==
  ASSUME [Next]_vars
  PROVE  \/ Starts \/ UNCHANGED main
         \/ Ends({"next", "enqueue", "poll"}, {"refused", "failed", "done"}) \/ Fails \/ Advances
         \/ Asks("enqueue") /\ Arm
         \/ Asks("wait_reset") /\ AskReset
         \/ Goes({"enqueue"}, "poll") \/ Goes({"idle", "next"}, "join") \/ Goes({"wait_reset"}, "drain")
         \/ Leaves
<1>1. CASE Client
  <2>1. CASE Starts
    BY <2>1
  <2>2. CASE Arm
    BY <2>2 DEF Arm, Ends, Asks
  <2>3. CASE Enqueue
    BY <2>3 DEF Enqueue, Ends, Goes
  <2>4. CASE AskReset
    <3>1. Call # "drop"
      BY <2>4 DEF AskReset, ByCommand
    <3> QED BY <2>4, <3>1 DEF AskReset, Ends, Asks
  <2>5. CASE Poll
    BY <2>5 DEF Poll, Ends, Advances
  <2>6. CASE IdlePoll \/ Disconnect
    BY <2>6 DEF IdlePoll, Disconnect, Goes
  <2>7. CASE Join \/ GiveUpReset
    BY <2>7 DEF Join, GiveUpReset, Leaves, Fails
  <2>8. CASE Drain
    BY <2>8 DEF Drain, Advances
  <2> QED BY <1>1, <2>1, <2>2, <2>3, <2>4, <2>5, <2>6, <2>7, <2>8 DEF Client, Starts
<1>2. CASE Thread \/ Failure \/ CpuIssue \/ DevTake \/ DevServe
  <2>1. UNCHANGED main \/ Reported
    BY <1>2, ThreadFrame
  <2> QED BY <2>1, ReportFields DEF Fails, Advances, Goes
<1>3. CASE UNCHANGED vars
  BY <1>3 DEF vars, client
<1> QED BY <1>1, <1>2, <1>3 DEF Next

\* The start of a command.
LEMMA StartFields ==
  ASSUME Starts
  PROVE  /\ main.at = "idle" /\ DOMAIN main' = DOMAIN Idle
         /\ \/ main'.at = "idle" /\ main'.result = "refused"
            \/ main'.at = "next" /\ main'.result = "none"
         /\ main'.cmd \in COMMANDS /\ main'.call = 1 /\ main'.offset = 0 /\ main'.data = << >>
         /\ main'.req = None /\ (main'.fresh <=> events = << >>)
         /\ main'.region \in IF Regional(main'.cmd) THEN REGIONS ELSE {NoRegion}
         /\ count.commands < budget.commands /\ count' = [count EXCEPT !.commands = @ + 1]
         /\ UNCHANGED <<fixed, commands, pending, events, bg, handler, direct, link, dev, mem>>
<1>1. PICK cmd \in COMMANDS : \E region \in IF Regional(cmd) THEN REGIONS ELSE {NoRegion} : Start(cmd, region)
  BY DEF Starts
<1>2. PICK region \in IF Regional(cmd) THEN REGIONS ELSE {NoRegion} : Start(cmd, region)
  BY <1>1
<1>3. PICK m : m = [Idle EXCEPT !.cmd = cmd, !.region = region, !.fresh = events = << >>]
  OBVIOUS
<1>4. /\ DOMAIN m = DOMAIN Idle
      /\ m.at = "idle" /\ m.cmd = cmd /\ m.call = 1 /\ m.offset = 0 /\ m.region = region /\ m.req = None
      /\ m.data = << >> /\ m.result = "none" /\ (m.fresh <=> events = << >>)
      /\ DOMAIN Idle = {"at", "cmd", "call", "offset", "data", "req", "region", "result", "fresh"}
  BY <1>3 DEF Idle
<1>5. main' \in {[m EXCEPT !.result = "refused"], [m EXCEPT !.at = "next"]}
  BY <1>2, <1>3 DEF Start
<1>6. /\ DOMAIN main' = DOMAIN Idle
      /\ \/ main'.at = "idle" /\ main'.result = "refused"
         \/ main'.at = "next" /\ main'.result = "none"
      /\ main'.cmd = cmd /\ main'.call = 1 /\ main'.offset = 0 /\ main'.data = << >>
      /\ main'.req = None /\ (main'.fresh <=> events = << >>) /\ main'.region = region
  BY <1>4, <1>5
<1> QED BY <1>2, <1>6 DEF Start

\* The places and results of the client, and what its command keeps.
LEMMA MainKept ==
  ASSUME ClientInv, [Next]_vars, main.at \in Places, main.result \in Results, ~Starts
  PROVE  /\ main'.at \in Places /\ main'.result \in Results /\ (Active' => Active)
         /\ main'.cmd = main.cmd /\ main'.region = main.region /\ main'.fresh = main.fresh
         /\ DOMAIN main' = DOMAIN main
         /\ main'.req \in {main.req, None} \/ (Asks("enqueue") /\ Arm) \/ (Asks("wait_reset") /\ AskReset)
<1>1. DOMAIN main = {"at", "cmd", "call", "offset", "data", "req", "region", "result", "fresh"}
  BY DEF ClientInv
<1>2. CASE UNCHANGED main
  BY <1>2 DEF Active
<1>3. CASE Ends({"next", "enqueue", "poll"}, {"refused", "failed", "done"}) \/ Leaves
  <2>1. CASE Leaves
    <3>1. PICK f : f = Finish("done")
      OBVIOUS
    <3>2. /\ DOMAIN f = DOMAIN main /\ f.req = None /\ f.result = "done" /\ f.cmd = main.cmd
          /\ f.region = main.region /\ f.fresh = main.fresh
      BY <3>1, FinishFields
    <3>3. main' = [f EXCEPT !.at = "gone"]
      BY <2>1, <3>1 DEF Leaves
    <3>4. /\ DOMAIN main' = DOMAIN main /\ main'.at = "gone" /\ main'.req = None /\ main'.result = "done"
          /\ main'.cmd = main.cmd /\ main'.region = main.region /\ main'.fresh = main.fresh
      BY <1>1, <3>2, <3>3
    <3> QED BY <3>4 DEF Places, Results, Active
  <2>2. CASE Ends({"next", "enqueue", "poll"}, {"refused", "failed", "done"})
    BY <2>2, FinishFields DEF Ends, Places, Results, Active
  <2> QED BY <1>3, <2>1, <2>2
<1>4. CASE Fails
  BY <1>4, FailedFields DEF Fails, Places, Results, Active
<1>5. CASE Advances
  <2>1. PICK data : main' = Advance(data)
    BY <1>5 DEF Advances
  <2>2. Outcome(ReadSoFar(data)) \in Results
    BY DEF Outcome, Results
  <2> QED BY <1>5, <2>1, <2>2, AdvanceFields DEF Advances, Places, Results, Active
<1>6. CASE (Asks("enqueue") /\ Arm) \/ (Asks("wait_reset") /\ AskReset)
  <2>1. /\ DOMAIN main' = DOMAIN main /\ main'.at \in {"enqueue", "wait_reset"} /\ main'.cmd = main.cmd
        /\ main'.region = main.region /\ main'.fresh = main.fresh /\ main'.result = main.result
        /\ main.at = "next"
    BY <1>1, <1>6 DEF Asks
  <2> QED BY <1>6, <2>1 DEF Places, Active
<1>7. CASE Goes({"enqueue"}, "poll") \/ Goes({"idle", "next"}, "join") \/ Goes({"wait_reset"}, "drain")
  <2>1. /\ DOMAIN main' = DOMAIN main /\ main'.cmd = main.cmd /\ main'.req = main.req
        /\ main'.region = main.region /\ main'.fresh = main.fresh /\ main'.result = main.result
        /\ \/ main.at \in {"enqueue", "wait_reset"} /\ main'.at \in {"poll", "drain"}
           \/ main'.at = "join"
    BY <1>1, <1>7 DEF Goes
  <2> QED BY <2>1 DEF Places, Active
<1> QED BY <1>2, <1>3, <1>4, <1>5, <1>6, <1>7, MainSteps

(***************************************************************************)
(* Every part of the runtime holds requests that the host can have made,   *)
(* and the packets of the link are accounted for.                          *)
(***************************************************************************)
Counts ==
  /\ main.at \in Places /\ main.result \in Results /\ budget \in BUDGETS
  /\ count.ids \in Nat /\ count.commands \in Nat
  /\ Active /\ main.cmd \notin Connecting => count.commands <= budget.commands

RequestsInv ==
  /\ Counts
  /\ main.req \in Known /\ pending \in Known /\ direct.req \in Known
  /\ \A c \in Elems(commands) : c.req \in Known
  /\ LinkOf(handler, tx, toDev, toHost, dev.request, Known)
  /\ ~count.botched => Accounted
  /\ mem \in [Memory -> 0 .. budget.commands]

LEMMA BudgetKnown ==
  ASSUME RequestsInv
  PROVE  count.ids \in Nat /\ budget.commands \in Nat /\ None \in Known
<1>1. budget.commands \in Nat /\ count.ids \in Nat
  BY RuntimeAssumption DEF RequestsInv, Counts
<1> QED BY <1>1, NoneRequest DEF Known

LEMMA CountsStep ==
  ASSUME IInv, RequestsInv, [Next]_vars
  PROVE  /\ Counts' /\ UNCHANGED budget /\ count'.ids >= count.ids /\ Known \subseteq Known'
         /\ None \in Known'
<1>1. ClientInv /\ Counts /\ DOMAIN count = {"ids", "commands", "faults", "botched", "cpu"}
  BY DEF IInv, LinkInv, Shaped, RequestsInv
<1>2. UNCHANGED budget
  <2>1. CASE Client
    BY <2>1 DEF Client, Start, Arm, Enqueue, AskReset, Poll, IdlePoll, Disconnect, Join, Drain, GiveUpReset, fixed
  <2> QED BY <2>1, ThreadFrame DEF Next, vars, fixed
<1>3. count'.ids \in Nat /\ count'.ids >= count.ids
  BY <1>1, Counted DEF Counts
<1>4. Known \subseteq Known' /\ None \in Known'
  BY <1>2, <1>3, MoreRequests, BudgetKnown DEF Known, Counts, RequestsInv
<1>5. CASE Starts
  <2>1. /\ main'.at \in Places /\ main'.result \in Results /\ count.commands < budget.commands
        /\ count' = [count EXCEPT !.commands = @ + 1]
    BY <1>5, StartFields DEF Places, Results
  <2>2. count'.commands \in Nat /\ count'.commands <= budget.commands
    BY <1>1, <2>1, BudgetKnown DEF Counts
  <2> QED BY <1>1, <1>2, <1>3, <1>4, <2>1, <2>2 DEF Counts
<1>6. CASE ~Starts
  <2>1. /\ main'.at \in Places /\ main'.result \in Results /\ (Active' => Active) /\ main'.cmd = main.cmd
    BY <1>1, <1>6, MainKept DEF Counts
  <2>2. count'.commands = count.commands
    <3>1. CASE ~Client
      BY <1>1, <3>1, Counted DEF Counts
    <3>2. CASE Client
      <4>1. UNCHANGED count \/ count' = [count EXCEPT !.ids = @ + 1]
        BY <1>6, <3>2 DEF Client, Starts, Arm, Enqueue, AskReset, Poll, IdlePoll, Disconnect, Join, Drain, GiveUpReset
      <4> QED BY <1>1, <4>1
    <3> QED BY <3>1, <3>2
  <2> QED BY <1>1, <1>2, <1>3, <1>4, <2>1, <2>2 DEF Counts
<1> QED BY <1>5, <1>6

\* What the client asks for.
LEMMA ClientRequests ==
  ASSUME IInv, RequestsInv, Client
  PROVE  /\ main'.req \in Known' /\ pending' \in Known'
         /\ \A c \in Elems(commands') : c.req \in Known'
<1>1. /\ ClientInv /\ IsSeq(commands) /\ DOMAIN count = {"ids", "commands", "faults", "botched", "cpu"}
      /\ DOMAIN main = {"at", "cmd", "call", "offset", "data", "req", "region", "result", "fresh"}
  BY DEF IInv, ClientInv, CommandsInv, LinkInv, Shaped
<1>2. /\ Known \subseteq Known' /\ None \in Known' /\ count.ids \in Nat /\ budget.commands \in Nat
      /\ main.req \in Known' /\ pending \in Known' /\ \A c \in Elems(commands) : c.req \in Known'
      /\ UNCHANGED budget
  BY CountsStep, BudgetKnown DEF Next, RequestsInv
<1>3. ASSUME NEW c, c.req \in Known', commands' = Append(commands, c)
      PROVE  \A x \in Elems(commands') : x.req \in Known'
  <2>1. Elems(Append(commands, c)) = Elems(commands) \cup {c}
    BY <1>1, AppendElems
  <2> QED BY <1>2, <1>3, <2>1
<1>4. CASE Starts
  BY <1>2, <1>4, StartFields
<1>5. CASE Arm
  <2>1. CASE main' = Finish("refused") /\ UNCHANGED pending
    BY <1>1, <1>2, <1>5, <2>1, FinishFields DEF Arm
  <2>2. CASE /\ Route(NextRequest) # "invalid" /\ pending' = NextRequest
             /\ main' = [main EXCEPT !.at = "enqueue", !.req = NextRequest]
             /\ count' = [count EXCEPT !.ids = @ + 1]
    <3>1. /\ main.at = "next" /\ Call # "drop" /\ UNCHANGED commands
      BY <1>5 DEF Arm
    <3>2. count.commands \in Nat /\ count.commands <= budget.commands
      <4>1. main.cmd \notin Connecting /\ Active
        BY <1>1, <3>1 DEF ClientInv, Active
      <4> QED BY <4>1 DEF RequestsInv, Counts
    <3>3. NextRequest \in Requests(count.ids + 1, budget.commands)
      BY <1>1, <1>2, <2>2, <3>1, <3>2, NextMade
    <3>4. count'.ids = count.ids + 1 /\ main'.req = NextRequest
      BY <1>1, <2>2
    <3>5. NextRequest \in Known'
      BY <1>2, <3>3, <3>4 DEF Known
    <3> QED BY <1>2, <2>2, <3>1, <3>4, <3>5
  <2> QED BY <1>5, <2>1, <2>2 DEF Arm
<1>6. CASE Enqueue
  <2>1. pending' \in {pending, None} /\ (UNCHANGED commands \/ \E c : c.req = main.req /\ commands' = Append(commands, c))
    BY <1>6 DEF Enqueue
  <2>2. main' \in {Finish("failed"), Finish("done"), [main EXCEPT !.at = "poll"]}
    BY <1>6 DEF Enqueue
  <2>3. main'.req \in {main.req, None}
    BY <1>1, <2>2, FinishFields
  <2> QED BY <1>2, <1>3, <2>1, <2>3
<1>7. CASE AskReset
  <2>1. UNCHANGED pending
    BY <1>7 DEF AskReset
  <2>2. CASE main' \in {Finish("refused"), Finish("failed")} /\ UNCHANGED commands
    BY <1>1, <1>2, <2>1, <2>2, FinishFields
  <2>3. CASE /\ commands' = Append(commands, [type |-> "reset", req |-> NextRequest])
             /\ main' = [main EXCEPT !.at = "wait_reset", !.req = NextRequest]
             /\ count' = [count EXCEPT !.ids = @ + 1]
    <3>1. main.at = "next" /\ ByCommand /\ Call # "drop"
      BY <1>7 DEF AskReset, ByCommand
    <3>2. ResetRequest(NextRequest)
      BY <3>1, ResetKnown
    <3>3. NextRequest.id = count.ids + 1
      BY <3>1, ResetKnown
    <3>4. count'.ids = count.ids + 1 /\ main'.req = NextRequest
      BY <1>1, <2>3
    <3>5. NextRequest \in Known'
      <4>1. count.ids + 1 \in Nat /\ count.ids + 1 \in 0 .. count.ids + 1
        BY <1>2
      <4>2. NextRequest \in Requests(count.ids + 1, budget.commands)
        BY <1>2, <3>2, <3>3, <4>1, ResetMade
      <4> QED BY <1>2, <3>4, <4>2 DEF Known
    <3> QED BY <1>2, <1>3, <2>1, <2>3, <3>4, <3>5
  <2> QED BY <1>7, <2>2, <2>3 DEF AskReset
<1>8. CASE Poll \/ IdlePoll \/ Join \/ Drain \/ GiveUpReset
  <2>1. UNCHANGED <<commands, pending>>
    BY <1>8 DEF Poll, IdlePoll, Join, Drain, GiveUpReset
  <2>2. \/ main' \in {Finish("refused"), Finish("failed"), Failed, main, [main EXCEPT !.at = "join"]}
        \/ main' = [Finish("done") EXCEPT !.at = "gone"]
        \/ \E data : main' = Advance(data)
    BY <1>8 DEF Poll, IdlePoll, Join, Drain, GiveUpReset
  <2>3. CASE main' = [Finish("done") EXCEPT !.at = "gone"]
    <3>1. PICK f : f = Finish("done")
      OBVIOUS
    <3>2. DOMAIN f = DOMAIN main /\ f.req = None
      BY <1>1, <3>1, FinishFields
    <3>3. main'.req = None
      BY <1>1, <2>3, <3>1, <3>2
    <3> QED BY <1>2, <2>1, <3>3
  <2>4. CASE main' \in {main, [main EXCEPT !.at = "join"]}
    <3>1. main'.req = main.req
      BY <1>1, <2>4
    <3> QED BY <1>2, <2>1, <3>1
  <2>5. CASE main' \in {Finish("refused"), Finish("failed"), Failed}
    <3>1. main'.req = None
      BY <1>1, <2>5, FinishFields, FailedFields
    <3> QED BY <1>2, <2>1, <3>1
  <2>6. CASE \E data : main' = Advance(data)
    <3>1. main'.req \in {main.req, None}
      BY <1>1, <2>6, AdvanceFields
    <3> QED BY <1>2, <2>1, <3>1
  <2> QED BY <2>2, <2>3, <2>4, <2>5, <2>6
<1>9. CASE Disconnect
  <2>1. /\ main' = [main EXCEPT !.at = "join"] /\ UNCHANGED pending
        /\ commands' = Append(commands, [type |-> "shutdown", req |-> None])
    BY <1>9 DEF Disconnect
  <2>2. main'.req = main.req
    BY <1>1, <2>1
  <2> QED BY <1>2, <1>3, <2>1, <2>2
<1> QED BY <1>4, <1>5, <1>6, <1>7, <1>8, <1>9 DEF Client, Starts

LEMMA ReportedRequest ==
  ASSUME ClientInv, UNCHANGED main \/ Reported
  PROVE  main'.req \in {main.req, None}
<1>1. CASE main' = [main EXCEPT !.at = "drain"]
  BY <1>1 DEF ClientInv
<1>2. CASE main' = Failed \/ main' = Advance(<< >>)
  BY <1>2, FailedFields, AdvanceFields
<1> QED BY <1>1, <1>2, ReportFields

\* The reset that a command brings gets its number when it is carried out.
LEMMA ResetMadeAnew ==
  ASSUME IInv, RequestsInv, Command, NEW c \in Elems(commands), c.type = "reset", count'.ids = count.ids + 1
  PROVE  [c.req EXCEPT !.id = count.ids + 1] \in Known'
<1>1. ResetRequest(c.req)
  BY DEF IInv, CommandsInv, Sent, Elems
<1>2. PICK r : r = [c.req EXCEPT !.id = count.ids + 1]
  OBVIOUS
<1>3. ResetRequest(r) /\ r.id = count.ids + 1
  BY <1>1, <1>2, Renumbered
<1>4. UNCHANGED budget /\ count.ids \in Nat /\ budget.commands \in Nat
  BY BudgetKnown DEF Command, fixed
<1>5. r.id \in 0 .. count.ids + 1 /\ count.ids + 1 \in Nat
  BY <1>3, <1>4
<1> QED BY <1>2, <1>3, <1>4, <1>5, ResetMade DEF Known

\* What the background thread and the target make of it.
LEMMA ThreadRequests ==
  ASSUME IInv, RequestsInv, [Next]_vars, ~Client
  PROVE  /\ main'.req \in Known' /\ pending' \in Known' /\ direct'.req \in Known'
         /\ \A c \in Elems(commands') : c.req \in Known'
<1>1. ClientInv /\ IsSeq(commands) /\ DOMAIN count = {"ids", "commands", "faults", "botched", "cpu"}
  BY DEF IInv, CommandsInv, LinkInv, Shaped
<1>2. /\ Known \subseteq Known' /\ None \in Known' /\ count.ids \in Nat /\ NoResponse.req = None
      /\ main.req \in Known' /\ pending \in Known' /\ direct.req \in Known'
      /\ \A c \in Elems(commands) : c.req \in Known'
  BY CountsStep, BudgetKnown DEF RequestsInv, NoResponse
<1>3. main'.req \in Known'
  BY <1>1, <1>2, ReportedRequest, ThreadFrame DEF Next, vars, client
<1>4. CASE ~Command
  BY <1>2, <1>3, <1>4, ThreadFrame DEF Next, vars, client
<1>5. CASE Command
  <2>1. PICK c, u : c = Head(commands) /\ u = Tail(commands)
    OBVIOUS
  <2>2. Elems(commands) = Elems(u) \cup {c} /\ commands' = u
    BY <1>1, <1>5, <2>1, TailElems DEF Command
  <2>3. \A x \in Elems(commands') : x.req \in Known'
    BY <1>2, <2>2
  <2>4. CASE c.type = "send" /\ (LocalCommand(c.req) \/ RtlCommand(c.req) \/ SimCommand(c.req))
    <3>1. pending' \in {pending, None} /\ direct' \in {direct, Executed(c.req)}
      BY <2>4 DEF LocalCommand, RtlCommand, SimCommand
    <3>2. Executed(c.req).req = c.req
      BY DEF Executed
    <3> QED BY <1>2, <1>3, <2>2, <2>3, <3>1, <3>2
  <2>5. CASE c.type = "reset" /\ FpgaReset(c.req)
    <3>1. PICK r : r = [c.req EXCEPT !.id = count.ids + 1]
      OBVIOUS
    <3>2. pending' \in {pending, None, r} /\ UNCHANGED direct /\ count'.ids = count.ids + 1
      BY <1>1, <2>5, <3>1 DEF FpgaReset
    <3>3. r \in Known'
      BY <1>5, <2>2, <2>5, <3>1, <3>2, ResetMadeAnew
    <3> QED BY <1>2, <1>3, <2>3, <3>2, <3>3
  <2>6. CASE SimReset \/ UNCHANGED <<pending, direct>>
    <3>1. UNCHANGED pending /\ direct' \in {direct, NoResponse}
      BY <2>6 DEF SimReset
    <3> QED BY <1>2, <1>3, <2>3, <3>1
  <2> QED BY <1>5, <2>1, <2>4, <2>5, <2>6 DEF Command
<1> QED BY <1>4, <1>5

\* Memory holds the numbers of commands.
LEMMA WrittenMemory ==
  ASSUME NEW ids \in Nat, NEW top \in Nat, NEW r \in Requests(ids, top), r.addr # RESET,
         NEW m \in [Memory -> 0 .. top]
  PROVE  Written(m, r) \in [Memory -> 0 .. top]
<1>1. r.value \in 0 .. top
  BY RequestBytes DEF Requests
<1> QED BY <1>1 DEF Written

LEMMA ClearedMemory ==
  ASSUME NEW top \in Nat, NEW m \in [Memory -> 0 .. top]
  PROVE  Cleared(m) \in [Memory -> 0 .. top]
BY DEF Cleared

\* A request for the host's bus is none for a register (classify_request_region).
LEMMA LocalAddress ==
  ASSUME NEW r, Route(r) = "local"
  PROVE  r.addr # RESET
BY RegistersAssumption, RegionAssumption DEF Route, RESET

LEMMA MemoryStep ==
  ASSUME IInv, RequestsInv, [Next]_vars
  PROVE  mem' \in [Memory -> 0 .. budget'.commands]
<1>1. /\ count.ids \in Nat /\ budget.commands \in Nat /\ mem \in [Memory -> 0 .. budget.commands]
      /\ UNCHANGED budget /\ dev.request \in Known /\ \A c \in Elems(commands) : c.req \in Known
  BY BudgetKnown, CountsStep DEF RequestsInv, LinkOf
<1>2. CASE UNCHANGED mem
  BY <1>1, <1>2
<1>3. CASE mem' = Cleared(mem)
  BY <1>1, <1>3, ClearedMemory
<1>4. ASSUME NEW r \in Known, r.addr # RESET, mem' = Written(mem, r)
      PROVE  mem' \in [Memory -> 0 .. budget'.commands]
  BY <1>1, <1>4, WrittenMemory DEF Known
<1>5. CASE Command
  <2>1. PICK c : c = Head(commands)
    OBVIOUS
  <2>2. c.req \in Known
    <3>1. IsSeq(commands) /\ commands # << >>
      BY <1>5 DEF IInv, CommandsInv, Command
    <3>2. c \in Elems(commands)
      BY <2>1, <3>1, TailElems
    <3> QED BY <1>1, <3>2
  <2>3. \/ UNCHANGED mem \/ mem' = Cleared(mem)
        \/ Route(c.req) = "local" /\ mem' = Written(mem, c.req)
    <3>1. CASE LocalCommand(c.req) \/ RtlCommand(c.req)
      BY <3>1 DEF LocalCommand, RtlCommand
    <3>2. CASE SimCommand(c.req)
      <4>1. Route(c.req) # "invalid"
        BY <2>2 DEF Known, Requests
      <4>2. Route(c.req) \in {"invalid", "rtl", "local"}
        BY DEF Route
      <4> QED BY <3>2, <4>1, <4>2 DEF SimCommand
    <3>3. CASE FpgaReset(c.req) \/ SimReset \/ UNCHANGED mem
      BY <3>3 DEF FpgaReset, SimReset
    <3> QED BY <1>5, <2>1, <3>1, <3>2, <3>3 DEF Command
  <2> QED BY <1>2, <1>3, <1>4, <2>2, <2>3, LocalAddress
<1>6. CASE DevServe
  <2>1. UNCHANGED mem \/ (dev.request.addr \in Memory /\ mem' = Written(mem, dev.request))
    BY <1>6 DEF DevServe
  <2>2. RESET \notin Memory
    BY DEF RESET, Memory
  <2> QED BY <1>1, <1>2, <1>4, <2>1, <2>2
<1>7. CASE Settle
  BY <1>3, <1>7 DEF Settle
<1>8. CASE Client
  <2>1. UNCHANGED mem
    BY <1>8 DEF Client, Start, Arm, Enqueue, AskReset, Poll, IdlePoll, Disconnect, Join, Drain, GiveUpReset
  <2> QED BY <1>2, <2>1
<1>9. CASE NoCommand \/ FpgaTimeOut \/ SimTimeOut \/ NoTimeOut \/ RxPacket \/ TxPackets \/ SimLink \/ Response
           \/ FpgaCpu \/ SimNoResponse \/ Failure \/ CpuIssue \/ DevTake \/ UNCHANGED vars
  <2>1. UNCHANGED mem
    BY <1>9 DEF NoCommand, FpgaTimeOut, SimTimeOut, NoTimeOut, RxPacket, TxPackets, SimLink, Response, FpgaCpu,
                SimNoResponse, Failure, PortError, SimulationError, CpuIssue, DevTake, vars
  <2> QED BY <1>2, <2>1
<1> QED BY <1>5, <1>6, <1>7, <1>8, <1>9 DEF Next, Thread

\* A reset of the system that has failed half-way is not made good.
LEMMA BotchedStays ==
  ASSUME IInv, [Next]_vars
  PROVE  count.botched => count'.botched
<1>1. DOMAIN count = {"ids", "commands", "faults", "botched", "cpu"} /\ count.botched \in BOOLEAN
  BY DEF IInv, LinkInv, Shaped
<1>2. CASE UNCHANGED count
  BY <1>2
<1>3. CASE \/ count' = [count EXCEPT !.commands = @ + 1] \/ count' = [count EXCEPT !.ids = @ + 1]
           \/ count' = [count EXCEPT !.faults = @ + 1] \/ count' = [count EXCEPT !.cpu = @ + 1]
  BY <1>1, <1>3
<1>4. CASE count' = [count EXCEPT !.faults = @ + 1, !.botched = @ \/ bg.resetting = "system"]
  <2>1. count'.botched = (count.botched \/ bg.resetting = "system")
    BY <1>1, <1>4
  <2> QED BY <2>1
<1>5. CASE Client
  BY <1>2, <1>3, <1>5, ClientFrame
<1>6. CASE Command
  BY <1>2, <1>3, <1>6, CommandCount
<1>7. CASE ~Client /\ ~Command
  <2>1. \/ UNCHANGED count
        \/ count' = [count EXCEPT !.faults = @ + 1]
        \/ count' = [count EXCEPT !.cpu = @ + 1]
        \/ count' = [count EXCEPT !.faults = @ + 1, !.botched = @ \/ bg.resetting = "system"]
    BY <1>7 DEF Next, Thread, Failure, NoCommand, FpgaTimeOut, SimTimeOut, NoTimeOut, RxPacket, TxPackets,
                SimLink, Response, FpgaCpu, SimNoResponse, Settle, PortError, SimulationError, CpuIssue,
                DevTake, DevServe, Fault, vars
  <2> QED BY <1>2, <1>3, <1>4, <2>1
<1> QED BY <1>5, <1>6, <1>7

LEMMA RequestsStep == IInv /\ IInv' /\ RequestsInv /\ [Next]_vars => RequestsInv'
<1> SUFFICES ASSUME IInv, IInv', RequestsInv, [Next]_vars PROVE RequestsInv'
  OBVIOUS
<1>1. Counts' /\ UNCHANGED budget /\ Known \subseteq Known' /\ None \in Known'
  BY CountsStep
<1>2. main'.req \in Known' /\ pending' \in Known' /\ \A c \in Elems(commands') : c.req \in Known'
  BY ClientRequests, ThreadRequests
<1>3. direct'.req \in Known'
  <2>1. CASE Client
    BY <1>1, <2>1, ClientFrame DEF RequestsInv
  <2> QED BY <2>1, ThreadRequests
<1>4. LinkOf(handler, tx, toDev, toHost, dev.request, Known')
  BY <1>1 DEF RequestsInv, LinkOf
<1>5. /\ LinkOf(handler', tx', toDev', toHost', dev'.request, Known')
      /\ ~count'.botched => Accounted'
  <2>1. CASE Command
    <3>1. count'.botched = count.botched
      BY <2>1, CommandCount DEF IInv, LinkInv, Shaped
    <3>2. \A c \in Elems(commands) :
            c.req \in Known' /\ (c.type = "reset" /\ count'.ids = count.ids + 1
                                  => [c.req EXCEPT !.id = count.ids + 1] \in Known')
      BY <1>1, <2>1, ResetMadeAnew DEF RequestsInv
    <3>3. PICK G : G = Known'
      OBVIOUS
    <3> QED BY <1>1, <1>4, <2>1, <3>1, <3>2, <3>3, CommandStays DEF RequestsInv
  <2>2. CASE ~Command
    <3>1. StepStays
      BY <2>2, LinkStays
    <3>2. count.botched => count'.botched
      BY BotchedStays
    <3> QED BY <1>1, <1>4, <3>1, <3>2 DEF StepStays, RequestsInv
  <2> QED BY <2>1, <2>2
<1> QED BY <1>1, <1>2, <1>3, <1>5, MemoryStep DEF RequestsInv

\* What an earlier session may have left on its way to the host.
LEMMA LeftoverPackets ==
  ASSUME NEW left \in Leftovers
  PROVE  /\ IsSeq(left.toHost) /\ Len(left.toHost) <= 1 /\ left.target.request = None
         /\ \A x \in Elems(left.toHost) : x.type = "host_resp" => x.req = Request(0, FALSE, STATUS, 4, 1, 0)
<1>1. left.target.request = None /\ IsSeq(left.toHost)
  BY LeftoversKnown DEF LeftTarget, LeftPackets, FromTarget
<1>2. CASE left.toHost = << >>
  <2>1. Len(left.toHost) = 0 /\ Elems(left.toHost) = {}
    BY <1>2, EmptySeq, EmptyElems
  <2> QED BY <1>1, <2>1
<1>3. ASSUME NEW x, left.toHost = <<x>>,
             x.type = "host_resp" => x.req = Request(0, FALSE, STATUS, 4, 1, 0)
      PROVE  /\ Len(left.toHost) <= 1
             /\ \A y \in Elems(left.toHost) : y.type = "host_resp" => y.req = Request(0, FALSE, STATUS, 4, 1, 0)
  <2>1. PICK s : s = <<x>>
    OBVIOUS
  <2>2. Len(s) = 1 /\ s[1] = x
    BY <2>1
  <2>3. \A i \in 1 .. Len(s) : s[i] = x
    BY <2>2
  <2>4. \A y \in Elems(s) : y = x
    BY <2>3 DEF Elems
  <2>5. Len(s) <= 1
    BY <2>2
  <2> QED BY <1>3, <2>1, <2>4, <2>5
<1>4. CASE left = Left(TRUE, <<Packet("cpu_req", Request(0, FALSE, RTL_END, 4, 1, 0), << >>)>>)
  <2>1. PICK x : x = Packet("cpu_req", Request(0, FALSE, RTL_END, 4, 1, 0), << >>)
    OBVIOUS
  <2>2. left.toHost = <<x>> /\ x.type # "host_resp"
    BY <1>4, <2>1 DEF Left, Packet
  <2> QED BY <1>1, <1>3, <2>2
<1>5. CASE left = Left(FALSE, <<Packet("host_resp", Request(0, FALSE, STATUS, 4, 1, 0), <<0>>)>>)
  <2>1. PICK x : x = Packet("host_resp", Request(0, FALSE, STATUS, 4, 1, 0), <<0>>)
    OBVIOUS
  <2>2. left.toHost = <<x>> /\ x.req = Request(0, FALSE, STATUS, 4, 1, 0)
    BY <1>5, <2>1 DEF Left, Packet
  <2> QED BY <1>1, <1>3, <2>2
<1>6. left.toHost = << >> \/ left \notin NothingLeft
  BY LeftoversKnown
<1>7. CASE left = Left(TRUE, << >>)
  BY <1>2, <1>7 DEF Left
<1> QED BY <1>2, <1>4, <1>5, <1>6, <1>7 DEF Leftovers

LEMMA StatusRequest ==
  ASSUME NEW ids \in Nat, NEW top \in Nat
  PROVE  Request(0, FALSE, STATUS, 4, 1, 0) \in Requests(ids, top)
<1>0. PICK write \in BOOLEAN : write = FALSE
  OBVIOUS
<1>1. PICK r : r = Request(0, write, STATUS, 4, 1, 0)
  OBVIOUS
<1>2. Route(r) # "invalid"
  <2>1. EndAddr(r) = 11
    BY <1>1 DEF EndAddr, Request, STATUS
  <2> QED BY <2>1, RegistersAssumption, RegionAssumption DEF Route
<1>3. STATUS \in Nat /\ 1 \in 1 .. MAX_BURST_BEATS
  BY RegionAssumption DEF STATUS
<1>4. r \in Requests(ids, top)
  BY <1>1, <1>2, <1>3, RequestMade
<1> QED BY <1>0, <1>1, <1>4, Zenon

\* The reset that a runtime begins with is its first request.
LEMMA StartupReset ==
  ASSUME NEW startup \in Connecting, NEW r, r = RequestAt(Script[startup][1], NoRegion, 0, 1, 0)
  PROVE  ResetRequest(r) /\ r.id = 1
<1>1. CASE startup = "connect_cpu"
  <2>1. r = Request(1, TRUE, RESET, 4, 1, RESET_CPU)
    BY <1>1 DEF Script, ConnectCpu, RequestAt
  <2>2. r.id = 1 /\ r.value = RESET_CPU
    BY <2>1 DEF Request
  <2> QED BY <2>1, <2>2, Zenon DEF ResetRequest
<1>2. CASE startup = "connect_system"
  <2>1. r = Request(1, TRUE, RESET, 4, 1, RESET_SYSTEM)
    BY <1>2 DEF Script, ConnectSystem, RequestAt
  <2>2. r.id = 1 /\ r.value = RESET_SYSTEM
    BY <2>1 DEF Request
  <2> QED BY <2>1, <2>2, Zenon DEF ResetRequest
<1> QED BY <1>1, <1>2 DEF Connecting

LEMMA InitRequests == Init => RequestsInv
<1> SUFFICES ASSUME Init PROVE RequestsInv
  OBVIOUS
<1>1. /\ budget \in BUDGETS /\ commands = << >> /\ events = << >> /\ direct = NoResponse
      /\ tx = << >> /\ toDev = << >> /\ mem = [a \in Memory |-> 0]
  BY DEF Init
<1>2. /\ Idle.at = "idle" /\ Idle.result = "none" /\ Idle.req = None
      /\ \A x, y : LET m == [Idle EXCEPT !.at = "wait_reset", !.cmd = x, !.req = y]
                   IN  m.at = "wait_reset" /\ m.cmd = x /\ m.req = y /\ m.result = "none"
  BY DEF Idle
<1>3. /\ NewHandler.outgoing_request = None /\ NewHandler.outgoing_response.req = None
      /\ NewHandler.outgoing_response = NoResponse /\ NewHandler.incoming_request = None
      /\ NewHandler.accepted_request = None
      /\ \A r : LET h == SendRequest(NewHandler, r)
                IN  /\ h.outgoing_request = r /\ h.outgoing_response = NoResponse
                    /\ h.incoming_request = None /\ h.accepted_request = None
  BY DEF NewHandler, NoResponse, SendRequest
<1>4. NoResponse.req = None /\ budget.commands \in Nat
  BY <1>1, RuntimeAssumption DEF NoResponse
<1>5. \E n \in {0, 1} : count.ids = n /\ count.commands = n
  <2>1. CASE backend = "sim"
    BY <2>1 DEF Init, Create
  <2>2. CASE backend # "sim"
    <3>1. PICK startup \in Startups, left \in Leftovers : Connect(startup, left)
      BY <2>2 DEF Init
    <3> QED BY <3>1 DEF Connect
  <2> QED BY <2>1, <2>2
<1>6. None \in Known
  BY <1>4, <1>5, NoneRequest DEF Known
<1>7. \E r \in Known :
        /\ main.req = r /\ main.at \in {"idle", "wait_reset"} /\ main.result = "none"
        /\ main.at = "wait_reset" => main.cmd \in Connecting
        /\ pending \in {r, None}
        /\ handler.outgoing_request = r /\ handler.outgoing_response = NoResponse
        /\ handler.incoming_request = None /\ handler.accepted_request = None
        /\ dev.request = None /\ IsSeq(toHost) /\ Len(toHost) <= 1 /\ count.faults \in Nat
        /\ \A x \in Elems(toHost) : x.type = "host_resp" => x.req \in Known
  <2>1. CASE backend = "sim"
    <3>1. /\ main = Idle /\ handler = NewHandler /\ pending = None /\ dev.request = None /\ toHost = << >>
          /\ count.faults = 0
      BY <2>1 DEF Init, Create, Booting
    <3> QED BY <1>2, <1>3, <1>6, <3>1, EmptySeq, EmptyElems
  <2>2. CASE backend # "sim"
    <3>1. PICK startup \in Startups, left \in Leftovers : Connect(startup, left)
      BY <2>2 DEF Init
    <3>2. dev = left.target /\ toHost = left.toHost /\ count.faults \in Nat
      BY <3>1 DEF Connect
    <3>3. /\ dev.request = None /\ IsSeq(toHost) /\ Len(toHost) <= 1
          /\ \A x \in Elems(toHost) : x.type = "host_resp" => x.req \in Known
      <4>1. Request(0, FALSE, STATUS, 4, 1, 0) \in Known
        BY <1>4, <1>5, StatusRequest DEF Known
      <4> QED BY <3>2, <4>1, LeftoverPackets
    <3>4. CASE startup = "none"
      <4>1. main = Idle /\ handler = NewHandler /\ pending = None
        BY <3>1, <3>4 DEF Connect
      <4> QED BY <1>2, <1>3, <1>6, <3>2, <3>3, <4>1
    <3>5. CASE startup \in Connecting
      <4>1. PICK r : r = RequestAt(Script[startup][1], NoRegion, 0, 1, 0)
        OBVIOUS
      <4>2. startup # "none"
        BY <3>5 DEF Connecting
      <4>3. /\ main = [Idle EXCEPT !.at = "wait_reset", !.cmd = startup, !.req = r]
            /\ handler = SendRequest(NewHandler, r) /\ pending \in {r, None} /\ count.ids = 1
        BY <3>1, <4>1, <4>2 DEF Connect
      <4>4. r \in Known
        <5>1. ResetRequest(r) /\ r.id \in 0 .. count.ids /\ count.ids \in Nat
          BY <3>5, <4>1, <4>3, StartupReset
        <5> QED BY <1>4, <5>1, ResetMade DEF Known
      <4> QED BY <1>2, <1>3, <3>2, <3>3, <3>5, <4>3, <4>4
    <3> QED BY <3>4, <3>5 DEF Startups
  <2> QED BY <2>1, <2>2
<1>8. PICK r \in Known :
        /\ main.req = r /\ main.at \in {"idle", "wait_reset"} /\ main.result = "none"
        /\ main.at = "wait_reset" => main.cmd \in Connecting
        /\ pending \in {r, None}
        /\ handler.outgoing_request = r /\ handler.outgoing_response = NoResponse
        /\ handler.incoming_request = None /\ handler.accepted_request = None
        /\ dev.request = None /\ IsSeq(toHost) /\ Len(toHost) <= 1 /\ count.faults \in Nat
        /\ \A x \in Elems(toHost) : x.type = "host_resp" => x.req \in Known
  BY <1>7
<1>9. Counts
  BY <1>1, <1>5, <1>8 DEF Counts, Places, Results, Active
<1>10. LinkOf(handler, tx, toDev, toHost, dev.request, Known)
  BY <1>1, <1>4, <1>6, <1>8, EmptyElems DEF LinkOf
<1>11. Accounted
  <2>1. Len(tx) = 0 /\ Len(toDev) = 0 /\ Len(toHost) \in Nat
    BY <1>1, <1>8 DEF IsSeq
  <2> QED BY <1>8, <2>1 DEF Accounted, Fits, Weight, One
<1>12. mem \in [Memory -> 0 .. budget.commands]
  BY <1>1, <1>4
<1> QED BY <1>1, <1>4, <1>6, <1>8, <1>9, <1>10, <1>11, <1>12, EmptyElems DEF RequestsInv

LEMMA RequestsInductive == Spec => []RequestsInv
<1>1. IInv /\ RequestsInv /\ [Next]_vars => RequestsInv'
  BY NextInv, RequestsStep
<1> QED BY <1>1, InitRequests, Inductive, PTL DEF Spec

\* Every part of the runtime holds a value of its type.
LEMMA KnownTypes == IInv /\ RequestsInv => TypeOK
<1> SUFFICES ASSUME IInv, RequestsInv PROVE TypeOK
  OBVIOUS
<1>1. count.ids \in Nat /\ budget.commands \in Nat /\ Counts
  BY BudgetKnown DEF RequestsInv
<1>2. ASSUME NEW r \in Known PROVE IsRequest(r)
  BY <1>1, <1>2, RequestBytes DEF Known, IsRequest, Ids
<1>3. /\ IsRequest(main.req) /\ IsRequest(pending) /\ IsRequest(dev.request)
      /\ IsRequest(handler.outgoing_request) /\ IsRequest(handler.outgoing_response.req)
  BY <1>2 DEF RequestsInv, LinkOf
<1>4. ~count.botched => Len(tx) + Len(toDev) + Len(toHost) <= 3 + count.faults
  <2>1. Len(tx) \in Nat /\ Len(toDev) \in Nat /\ Len(toHost) \in Nat /\ count.faults \in Nat
    BY DEF IInv, LinkInv, Shaped, FromTarget, IsSeq
  <2>2. ~count.botched => Accounted
    BY DEF RequestsInv
  <2>3. /\ One(dev.request # None) \in Nat /\ One(handler.incoming_request # None) \in Nat
        /\ One(handler.accepted_request # None) \in Nat
        /\ One(handler.outgoing_request # None /\ ~handler.tx_started) \in Nat
        /\ One(handler.outgoing_response # NoResponse) \in Nat
        /\ One(handler.outgoing_request # None) \in 0 .. 1
        /\ One(HasAccess(handler, tx, toDev, toHost)) \in 0 .. 1
    BY DEF One
  <2>4. PICK n, a, b, c, d, e, f, g :
          /\ n = Len(tx) + Len(toDev) + Len(toHost)
          /\ a = One(dev.request # None) /\ b = One(handler.incoming_request # None)
          /\ c = One(handler.accepted_request # None)
          /\ d = One(handler.outgoing_request # None /\ ~handler.tx_started)
          /\ e = One(handler.outgoing_response # NoResponse)
          /\ f = One(handler.outgoing_request # None)
          /\ g = One(HasAccess(handler, tx, toDev, toHost))
    OBVIOUS
  <2>5. Accounted => n + a + b + c + d + e <= 1 + count.faults + f + g
    BY <2>4 DEF Accounted, Fits, Weight
  <2>6. a \in Nat /\ b \in Nat /\ c \in Nat /\ d \in Nat /\ e \in Nat /\ f \in 0 .. 1 /\ g \in 0 .. 1
    BY <2>3, <2>4
  <2>7. n \in Nat
    BY <2>1, <2>4
  <2>8. Accounted => n <= 3 + count.faults
    BY <2>1, <2>5, <2>6, <2>7
  <2> QED BY <2>2, <2>4, <2>8
<1>5. ThreadInv
  BY DEF IInv
<1> QED BY <1>1, <1>3, <1>4, <1>5 DEF TypeOK, ThreadInv, Counts, Places, Results, RequestsInv

\* Every part of the runtime holds a value of its type, and the link never holds more
\* packets than the protocol allows to be under way, but for those that a failure leaves
\* behind (fpga.rs, host_bus_handler.rs, host_bus_interface.sv).
THEOREM TypeCorrect == Spec => []TypeOK
BY Inductive, RequestsInductive, KnownTypes, PTL

(***************************************************************************)
(* How requests are concluded: an event for the request that is pending    *)
(* leaves none, and numbers go up.                                         *)
(***************************************************************************)
Refuses(type) == type \in {"error", "timeout", "fatal"}

\* The event that a step adds: for no request, or for the pending one, which is over.
Tells(e) == /\ events' = Append(events, e) /\ pending' \in {pending, None}
            /\ e.id = 0 \/ (e.id = pending.id /\ pending' = None)
            /\ InTime' => ~Refuses(e.type)

LEMMA EventParts ==
  ASSUME NEW type, NEW r, NEW from, NEW e, e = Event(type, r, from)
  PROVE  e.type = type /\ e.id = r.id /\ e.addr = r.addr
BY DEF Event

\* In time the handler takes what it is given.
LEMMA CommandInTime ==
  ASSUME IInv, RequestsInv, OnePending, Command, Head(commands).type = "send"
  PROVE  /\ Head(commands).req = pending /\ pending # None /\ pending \in Known
         /\ handler.outgoing_request = None /\ direct = NoResponse
         /\ Route(pending) \in {"rtl", "local"}
         /\ Route(pending) = "rtl" => Sendable(handler, pending)
<1>1. ClientInv /\ CommandsInv /\ ThreadInv /\ LinkInv /\ commands # << >>
  BY DEF IInv, Command
<1>2. Head(commands).req = pending /\ Has(commands, "send")
  BY <1>1, FirstCommand
<1>3. pending # None /\ handler.outgoing_request = None /\ direct = NoResponse /\ pending \in Known
  BY <1>2 DEF OnePending, Waiting, RequestsInv
<1>4. Route(pending) \in {"rtl", "local", "invalid"}
  BY DEF Route
<1>5. Route(pending) # "invalid" /\ pending.beats \in 1 .. MAX_BURST_BEATS
  <2>1. pending.beats \in 0 .. MAX_BURST_BEATS /\ pending.beats # 0 /\ Route(pending) # "invalid"
    BY <1>3 DEF Known, Requests
  <2> QED BY <2>1, RegionAssumption
<1> QED BY <1>2, <1>3, <1>4, <1>5 DEF Sendable

\* What a step does to the pending request and the events.
LEMMA EventSteps ==
  ASSUME IInv, RequestsInv, PendingInv, [Next]_vars
  PROVE  \/ UNCHANGED events /\ pending' \in {pending, None}
         \/ /\ UNCHANGED events /\ pending' # None /\ pending'.id = count.ids + 1
            /\ count'.ids = count.ids + 1
         \/ events # << >> /\ events' = Tail(events) /\ UNCHANGED pending
         \/ \E e : Tells(e)
<1>1. /\ ClientInv /\ CommandsInv /\ LinkInv /\ DOMAIN count = {"ids", "commands", "faults", "botched", "cpu"}
      /\ count.ids \in Nat /\ count.commands \in Nat /\ budget.commands \in Nat /\ None.id = 0
  BY BudgetKnown DEF IInv, LinkInv, Shaped, RequestsInv, Counts, None, Request
<1>2. (InTime' => InTime) /\ (FpgaTimeOut \/ SimTimeOut \/ Failure => ~InTime')
  BY <1>1, Faults
<1>3. ASSUME NEW type, NEW r \in {None, pending}, Emit(Event(type, r, NoResponse)),
             pending' \in {pending, None}, r = pending => pending' = None \/ pending = None,
             InTime' => ~Refuses(type)
      PROVE  \E e : Tells(e)
  <2>1. PICK e : e = Event(type, r, NoResponse)
    OBVIOUS
  <2>2. e.type = type /\ e.id = r.id
    BY <2>1, EventParts
  <2>3. e.id = 0 \/ (e.id = pending.id /\ pending' = None)
    BY <1>1, <1>3, <2>2
  <2> QED BY <1>3, <2>1, <2>2, <2>3 DEF Emit, Tells
<1>4. ASSUME NEW resp, NEW e \in {Answer(pending, resp), [Answer(pending, resp) EXCEPT !.addr = Head(commands).req.addr]},
             Emit(e), pending' = None
      PROVE  \E x : Tells(x)
  <2>1. PICK addr : addr = Head(commands).req.addr
    OBVIOUS
  <2>2. e = Answer(pending, resp) \/ e = [Answer(pending, resp) EXCEPT !.addr = addr]
    BY <1>4, <2>1
  <2>3. e.id = pending.id /\ e.type \in {"write", "read"}
    BY <2>2 DEF Answer, Event
  <2> QED BY <1>4, <2>3 DEF Emit, Tells, Refuses
<1>5. CASE Client
  <2>1. CASE Arm
    <3>1. CASE UNCHANGED pending
      BY <2>1, <3>1 DEF Arm
    <3>2. CASE pending' = NextRequest /\ count' = [count EXCEPT !.ids = @ + 1] /\ Route(NextRequest) # "invalid"
      <4>1. main.at = "next" /\ Call # "drop" /\ UNCHANGED events
        BY <2>1 DEF Arm
      <4>2. count.commands <= budget.commands
        <5>1. main.cmd \notin Connecting /\ Active
          BY <1>1, <4>1 DEF ClientInv, Active
        <5> QED BY <5>1 DEF RequestsInv, Counts
      <4>3. NextRequest # None /\ NextRequest.id = count.ids + 1
        BY <1>1, <3>2, <4>1, <4>2, NextMade
      <4> QED BY <1>1, <3>2, <4>1, <4>3
    <3> QED BY <2>1, <3>1, <3>2 DEF Arm
  <2>2. CASE Enqueue
    BY <2>2 DEF Enqueue
  <2>3. CASE Poll \/ IdlePoll \/ Drain
    BY <2>3 DEF Poll, IdlePoll, Drain
  <2>4. CASE Starts \/ AskReset \/ Disconnect \/ Join \/ GiveUpReset
    BY <2>4, StartFields DEF AskReset, Disconnect, Join, GiveUpReset
  <2> QED BY <1>5, <2>1, <2>2, <2>3, <2>4 DEF Client, Starts
<1>6. CASE Command
  <2>1. PICK c, r : c = Head(commands) /\ r = c.req
    OBVIOUS
  <2>2. CASE c.type = "send" /\ LocalCommand(r)
    <3>1. pending' = None
      BY <2>2 DEF LocalCommand
    <3>2. Emit([Answer(pending, Executed(r)) EXCEPT !.addr = r.addr]) \/ UNCHANGED events
      BY <2>2 DEF LocalCommand
    <3> QED BY <1>4, <2>1, <3>1, <3>2
  <2>3. CASE c.type = "send" /\ RtlCommand(r)
    <3>1. InTime => Sendable(handler, r)
      <4>1. InTime => OnePending
        BY DEF PendingInv
      <4> QED BY <1>6, <2>1, <2>3, <4>1, CommandInTime DEF RtlCommand
    <3>2. CASE Sendable(handler, r)
      BY <2>3, <3>2 DEF RtlCommand
    <3>3. CASE ~Sendable(handler, r)
      <4>1. pending' = None /\ Emit(Event("error", pending, NoResponse))
        BY <2>3, <3>3 DEF RtlCommand
      <4> QED BY <1>2, <1>3, <3>1, <3>3, <4>1
    <3> QED BY <3>2, <3>3
  <2>4. CASE c.type = "send" /\ SimCommand(r)
    <3>1. InTime => handler.outgoing_request = None /\ direct = NoResponse
      <4>1. InTime => OnePending
        BY DEF PendingInv
      <4> QED BY <1>6, <2>1, <2>4, <4>1, CommandInTime
    <3>2. CASE handler.outgoing_request = None /\ direct = NoResponse
      BY <2>4, <3>2 DEF SimCommand
    <3>3. CASE ~(handler.outgoing_request = None /\ direct = NoResponse)
      <4>1. pending' = None /\ (UNCHANGED events \/ Emit(Event("timeout", pending, NoResponse)))
        BY <2>4, <3>3 DEF SimCommand
      <4> QED BY <1>2, <1>3, <3>1, <3>3, <4>1
    <3> QED BY <3>2, <3>3
  <2>5. CASE c.type = "reset" /\ FpgaReset(r)
    <3>1. UNCHANGED events /\ count'.ids = count.ids + 1
      BY <1>1, <2>5 DEF FpgaReset
    <3>2. c \in Elems(commands)
      <4>1. IsSeq(commands) /\ commands # << >>
        BY <1>1, <1>6 DEF CommandsInv, Command
      <4> QED BY <2>1, <4>1, TailElems
    <3>3. ResetRequest(r)
      BY <1>1, <2>1, <2>5, <3>2 DEF CommandsInv, Sent, Elems
    <3>4. PICK q : q = [r EXCEPT !.id = count.ids + 1]
      OBVIOUS
    <3>5. q.id = count.ids + 1 /\ q # None
      BY <3>3, <3>4, Renumbered, ResetSendable
    <3>6. pending' \in {pending, None, q}
      BY <2>5, <3>4 DEF FpgaReset
    <3> QED BY <3>1, <3>5, <3>6
  <2>6. CASE SimReset \/ UNCHANGED <<pending, events>>
    BY <2>6 DEF SimReset
  <2> QED BY <1>6, <2>1, <2>2, <2>3, <2>4, <2>5, <2>6 DEF Command
<1>7. CASE FpgaTimeOut \/ SimTimeOut
  <2>1. pending' = None /\ (UNCHANGED events \/ Emit(Event("timeout", pending, NoResponse)))
    BY <1>7 DEF FpgaTimeOut, SimTimeOut
  <2> QED BY <1>2, <1>3, <1>7, <2>1
<1>8. CASE Failure
  <2>1. /\ UNCHANGED pending
        /\ UNCHANGED events \/ \E type : Emit(Event(type, None, NoResponse))
    BY <1>8 DEF Failure, PortError, SimulationError
  <2>2. pending = None => UNCHANGED events \/ \E e : Tells(e)
    BY <1>2, <1>3, <1>8, <2>1
  <2>3. pending # None => UNCHANGED events \/ \E e : Tells(e)
    BY <1>2, <1>3, <1>8, <2>1
  <2> QED BY <2>1, <2>2, <2>3
<1>9. CASE Response
  <2>1. pending' = None /\ (UNCHANGED events \/ Emit(Answer(pending, Received)))
    BY <1>9 DEF Response
  <2> QED BY <1>4, <2>1
<1>10. CASE FpgaCpu
  <2>1. UNCHANGED pending /\ (UNCHANGED events \/ Emit(Event("access", None, NoResponse)))
    BY <1>10 DEF FpgaCpu
  <2>2. ~Refuses("access")
    BY DEF Refuses
  <2> QED BY <1>3, <2>1, <2>2
<1>11. CASE \/ NoCommand \/ NoTimeOut \/ SimNoResponse \/ RxPacket \/ TxPackets \/ SimLink \/ Settle
            \/ CpuIssue \/ DevTake \/ DevServe \/ UNCHANGED vars
  <2>1. UNCHANGED events /\ pending' \in {pending, None}
    BY <1>11 DEF NoCommand, NoTimeOut, SimNoResponse, RxPacket, TxPackets, SimLink, Settle, CpuIssue, DevTake,
                 DevServe, vars
  <2> QED BY <2>1
<1> QED BY <1>5, <1>6, <1>7, <1>8, <1>9, <1>10, <1>11 DEF Next, Thread

\* Events s, and the request p that is pending, after n requests.
Ordered(s, p, n) ==
  /\ IsSeq(s) /\ (p # None => p.id \in 1 .. n)
  /\ \A i \in 1 .. Len(s) : s[i].id \in 0 .. n /\ (p # None => s[i].id < p.id)
  /\ \A i, j \in 1 .. Len(s) : i < j /\ s[j].id # 0 => s[i].id < s[j].id

LEMMA OrderedTail ==
  ASSUME NEW s, NEW p, NEW n, Ordered(s, p, n), s # << >>
  PROVE  Ordered(Tail(s), p, n)
<1>1. PICK u : u = Tail(s)
  OBVIOUS
<1>2. /\ IsSeq(u) /\ Len(u) = Len(s) - 1 /\ Len(s) \in Nat
      /\ \A i \in 1 .. Len(s) - 1 : u[i] = s[i + 1]
  BY <1>1, TailSeq DEF Ordered, IsSeq
<1>3. \A i \in 1 .. Len(u) : i + 1 \in 1 .. Len(s) /\ u[i] = s[i + 1]
  BY <1>2
<1>4. \A i, j \in 1 .. Len(u) : i < j => i + 1 < j + 1
  BY <1>2
<1>5. Ordered(u, p, n)
  BY <1>2, <1>3, <1>4 DEF Ordered
<1> QED BY <1>1, <1>5

LEMMA OrderedAppend ==
  ASSUME NEW s, NEW p, NEW n \in Nat, Ordered(s, p, n), NEW e, NEW q \in {p, None},
         e.id = 0 \/ (e.id = p.id /\ q = None)
  PROVE  Ordered(Append(s, e), q, n)
<1>1. PICK u : u = Append(s, e)
  OBVIOUS
<1>2. /\ IsSeq(u) /\ Len(u) = Len(s) + 1 /\ Len(s) \in Nat
      /\ \A i \in 1 .. Len(s) : u[i] = s[i]
      /\ u[Len(s) + 1] = e
  BY <1>1, AppendSeq DEF Ordered, IsSeq
<1>3. \A i \in 1 .. Len(u) : (i \in 1 .. Len(s) /\ u[i] = s[i]) \/ (i = Len(s) + 1 /\ u[i] = e)
  BY <1>2
<1>4. None.id = 0
  BY DEF None, Request
<1>5. e.id \in 0 .. n
  BY <1>4 DEF Ordered
<1>6. q # None => q = p /\ e.id = 0 /\ q.id \in 1 .. n
  BY DEF Ordered
<1>7. \A i \in 1 .. Len(u) : u[i].id \in 0 .. n /\ (q # None => u[i].id < q.id)
  BY <1>3, <1>5, <1>6 DEF Ordered
<1>8. ASSUME NEW i \in 1 .. Len(u), NEW j \in 1 .. Len(u), i < j, u[j].id # 0
      PROVE  u[i].id < u[j].id
  <2>1. i \in 1 .. Len(s) /\ u[i] = s[i]
    BY <1>2, <1>3, <1>8
  <2>2. CASE j \in 1 .. Len(s) /\ u[j] = s[j]
    BY <1>8, <2>1, <2>2 DEF Ordered
  <2>3. CASE u[j] = e
    BY <1>4, <1>8, <2>1, <2>3 DEF Ordered
  <2> QED BY <1>3, <2>2, <2>3
<1>9. Ordered(u, q, n)
  BY <1>2, <1>6, <1>7, <1>8 DEF Ordered
<1> QED BY <1>1, <1>9

OrderedInv == Ordered(events, pending, count.ids)

LEMMA OrderedStep == IInv /\ RequestsInv /\ PendingInv /\ OrderedInv /\ [Next]_vars => OrderedInv'
<1> SUFFICES ASSUME IInv, RequestsInv, PendingInv, OrderedInv, [Next]_vars PROVE OrderedInv'
  OBVIOUS
<1>1. count.ids \in Nat /\ count'.ids \in Nat /\ count'.ids >= count.ids
  BY Counted DEF IInv, LinkInv, Shaped, RequestsInv, Counts
<1>2. PICK s, u, p, q : s = events /\ u = events' /\ p = pending /\ q = pending'
  OBVIOUS
<1>3. ASSUME Ordered(u, q, count.ids) PROVE OrderedInv'
  <2>1. Ordered(u, q, count'.ids)
    BY <1>1, <1>3 DEF Ordered
  <2> QED BY <1>2, <2>1 DEF OrderedInv
<1>4. Ordered(s, p, count.ids)
  BY <1>2 DEF OrderedInv
<1>5. CASE u = s /\ q \in {p, None}
  BY <1>3, <1>4, <1>5 DEF Ordered
<1>6. CASE u = s /\ q # None /\ q.id = count.ids + 1 /\ count'.ids = count.ids + 1
  <2>1. Ordered(u, q, count'.ids)
    BY <1>1, <1>4, <1>6 DEF Ordered
  <2> QED BY <1>2, <2>1 DEF OrderedInv
<1>7. CASE s # << >> /\ u = Tail(s) /\ q = p
  BY <1>3, <1>4, <1>7, OrderedTail
<1>8. ASSUME NEW e, Tells(e) PROVE OrderedInv'
  <2>1. u = Append(s, e) /\ q \in {p, None} /\ (e.id = 0 \/ (e.id = p.id /\ q = None))
    BY <1>2, <1>8 DEF Tells
  <2>2. Ordered(Append(s, e), q, count.ids)
    BY <1>1, <1>4, <2>1, OrderedAppend
  <2> QED BY <1>3, <2>1, <2>2
<1> QED BY <1>2, <1>5, <1>6, <1>7, <1>8, EventSteps

LEMMA InitOrdered == Init => OrderedInv
<1> SUFFICES ASSUME Init PROVE OrderedInv
  OBVIOUS
<1>1. events = << >>
  BY DEF Init
<1>2. pending # None => pending.id \in 1 .. count.ids
  <2>1. CASE backend = "sim"
    BY <2>1 DEF Init, Create
  <2>2. CASE backend # "sim"
    <3>1. PICK startup \in Startups, left \in Leftovers : Connect(startup, left)
      BY <2>2 DEF Init
    <3>2. CASE startup = "connect_cpu"
      <4>1. PICK r : r = RequestAt(Script[startup][1], NoRegion, 0, 1, 0)
        OBVIOUS
      <4>2. pending = r /\ count.ids = 1
        BY <3>1, <3>2, <4>1 DEF Connect
      <4>3. r.id = 1
        BY <3>2, <4>1, StartupReset DEF Connecting
      <4> QED BY <4>2, <4>3
    <3>3. CASE startup # "connect_cpu"
      BY <3>1, <3>3 DEF Connect
    <3> QED BY <3>2, <3>3
  <2> QED BY <2>1, <2>2
<1> QED BY <1>1, <1>2, EmptySeq DEF OrderedInv, Ordered

LEMMA OwnPendingInductive == Spec => [](OwnInv /\ PendingInv)
<1>1. Init => OwnInv /\ PendingInv
  BY InitOwn, InitPending DEF PendingInv
<1> QED BY <1>1, Inductive, OwnStep, PendingStep, PTL DEF Spec

LEMMA OrderedInductive == Spec => []OrderedInv
BY InitOrdered, OrderedStep, Inductive, RequestsInductive, OwnPendingInductive, PTL DEF Spec

\* Requests are concluded once each and in order, and not before they are made, whatever
\* times out or fails (fpga.rs:255-436, sim.rs:180-265).
THEOREM ConcludedOnce == Spec => []OneOutcome
<1>1. OrderedInv => OneOutcome
  <2>1. SUFFICES ASSUME OrderedInv PROVE OneOutcome
    OBVIOUS
  <2>2. DOMAIN events = 1 .. Len(events)
    BY <2>1 DEF OrderedInv, Ordered, IsSeq
  <2> QED BY <2>1, <2>2 DEF OrderedInv, Ordered, OneOutcome
<1> QED BY <1>1, OrderedInductive, PTL

\* In time, nothing is concluded but by its response.
TimelyInv == InTime => \A e \in Elems(events) : ~Refuses(e.type)

LEMMA TimelyStep == IInv /\ RequestsInv /\ PendingInv /\ OrderedInv /\ TimelyInv /\ [Next]_vars => TimelyInv'
<1> SUFFICES ASSUME IInv, RequestsInv, PendingInv, OrderedInv, TimelyInv, [Next]_vars, InTime'
             PROVE  \A e \in Elems(events') : ~Refuses(e.type)
  BY DEF TimelyInv
<1>1. InTime /\ IsSeq(events)
  BY Faults DEF IInv, OrderedInv, Ordered
<1>2. PICK s, u : s = events /\ u = events'
  OBVIOUS
<1>3. CASE u = s
  BY <1>1, <1>2, <1>3 DEF TimelyInv
<1>4. CASE s # << >> /\ u = Tail(s)
  <2>1. Elems(u) \subseteq Elems(s)
    BY <1>1, <1>2, <1>4, TailElems
  <2> QED BY <1>1, <1>2, <2>1 DEF TimelyInv
<1>5. ASSUME NEW e, Tells(e) PROVE \A x \in Elems(u) : ~Refuses(x.type)
  <2>1. Elems(u) = Elems(s) \cup {e}
    BY <1>1, <1>2, <1>5, AppendElems DEF Tells
  <2> QED BY <1>1, <1>2, <1>5, <2>1 DEF Tells, TimelyInv
<1> QED BY <1>2, <1>3, <1>4, <1>5, EventSteps

LEMMA TimelyInductive == Spec => []TimelyInv
<1>1. Init => TimelyInv
  BY EmptyElems DEF Init, TimelyInv
<1> QED BY <1>1, TimelyStep, Inductive, RequestsInductive, OwnPendingInductive, OrderedInductive, PTL DEF Spec

\* As long as nothing fails, the handler never works for a request that the runtime has
\* forgotten (fpga.rs, handle_command and poll_once; sim.rs).
THEOREM OutgoingPending == Spec => []OutgoingIsPending
<1>1. PendingInv /\ TimelyInv /\ OrderedInv => OutgoingIsPending
  <2>1. SUFFICES ASSUME OnePending, \A e \in Elems(events) : ~Refuses(e.type), OrderedInv, InTime
                 PROVE  OutgoingIsPending
    BY DEF PendingInv, TimelyInv, OutgoingIsPending
  <2>2. DOMAIN events = 1 .. Len(events)
    BY <2>1 DEF OrderedInv, Ordered, IsSeq
  <2>3. \A i \in DOMAIN events : events[i].type # "error"
    BY <2>1, <2>2 DEF Elems, Refuses
  <2> QED BY <2>1, <2>3 DEF OutgoingIsPending, OnePending, Resetting, SysReset
<1> QED BY <1>1, OwnPendingInductive, TimelyInductive, OrderedInductive, PTL

(***************************************************************************)
(* A command that waits for its requests returns when they are over.  In   *)
(* the simulator the helper of a CPU reset looks at the address of an      *)
(* event and not at what is pending: no other event is at that address.    *)
(***************************************************************************)
LEMMA RequestAddress ==
  ASSUME NEW call \in PlainCalls \cup RegionCalls, call # "drop",
         NEW region \in REGIONS \cup {NoRegion}, call \in RegionCalls => region \in REGIONS,
         NEW offset \in Nat, offset < CallLength(call, region), NEW id, NEW value,
         NEW r, r = RequestAt(call, region, offset, id, value), r.addr = RESET
  PROVE  call \in {"reset_cpu", "reset_system"}
<1>1. /\ region.addr \in Int /\ region.len \in Int
      /\ region \in REGIONS => region.addr >= 12 /\ region.len >= 1
  BY Regions
<1>2. PICK addr, c : addr = region.addr + offset /\ c = Chunk(addr, region.len - offset)
  OBVIOUS
<1>3. call \in RegionCalls => addr >= 12 /\ region.addr >= 12
  BY <1>1, <1>2
<1>4. CASE call \in {"write_region", "read_region"}
  <2>1. r.addr = addr
    BY <1>2, <1>4 DEF RequestAt, Request
  <2> QED BY <1>3, <1>4, <2>1 DEF RegionCalls, RESET
<1>5. CASE call \in {"send_read", "send_write"}
  <2>1. r.addr = region.addr
    BY <1>5 DEF RequestAt, Request
  <2> QED BY <1>3, <1>5, <2>1 DEF RegionCalls, RESET
<1>6. CASE call = "boot_cpu"
  <2>1. offset = 0 \/ offset = 1
    BY <1>6 DEF CallLength
  <2>2. r.addr \in {STATUS, BOOT}
    BY <1>6, <2>1 DEF RequestAt, Request
  <2> QED BY <2>2 DEF RESET, STATUS, BOOT
<1> QED BY <1>4, <1>5, <1>6 DEF PlainCalls, RegionCalls

\* Only the commands "read" and "write" do not wait (shell.rs).
LEMMA SendCalls ==
  ASSUME NEW cmd \in DOMAIN Script, NEW i \in 1 .. Len(Script[cmd]), Script[cmd][i] \in {"send_read", "send_write"}
  PROVE  cmd \in {"read", "write"}
<1>1. Segments \in Seq({"write_region"}) /\ Len(Segments) = SEGMENTS /\ SEGMENTS \in Nat \ {0}
  BY RegionsAssumption DEF Segments
<1>2. CASE cmd = "loadelf"
  <2>1. Script[cmd] = Segments
    BY <1>2 DEF Script, LoadElf
  <2> QED BY <1>1, <2>1
<1>3. CASE cmd = "reload"
  <2>1. Script[cmd] = ResetCpu \o Segments \o BootAt
    BY <1>3 DEF Script, Reload
  <2>2. ResetCpu \o Segments \o BootAt \in Seq({"reset_cpu", "write_region", "boot_cpu"})
    BY <1>1 DEF ResetCpu, BootAt
  <2>3. Script[cmd][i] \in {"reset_cpu", "write_region", "boot_cpu"}
    BY <2>1, <2>2
  <2> QED BY <2>3
<1>4. CASE cmd \in {"loadmem", "dumpmem", "memtest"}
  BY <1>4 DEF Script, LoadMem, DumpMem, MemTest
<1>5. CASE cmd \in {"connect_cpu", "connect_system", "reset", "hard_reset", "boot", "disconnect"}
  BY <1>5 DEF Script, ConnectCpu, ConnectSystem, ResetCpu, ResetSystem, BootAt
<1>6. DOMAIN Script = {"connect_cpu", "connect_system", "loadelf", "loadmem", "dumpmem", "memtest",
                       "read", "write", "reset", "hard_reset", "boot", "reload", "disconnect"}
  BY DEF Script
<1> QED BY <1>2, <1>3, <1>4, <1>5, <1>6

\* A request of the client is on its way.
Sending == main.at \in {"enqueue", "poll"}

CallInv ==
  Sending => /\ ~ByCommand /\ main.req.id \in 1 .. count.ids
             /\ main.req.addr = RESET <=> Call = "reset_cpu"
             /\ main.at = "poll" => Call \notin {"send_read", "send_write"}

\* What the pending request becomes.
LEMMA PendingSteps ==
  ASSUME IInv, [Next]_vars
  PROVE  \/ pending' \in {pending, None}
         \/ /\ Arm /\ pending = None /\ pending' = NextRequest /\ Route(NextRequest) # "invalid"
            /\ main' = [main EXCEPT !.at = "enqueue", !.req = NextRequest]
            /\ count' = [count EXCEPT !.ids = @ + 1]
         \/ Command /\ backend = "fpga" /\ ResetRequest(pending') /\ UNCHANGED main
<1>1. CASE Client
  <2>1. CASE Arm
    BY <2>1 DEF Arm, MayArm
  <2>2. CASE ~Arm
    BY <1>1, <2>2 DEF Client, Start, Enqueue, AskReset, Poll, IdlePoll, Disconnect, Join, Drain, GiveUpReset
  <2> QED BY <2>1, <2>2
<1>2. CASE Command
  <2>1. PICK c, r : c = Head(commands) /\ r = c.req
    OBVIOUS
  <2>2. CASE c.type = "reset" /\ FpgaReset(r)
    <3>1. c \in Elems(commands)
      <4>1. IsSeq(commands) /\ commands # << >>
        BY <1>2 DEF IInv, CommandsInv, Command
      <4> QED BY <2>1, <4>1, TailElems
    <3>2. ResetRequest(r)
      BY <2>1, <2>2, <3>1 DEF IInv, CommandsInv, Sent, Elems
    <3>3. PICK q : q = [r EXCEPT !.id = count.ids + 1]
      OBVIOUS
    <3>4. ResetRequest(q)
      BY <3>2, <3>3, Renumbered
    <3>5. \/ pending' \in {pending, None}
          \/ pending' = q /\ UNCHANGED main
      BY <2>2, <3>3 DEF FpgaReset
    <3> QED BY <1>2, <2>2, <3>4, <3>5 DEF FpgaReset
  <2>3. CASE LocalCommand(r) \/ RtlCommand(r) \/ SimCommand(r) \/ SimReset \/ UNCHANGED pending
    BY <2>3 DEF LocalCommand, RtlCommand, SimCommand, SimReset
  <2> QED BY <1>2, <2>1, <2>2, <2>3 DEF Command
<1>3. CASE ~Command /\ (Thread \/ Failure \/ CpuIssue \/ DevTake \/ DevServe)
  BY <1>3, ThreadFrame
<1>4. CASE UNCHANGED vars
  BY <1>4 DEF vars
<1> QED BY <1>1, <1>2, <1>3, <1>4 DEF Next, Thread

\* How the client comes to be where it waits for a request.
LEMMA SendingSteps ==
  ASSUME IInv, RequestsInv, [Next]_vars, Sending'
  PROVE  \/ UNCHANGED main
         \/ /\ Asks("enqueue") /\ Arm /\ main'.at = "enqueue" /\ main'.req = NextRequest
            /\ main'.cmd = main.cmd /\ main'.call = main.call /\ main'.region = main.region
            /\ main'.offset = main.offset /\ main'.data = main.data /\ main'.fresh = main.fresh
         \/ /\ Enqueue /\ main.at = "enqueue" /\ main'.at = "poll" /\ main'.req = main.req
            /\ main'.cmd = main.cmd /\ main'.call = main.call /\ main'.region = main.region
            /\ main'.offset = main.offset /\ main'.data = main.data /\ main'.fresh = main.fresh
            /\ bg.at # "ended" /\ UNCHANGED pending
            /\ Call \notin {"send_read", "send_write"}
<1>1. DOMAIN main = {"at", "cmd", "call", "offset", "data", "req", "region", "result", "fresh"} /\ ClientInv
  BY DEF IInv, ClientInv
<1>2. CASE Starts \/ Fails \/ Advances \/ Ends({"next", "enqueue", "poll"}, {"refused", "failed", "done"})
  <2>1. main'.at \in {"idle", "next", "gone"}
    BY <1>1, <1>2, StartFields, FailedFields, AdvanceFields, FinishFields DEF Fails, Advances, Ends
  <2> QED BY <2>1 DEF Sending
<1>3. CASE Asks("wait_reset") \/ Goes({"idle", "next"}, "join") \/ Goes({"wait_reset"}, "drain") \/ Leaves
  <2>1. DOMAIN Finish("done") = DOMAIN main
    BY <1>1, FinishFields
  <2>2. main'.at \in {"wait_reset", "join", "drain", "gone"}
    BY <1>1, <1>3, <2>1 DEF Asks, Goes, Leaves
  <2> QED BY <2>2 DEF Sending
<1>4. CASE Asks("enqueue") /\ Arm
  BY <1>1, <1>4 DEF Asks
<1>5. CASE Goes({"enqueue"}, "poll")
  <2>1. main.at = "enqueue" /\ main' = [main EXCEPT !.at = "poll"]
    BY <1>5 DEF Goes
  <2>2. main'.at = "poll" /\ main' # main
    BY <1>1, <2>1
  <2>3. Client
    <3>1. ~Client => UNCHANGED main \/ Reported
      BY ThreadFrame DEF Next, vars, client
    <3> QED BY <2>1, <2>2, <3>1 DEF Reported, ReportReset, Awaited
  <2>4. Enqueue
    <3>1. ~Starts
      BY <2>1, StartFields
    <3> QED BY <2>1, <2>3, <3>1 DEF Client, Starts, Arm, AskReset, Poll, IdlePoll, Disconnect, Join, Drain, GiveUpReset
  <2>5. bg.at # "ended" /\ UNCHANGED pending /\ Call \notin {"send_read", "send_write"}
    <3>1. Finish("failed").at = "idle" /\ Finish("done").at = "idle"
      BY <1>1, FinishFields
    <3> QED BY <2>2, <2>4, <3>1 DEF Enqueue
  <2> QED BY <1>1, <2>1, <2>4, <2>5
<1> QED BY <1>2, <1>3, <1>4, <1>5, MainSteps

LEMMA CallStep == IInv /\ RequestsInv /\ CallInv /\ [Next]_vars => CallInv'
<1> SUFFICES ASSUME IInv, RequestsInv, CallInv, [Next]_vars, Sending' PROVE CallInv'
  BY DEF CallInv
<1>1. /\ ClientInv /\ count.ids \in Nat /\ count'.ids \in Nat /\ count'.ids >= count.ids /\ UNCHANGED backend
      /\ DOMAIN count = {"ids", "commands", "faults", "botched", "cpu"}
  <2>1. UNCHANGED backend
    BY ClientFrame, ThreadFrame DEF Next, vars, fixed
  <2> QED BY <2>1, Counted DEF IInv, LinkInv, Shaped, RequestsInv, Counts
<1>2. CASE UNCHANGED main
  BY <1>1, <1>2 DEF CallInv, Sending, Call, ByCommand
<1>3. CASE /\ Asks("enqueue") /\ Arm /\ main'.at = "enqueue" /\ main'.req = NextRequest
           /\ main'.cmd = main.cmd /\ main'.call = main.call
  <2>1. Call' = Call /\ main.at = "next" /\ Call # "drop" /\ ~ByCommand /\ (ByCommand' <=> ByCommand)
    BY <1>1, <1>3 DEF Call, Asks, Arm, ByCommand
  <2>2. Route(NextRequest) # "invalid" /\ count' = [count EXCEPT !.ids = @ + 1]
    <3>1. Finish("refused").at = "idle"
      BY <1>1, FinishFields
    <3> QED BY <1>3, <3>1 DEF Arm
  <2>3. NextRequest.id = count.ids + 1
    <3>1. main.cmd \notin Connecting /\ Active
      BY <1>1, <2>1 DEF ClientInv, Active
    <3>2. count.commands \in Nat /\ budget.commands \in Nat /\ count.commands <= budget.commands
      BY <3>1, BudgetKnown DEF RequestsInv, Counts
    <3> QED BY <1>1, <2>1, <2>2, <3>2, NextMade
  <2>4. NextRequest.addr = RESET <=> Call = "reset_cpu"
    <3>1. main.cmd \notin Connecting /\ Active
      BY <1>1, <2>1 DEF ClientInv, Active
    <3>2. /\ Call \in PlainCalls \cup RegionCalls
          /\ Call \in RegionCalls => main.region \in REGIONS
      BY <1>1, <3>1, CallKnown
    <3>3. /\ main.region \in REGIONS \cup {NoRegion} /\ main.offset \in Nat
          /\ main.offset < CallLength(Call, main.region)
      BY <1>1, <2>1 DEF ClientInv
    <3>4. PICK r : r = RequestAt(Call, main.region, main.offset, count.ids + 1, count.commands)
      OBVIOUS
    <3>5. r.addr = RESET => Call \in {"reset_cpu", "reset_system"}
      BY <2>1, <3>2, <3>3, <3>4, RequestAddress
    <3>6. Call = "reset_cpu" => r.addr = RESET
      BY <3>4 DEF RequestAt, Request, RegionCalls
    <3> QED BY <2>1, <3>4, <3>5, <3>6 DEF NextRequest, ByCommand
  <2>5. count'.ids = count.ids + 1
    BY <1>1, <2>2
  <2> QED BY <1>1, <1>3, <2>1, <2>3, <2>4, <2>5 DEF CallInv
<1>4. CASE /\ main.at = "enqueue" /\ main'.at = "poll" /\ main'.req = main.req
           /\ main'.cmd = main.cmd /\ main'.call = main.call /\ Call \notin {"send_read", "send_write"}
  <2>1. Call' = Call /\ (ByCommand' <=> ByCommand)
    BY <1>1, <1>4 DEF Call, ByCommand
  <2> QED BY <1>1, <1>4, <2>1 DEF CallInv, Sending
<1> QED BY <1>2, <1>3, <1>4, SendingSteps

LEMMA InitCall == Init => CallInv
<1> SUFFICES ASSUME Init PROVE ~Sending
  BY DEF CallInv
<1>1. Idle.at = "idle" /\ \A x, y : [Idle EXCEPT !.at = "wait_reset", !.cmd = x, !.req = y].at = "wait_reset"
  BY DEF Idle
<1>2. CASE backend = "sim"
  BY <1>1, <1>2 DEF Init, Create, Sending
<1>3. CASE backend # "sim"
  <2>1. PICK startup \in Startups, left \in Leftovers : Connect(startup, left)
    BY <1>3 DEF Init
  <2> QED BY <1>1, <2>1 DEF Connect, Sending
<1> QED BY <1>2, <1>3

LEMMA CallInductive == Spec => []CallInv
BY InitCall, CallStep, Inductive, RequestsInductive, PTL DEF Spec

\* An event that concludes a request of the client for RESET.
AtReset(e) == e.type \in {"read", "write", "timeout"} /\ e.addr = RESET

OwnReset(e) == Sending /\ pending = None /\ main.req.addr = RESET /\ e.id = main.req.id

SimInv == backend = "sim" =>
  /\ pending # None /\ pending.addr = RESET => (Sending /\ main.req = pending) \/ bg.at = "ended"
  /\ \A e \in Elems(events) :
       /\ AtReset(e) => OwnReset(e) \/ (bg.at = "ended" /\ main.at # "poll")
       /\ e.type # "error" /\ (e.type = "fatal" => bg.at = "ended")
  /\ main.at \in {"wait_reset", "drain"} => pending = None

\* What the simulator's thread does to all that.
SimKeeps == UNCHANGED <<main, events, pending>>
SimReports == UNCHANGED <<events, pending>> /\ Reported /\ bg.at # "ended"
SimTells(e) == /\ events' = Append(events, e) /\ UNCHANGED main /\ pending # None /\ pending' = None
               /\ e.type \in {"read", "write", "timeout"} /\ e.id = pending.id /\ bg.at # "ended"
               /\ e.addr = pending.addr
SimStops == \E e : /\ events' = Append(events, e) /\ UNCHANGED <<main, pending>>
                   /\ e.type = "fatal" /\ bg'.at = "ended"

LEMMA SimSteps ==
  ASSUME IInv, backend = "sim", [Next]_vars, ~Client
  PROVE  /\ bg.at = "ended" => bg'.at = "ended"
         /\ SimKeeps \/ SimReports \/ (\E e : SimTells(e)) \/ SimStops
<1>1. /\ ThreadInv /\ bg.resetting = "no" /\ ~(bg.at = "settle")
      /\ DOMAIN bg = {"at", "resetting"}
  BY DEF IInv, ThreadInv, Resetting
<1>2. bg.at = "ended" => bg'.at = "ended"
  <2>1. CASE CpuIssue \/ DevTake \/ DevServe \/ UNCHANGED vars
    BY <2>1 DEF CpuIssue, DevTake, DevServe, vars
  <2>2. CASE Thread \/ Failure
    BY <2>2 DEF Thread, Failure, Command, NoCommand, FpgaTimeOut, SimTimeOut, NoTimeOut, RxPacket, TxPackets,
                SimLink, Response, FpgaCpu, SimNoResponse, Settle, PortError, SimulationError
  <2> QED BY <2>1, <2>2 DEF Next
<1>3. ASSUME NEW resp, NEW e, e = Answer(pending, resp), Emit(e), pending # None, pending' = None,
             UNCHANGED main, bg.at # "ended"
      PROVE  SimTells(e)
  <2>1. e.type \in {"read", "write"} /\ e.id = pending.id /\ e.addr = pending.addr
    BY <1>3 DEF Answer, Event
  <2> QED BY <1>3, <2>1 DEF Emit, SimTells
<1>4. ASSUME NEW e, e = Event("timeout", pending, NoResponse), Emit(e), pending # None, pending' = None,
             UNCHANGED main, bg.at # "ended"
      PROVE  SimTells(e)
  <2>1. e.type = "timeout" /\ e.id = pending.id /\ e.addr = pending.addr
    BY <1>4 DEF Event
  <2> QED BY <1>4, <2>1 DEF Emit, SimTells
<1>5. CASE Command
  <2>1. PICK c, r : c = Head(commands) /\ r = c.req
    OBVIOUS
  <2>2. CASE SimCommand(r)
    <3>1. UNCHANGED main
      BY <2>2 DEF SimCommand
    <3>2. CASE handler.outgoing_request = None /\ direct = NoResponse
      <4>1. UNCHANGED <<pending, events>>
        BY <2>2, <3>2 DEF SimCommand
      <4> QED BY <1>2, <3>1, <4>1 DEF SimKeeps
    <3>3. CASE ~(handler.outgoing_request = None /\ direct = NoResponse)
      <4>1. /\ pending' = None
            /\ IF pending # None THEN Emit(Event("timeout", pending, NoResponse)) ELSE UNCHANGED events
        BY <2>2, <3>3 DEF SimCommand
      <4>2. bg.at # "ended"
        BY <1>5 DEF Command
      <4> QED BY <1>4, <3>1, <4>1, <4>2 DEF SimKeeps
    <3> QED BY <3>2, <3>3
  <2>3. CASE SimReset
    <3>1. Reported /\ UNCHANGED <<events, pending>>
      BY <2>3 DEF SimReset, Reported
    <3> QED BY <1>2, <1>5, <3>1 DEF Command, SimReports
  <2>4. CASE UNCHANGED <<main, pending, events>>
    BY <1>2, <2>4 DEF SimKeeps
  <2>5. ~LocalCommand(r) /\ ~RtlCommand(r) /\ ~FpgaReset(r)
    BY DEF LocalCommand, RtlCommand, FpgaReset
  <2> QED BY <1>2, <1>5, <2>1, <2>2, <2>3, <2>4, <2>5 DEF Command
<1>6. CASE SimTimeOut
  <2>1. /\ pending # None /\ pending' = None /\ UNCHANGED main /\ bg.at # "ended"
        /\ Emit(Event("timeout", pending, NoResponse))
    BY <1>6 DEF SimTimeOut, Expired, client
  <2> QED BY <1>2, <1>4, <2>1
<1>7. CASE Response
  <2>1. /\ pending # None /\ pending' = None /\ UNCHANGED main /\ bg.at # "ended"
        /\ Emit(Answer(pending, Received))
    BY <1>1, <1>7 DEF Response
  <2> QED BY <1>2, <1>3, <2>1
<1>8. CASE SimulationError
  <2>1. PICK e : e = Event("fatal", None, NoResponse)
    OBVIOUS
  <2>2. e.type = "fatal"
    BY <2>1, EventParts
  <2> QED BY <1>1, <1>2, <1>8, <2>1, <2>2 DEF SimulationError, SimStops, Emit, client
<1>9. CASE NoCommand \/ NoTimeOut \/ SimLink \/ SimNoResponse \/ CpuIssue \/ DevTake \/ DevServe \/ UNCHANGED vars
  BY <1>2, <1>9 DEF NoCommand, NoTimeOut, SimLink, SimNoResponse, CpuIssue, DevTake, DevServe, vars, client, SimKeeps
<1>10. /\ ~FpgaTimeOut /\ ~RxPacket /\ ~TxPackets /\ ~FpgaCpu /\ ~Settle
       /\ \A type : ~PortError(type)
  BY <1>1 DEF FpgaTimeOut, RxPacket, TxPackets, FpgaCpu, Settle, PortError
<1> QED BY <1>5, <1>6, <1>7, <1>8, <1>9, <1>10 DEF Next, Thread, Failure

\* No two events are for the same request.
LEMMA HeadAlone ==
  ASSUME OrderedInv, events # << >>, NEW e \in Elems(Tail(events)), e.id # 0
  PROVE  Head(events).id < e.id
<1>1. PICK s, u : s = events /\ u = Tail(s)
  OBVIOUS
<1>2. /\ Ordered(s, pending, count.ids) /\ IsSeq(s) /\ s # << >>
  BY <1>1 DEF OrderedInv, Ordered
<1>3. /\ IsSeq(u) /\ Len(s) \in Nat /\ Len(s) >= 1 /\ Len(u) = Len(s) - 1 /\ Head(s) = s[1]
      /\ \A i \in 1 .. Len(s) - 1 : u[i] = s[i + 1]
  BY <1>1, <1>2, TailSeq DEF IsSeq
<1>4. PICK i \in 1 .. Len(u) : e = u[i]
  BY <1>1 DEF Elems
<1>5. 1 \in 1 .. Len(s) /\ i + 1 \in 1 .. Len(s) /\ 1 < i + 1 /\ e = s[i + 1]
  BY <1>3, <1>4
<1>6. s[1].id < s[i + 1].id
  BY <1>2, <1>5 DEF Ordered
<1> QED BY <1>1, <1>3, <1>5, <1>6

\* The client takes an event of the simulator's.
LEMMA SimPoll ==
  ASSUME IInv, CallInv, OrderedInv, SimInv, backend = "sim", Poll
  PROVE  /\ pending # None /\ pending.addr = RESET =>
              UNCHANGED main \/ bg.at = "ended"
         /\ \/ UNCHANGED main
            \/ /\ main'.at \in {"idle", "next"}
               /\ \A e \in Elems(events') : AtReset(e) => bg.at = "ended"
         /\ main'.at = "idle" /\ main'.result = "done" => pending = None
<1>1. /\ main.at = "poll" /\ Sending /\ events # << >> /\ events' = Tail(events) /\ ClientInv
      /\ IsSeq(events)
  BY DEF Poll, Sending, IInv, OrderedInv, Ordered
<1>2. PICK e : e = Head(events)
  OBVIOUS
<1>3. e \in Elems(events) /\ Elems(Tail(events)) \subseteq Elems(events)
  BY <1>1, <1>2, TailElems
<1>4. main.req.id \in 1 .. count.ids /\ (main.req.addr = RESET => Call = "reset_cpu")
  BY <1>1 DEF CallInv
<1>5. AtReset(e) => pending = None /\ main.req.addr = RESET /\ e.id = main.req.id
  BY <1>1, <1>3 DEF SimInv, OwnReset
<1>6. main.req.addr # RESET => \A x \in Elems(events') : ~AtReset(x)
  BY <1>1, <1>3 DEF SimInv, OwnReset
<1>7. AtReset(e) => \A x \in Elems(events') : ~AtReset(x)
  <2>1. SUFFICES ASSUME AtReset(e), NEW x \in Elems(Tail(events)), AtReset(x) PROVE FALSE
    BY <1>1
  <2>2. e.id = main.req.id /\ x.id = main.req.id
    BY <1>1, <1>3, <1>5, <2>1 DEF SimInv, OwnReset
  <2>3. x.id \in Nat /\ x.id # 0 /\ e.id = x.id
    BY <1>4, <2>2
  <2>4. e.id < x.id
    BY <1>1, <1>2, <2>1, <2>3, HeadAlone
  <2> QED BY <2>3, <2>4
<1>8. pending # None /\ pending.addr = RESET => main.req.addr = RESET \/ bg.at = "ended"
  BY DEF SimInv
<1>9. CASE Matches(Call, main.req, e, pending)
  <2>1. IF Unacceptable(Call, main.req, e) THEN main' = Finish("refused") ELSE main' = Advance(e.data)
    BY <1>2, <1>9 DEF Poll
  <2>2. e.type \in {"read", "write"} /\ e.addr = main.req.addr /\ (Call # "reset_cpu" => pending = None)
    BY <1>9 DEF Matches
  <2>3. main.req.addr = RESET => AtReset(e)
    BY <2>2 DEF AtReset
  <2>4. Call = "reset_cpu" => main.req.addr = RESET \/ pending = None
    <3>1. Call = "reset_cpu" /\ pending # None => e.type \in {"read", "write"} /\ e.addr = main.req.addr
      BY <2>2
    <3>2. Call = "reset_cpu" => main.req.addr = RESET
      BY <1>1 DEF CallInv
    <3> QED BY <3>2
  <2>5. pending = None
    BY <1>5, <2>2, <2>3, <2>4
  <2>6. \A x \in Elems(events') : ~AtReset(x)
    BY <1>6, <1>7, <2>3
  <2>7. main'.at \in {"idle", "next"}
    BY <1>1, <2>1, FinishFields, AdvanceFields
  <2> QED BY <2>5, <2>6, <2>7
<1>10. CASE /\ ~Matches(Call, main.req, e, pending)
            /\ e.type \in {"error", "fatal"} \/ (e.type = "timeout" /\ e.addr = main.req.addr)
  <2>1. main' = Finish("failed")
    BY <1>2, <1>10 DEF Poll
  <2>2. main'.at = "idle" /\ main'.result = "failed"
    BY <1>1, <2>1, FinishFields
  <2>3. CASE e.type \in {"error", "fatal"}
    <3>1. bg.at = "ended"
      BY <1>3, <2>3 DEF SimInv
    <3> QED BY <2>2, <3>1
  <2>4. CASE e.type = "timeout" /\ e.addr = main.req.addr
    <3>1. main.req.addr = RESET => AtReset(e)
      BY <2>4 DEF AtReset
    <3> QED BY <1>5, <1>6, <1>7, <1>8, <2>2, <3>1
  <2> QED BY <1>10, <2>3, <2>4
<1>11. CASE /\ ~Matches(Call, main.req, e, pending)
            /\ ~(e.type \in {"error", "fatal"} \/ (e.type = "timeout" /\ e.addr = main.req.addr))
  <2>1. main' = main
    BY <1>2, <1>11 DEF Poll
  <2> QED BY <1>1, <2>1
<1> QED BY <1>9, <1>10, <1>11

\* Where the client goes when its command ends or it waits.
LEMMA PlaceFields ==
  ASSUME ClientInv
  PROVE  /\ \A x : main' = Finish(x) => main'.at = "idle" /\ main'.result = x /\ main'.cmd = main.cmd
         /\ \A x : main' = [main EXCEPT !.at = x] => main'.at = x
         /\ \A x, r : main' = [main EXCEPT !.at = x, !.req = r] => main'.at = x /\ main'.req = r
<1>1. DOMAIN main = {"at", "cmd", "call", "offset", "data", "req", "region", "result", "fresh"}
  BY DEF ClientInv
<1>2. \A x : main' = Finish(x) => main'.at = "idle" /\ main'.result = x /\ main'.cmd = main.cmd
  BY FinishFields
<1> QED BY <1>1, <1>2

\* What the client does when it is not about to send a request.
LEMMA ClientSteps ==
  ASSUME ClientInv, Client, ~Arm, ~Enqueue, ~AskReset, ~Poll
  PROVE  /\ UNCHANGED pending /\ (events' = events \/ (events # << >> /\ events' = Tail(events)))
         /\ ~Sending /\ ~Sending'
         /\ main'.at \in {"wait_reset", "drain"} => main' = main
         /\ main'.at = "idle" /\ main'.result = "done" => main' = main \/ main.at = "drain"
<1>1. CASE Starts
  BY <1>1, StartFields DEF Sending
<1>2. CASE IdlePoll
  <2>1. main' = main \/ main'.at = "join"
    BY <1>2 DEF IdlePoll, ClientInv
  <2> QED BY <1>2, <2>1 DEF IdlePoll, Sending
<1>3. CASE Disconnect
  <2>1. main'.at = "join"
    BY <1>3 DEF Disconnect, ClientInv
  <2> QED BY <1>3, <2>1 DEF Disconnect, Sending
<1>4. CASE Join
  <2>1. PICK f : f = Finish("done")
    OBVIOUS
  <2>2. DOMAIN f = {"at", "cmd", "call", "offset", "data", "req", "region", "result", "fresh"}
    BY <2>1, FinishFields DEF ClientInv
  <2>3. main'.at = "gone"
    BY <1>4, <2>1, <2>2 DEF Join
  <2> QED BY <1>4, <2>3 DEF Join, Sending
<1>5. CASE Drain
  <2>1. main' = main \/ main' = Advance(<< >>)
    BY <1>5 DEF Drain
  <2>2. main' = main \/ main'.at \in {"idle", "next"}
    BY <2>1, MainAt
  <2> QED BY <1>5, <2>2 DEF Drain, Sending
<1>6. CASE GiveUpReset
  <2>1. main'.at \in {"idle", "gone"} /\ main'.result = "failed"
    BY <1>6, FailedFields DEF GiveUpReset
  <2> QED BY <1>6, <2>1 DEF GiveUpReset, Sending
<1> QED BY <1>1, <1>2, <1>3, <1>4, <1>5, <1>6 DEF Client, Starts

LEMMA SimStep == IInv /\ CallInv /\ OrderedInv /\ SimInv /\ [Next]_vars => SimInv'
<1> SUFFICES ASSUME IInv, CallInv, OrderedInv, SimInv, [Next]_vars, backend' = "sim" PROVE SimInv'
  BY DEF SimInv
<1>1. ClientInv /\ backend = "sim" /\ IsSeq(events)
  <2>1. UNCHANGED backend
    BY ClientFrame, ThreadFrame DEF Next, vars, fixed
  <2> QED BY <2>1 DEF IInv, OrderedInv, Ordered
<1>2. CASE ~Client
  <2>1. /\ bg.at = "ended" => bg'.at = "ended"
        /\ SimKeeps \/ SimReports \/ (\E e : SimTells(e)) \/ SimStops
    BY <1>1, <1>2, SimSteps
  <2>2. CASE SimKeeps
    BY <1>1, <2>1, <2>2 DEF SimKeeps, SimInv, OwnReset, Sending
  <2>3. CASE SimReports
    <3>1. CASE main' = main
      BY <1>1, <2>1, <2>3, <3>1 DEF SimReports, SimInv, OwnReset, Sending
    <3>2. CASE main' # main
      <4>1. main.at = "wait_reset" /\ bg.at # "ended" /\ UNCHANGED <<events, pending>>
        BY <1>1, <2>3, <3>2, ReportAt DEF SimReports
      <4>2. pending = None /\ \A e \in Elems(events) : ~AtReset(e)
        BY <1>1, <4>1 DEF SimInv, OwnReset, Sending
      <4> QED BY <1>1, <2>1, <4>1, <4>2 DEF SimInv
    <3> QED BY <3>1, <3>2
  <2>4. ASSUME NEW e, SimTells(e) PROVE SimInv'
    <3>1. Elems(events') = Elems(events) \cup {e}
      BY <1>1, <2>4, AppendElems DEF SimTells
    <3>2. \A x \in Elems(events) : ~AtReset(x) /\ x.type \notin {"error", "fatal"}
      BY <1>1, <2>4 DEF SimInv, SimTells, OwnReset
    <3>3. AtReset(e) => OwnReset(e)'
      BY <1>1, <2>4 DEF AtReset, OwnReset, SimInv, SimTells, Sending
    <3>4. e.type \notin {"error", "fatal"} /\ pending' = None
      BY <2>4 DEF SimTells
    <3> QED BY <3>1, <3>2, <3>3, <3>4 DEF SimInv
  <2>5. CASE SimStops
    <3>1. PICK e : /\ events' = Append(events, e) /\ UNCHANGED <<main, pending>>
                   /\ e.type = "fatal" /\ bg'.at = "ended"
      BY <2>5 DEF SimStops
    <3>2. Elems(events') = Elems(events) \cup {e} /\ ~AtReset(e) /\ e.type # "error"
      BY <1>1, <3>1, AppendElems DEF AtReset
    <3> QED BY <1>1, <3>1, <3>2 DEF SimInv, OwnReset, Sending
  <2> QED BY <2>1, <2>2, <2>3, <2>4, <2>5
<1>3. CASE Client
  <2>1. UNCHANGED bg /\ Elems(events') \subseteq Elems(events)
    <3>1. events' = events \/ (events # << >> /\ events' = Tail(events))
      BY <1>1, <1>3, ClientSteps DEF Arm, Enqueue, AskReset, Poll
    <3> QED BY <1>1, <1>3, <3>1, ClientFrame, TailElems
  <2>2. CASE Client /\ ~Arm /\ ~Enqueue /\ ~AskReset /\ ~Poll
    <3>1. main'.at # "poll"
      BY <1>1, <2>2, ClientSteps DEF Sending
    <3> QED BY <1>1, <2>1, <2>2, <3>1, ClientSteps DEF SimInv, OwnReset
  <2>3. CASE Arm
    <3>1. main.at = "next" /\ UNCHANGED events
      BY <2>3 DEF Arm
    <3>2. \/ pending' = NextRequest /\ main' = [main EXCEPT !.at = "enqueue", !.req = NextRequest]
          \/ UNCHANGED pending /\ main' = Finish("refused")
      BY <2>3 DEF Arm
    <3>3. \/ pending' = main'.req /\ main'.at = "enqueue"
          \/ UNCHANGED pending /\ main'.at = "idle"
      BY <1>1, <3>2, PlaceFields
    <3> QED BY <1>1, <2>1, <3>1, <3>3 DEF SimInv, OwnReset, Sending
  <2>4. CASE Enqueue
    <3>1. /\ main.at = "enqueue" /\ UNCHANGED events
          /\ \/ bg.at = "ended" /\ pending' = None /\ main' = Finish("failed")
             \/ /\ bg.at # "ended" /\ UNCHANGED pending
                /\ main' = IF Call \in {"send_read", "send_write"} THEN Finish("done")
                           ELSE [main EXCEPT !.at = "poll"]
      BY <2>4 DEF Enqueue
    <3>2. CASE bg.at = "ended" /\ pending' = None /\ main' = Finish("failed")
      <4>1. main'.at = "idle"
        BY <1>1, <3>2, FinishFields
      <4> QED BY <1>1, <2>1, <3>1, <3>2, <4>1 DEF SimInv, OwnReset, Sending
    <3>3. CASE bg.at # "ended" /\ UNCHANGED pending /\ Call \in {"send_read", "send_write"} /\ main' = Finish("done")
      <4>1. main'.at = "idle"
        BY <1>1, <3>3, FinishFields
      <4>2. main.req.addr # RESET
        BY <3>1, <3>3 DEF CallInv, Sending
      <4> QED BY <1>1, <2>1, <3>1, <3>3, <4>1, <4>2 DEF SimInv, OwnReset, Sending
    <3>4. CASE bg.at # "ended" /\ UNCHANGED pending /\ main' = [main EXCEPT !.at = "poll"]
      <4>1. main'.at = "poll" /\ main'.req = main.req
        BY <1>1, <3>4 DEF ClientInv
      <4> QED BY <1>1, <2>1, <3>1, <3>4, <4>1 DEF SimInv, OwnReset, Sending
    <3> QED BY <3>1, <3>2, <3>3, <3>4
  <2>5. CASE AskReset
    <3>1. main.at = "next" /\ UNCHANGED <<events, pending>>
      BY <2>5 DEF AskReset
    <3>2. \/ main' = Finish("refused") \/ main' = Finish("failed")
          \/ pending = None /\ main' = [main EXCEPT !.at = "wait_reset", !.req = NextRequest]
      BY <2>5 DEF AskReset
    <3>3. main'.at = "idle" \/ (pending = None /\ main'.at = "wait_reset")
      BY <1>1, <3>2, PlaceFields
    <3> QED BY <1>1, <2>1, <3>1, <3>3 DEF SimInv, OwnReset, Sending
  <2>6. CASE Poll
    <3>1. UNCHANGED pending /\ main.at = "poll"
      BY <2>6 DEF Poll
    <3>2. /\ pending # None /\ pending.addr = RESET => UNCHANGED main \/ bg.at = "ended"
          /\ \/ UNCHANGED main
             \/ /\ main'.at \in {"idle", "next"}
                /\ \A e \in Elems(events') : AtReset(e) => bg.at = "ended"
      BY <1>1, <2>6, SimPoll
    <3>3. CASE UNCHANGED main
      BY <1>1, <2>1, <3>1, <3>3 DEF SimInv, OwnReset, Sending
    <3>4. CASE main'.at \in {"idle", "next"} /\ \A e \in Elems(events') : AtReset(e) => bg.at = "ended"
      <4>1. pending # None /\ pending.addr = RESET => bg.at = "ended"
        BY <3>1, <3>2, <3>4
      <4> QED BY <1>1, <2>1, <3>1, <3>4, <4>1 DEF SimInv
    <3> QED BY <3>2, <3>3, <3>4
  <2> QED BY <1>3, <2>2, <2>3, <2>4, <2>5, <2>6
<1> QED BY <1>2, <1>3

LEMMA SimInductive == Spec => []SimInv
<1>1. Init => SimInv
  <2>1. SUFFICES ASSUME Init, backend = "sim" PROVE SimInv
    BY DEF SimInv
  <2>2. pending = None /\ events = << >>
    BY <2>1 DEF Init, Create
  <2> QED BY <2>2, EmptyElems DEF SimInv
<1> QED BY <1>1, SimStep, Inductive, CallInductive, OrderedInductive, PTL DEF Spec

\* Nothing of a command's is pending: what may be is a reset that the client has given up.
Clear == pending = None \/ (backend = "fpga" /\ pending.addr = RESET)

HelpInv == /\ main.at \in {"wait_reset", "drain"} => Clear
           /\ HelpersInStep

LEMMA HelpStep == IInv /\ RequestsInv /\ CallInv /\ OrderedInv /\ SimInv /\ HelpInv /\ [Next]_vars => HelpInv'
<1> SUFFICES ASSUME IInv, RequestsInv, CallInv, OrderedInv, SimInv, HelpInv, [Next]_vars PROVE HelpInv'
  OBVIOUS
<1>1. ClientInv /\ UNCHANGED backend /\ backend \in {"fpga", "sim"}
  <2>1. UNCHANGED backend
    BY ClientFrame, ThreadFrame DEF Next, vars, fixed
  <2> QED BY <2>1 DEF IInv, ThreadInv
<1>2. CASE ~Client
  <2>1. Clear => Clear'
    <3>1. \A r : ResetRequest(r) => r.addr = RESET
      BY DEF ResetRequest, Request
    <3> QED BY <1>1, <1>2, <3>1, PendingSteps DEF Clear, Client
  <2>2. main' = main \/ main.at = "wait_reset"
    BY <1>1, <1>2, ThreadFrame, ReportAt DEF Next, vars, client
  <2> QED BY <2>1, <2>2 DEF HelpInv, HelpersInStep, Clear
<1>3. CASE Client
  <2>1. CASE ~Arm /\ ~Enqueue /\ ~AskReset /\ ~Poll
    BY <1>1, <1>3, <2>1, ClientSteps DEF HelpInv, HelpersInStep, Clear
  <2>2. CASE Arm
    <3>1. \/ main' = [main EXCEPT !.at = "enqueue", !.req = NextRequest]
          \/ main' = Finish("refused")
      BY <2>2 DEF Arm
    <3>2. main'.at = "enqueue" \/ (main'.result = "refused" /\ main'.at = "idle")
      BY <1>1, <3>1, PlaceFields
    <3> QED BY <3>2 DEF HelpInv, HelpersInStep
  <2>3. CASE Enqueue
    <3>1. /\ main.at = "enqueue"
          /\ \/ main' = Finish("failed") \/ main' = [main EXCEPT !.at = "poll"]
             \/ Call \in {"send_read", "send_write"} /\ main' = Finish("done")
      BY <2>3 DEF Enqueue
    <3>2. \/ main'.at = "idle" /\ main'.result = "failed"
          \/ main'.at = "poll"
          \/ Call \in {"send_read", "send_write"} /\ main'.at = "idle" /\ main'.cmd = main.cmd
      BY <1>1, <3>1, PlaceFields
    <3>3. Call \in {"send_read", "send_write"} => main.cmd \in {"read", "write"}
      BY <1>1, <3>1, SendCalls DEF ClientInv, Active, Call
    <3> QED BY <3>2, <3>3 DEF HelpInv, HelpersInStep
  <2>4. CASE AskReset
    <3>1. /\ UNCHANGED pending
          /\ \/ main' = Finish("refused") \/ main' = Finish("failed")
             \/ pending = None /\ main' = [main EXCEPT !.at = "wait_reset", !.req = NextRequest]
      BY <2>4 DEF AskReset
    <3>2. \/ main'.at = "idle" /\ main'.result \in {"refused", "failed"}
          \/ pending = None /\ main'.at = "wait_reset"
      BY <1>1, <3>1, PlaceFields
    <3> QED BY <3>1, <3>2 DEF HelpInv, HelpersInStep, Clear
  <2>5. CASE Poll
    <3>1. UNCHANGED pending /\ main.at = "poll" /\ Sending
      BY <2>5 DEF Poll, Sending
    <3>2. CASE backend = "sim"
      BY <1>1, <2>5, <3>1, <3>2, SimPoll DEF HelpInv, HelpersInStep
    <3>3. CASE backend = "fpga"
      <4>1. Call # "reset_cpu"
        BY <3>1, <3>3 DEF CallInv, ByCommand
      <4>2. PICK e : e = Head(events)
        OBVIOUS
      <4>3. CASE Matches(Call, main.req, e, pending)
        <5>1. pending = None
          BY <4>1, <4>3 DEF Matches
        <5>2. main' = Finish("refused") \/ main' = Advance(e.data)
          BY <2>5, <4>2, <4>3 DEF Poll
        <5>3. main'.at \in {"idle", "next"}
          BY <1>1, <5>2, MainAt
        <5> QED BY <3>1, <5>1, <5>3 DEF HelpInv, HelpersInStep
      <4>4. CASE ~Matches(Call, main.req, e, pending)
        <5>1. main' = Finish("failed") \/ main' = main
          BY <2>5, <4>2, <4>4 DEF Poll
        <5>2. (main'.at = "idle" /\ main'.result = "failed") \/ main' = main
          BY <1>1, <5>1, FinishFields
        <5> QED BY <3>1, <5>2 DEF HelpInv, HelpersInStep
      <4> QED BY <4>3, <4>4
    <3> QED BY <1>1, <3>2, <3>3
  <2> QED BY <1>3, <2>1, <2>2, <2>3, <2>4, <2>5
<1> QED BY <1>2, <1>3

LEMMA InitHelp == Init => HelpInv
<1> SUFFICES ASSUME Init PROVE HelpInv
  OBVIOUS
<1>1. Idle.at = "idle" /\ Idle.result = "none" /\ Idle.cmd = "none"
  BY DEF Idle
<1>2. CASE backend = "sim"
  BY <1>1, <1>2 DEF Init, Create, HelpInv, HelpersInStep
<1>3. CASE backend # "sim"
  <2>1. backend = "fpga"
    BY <1>3, RuntimeAssumption DEF Init
  <2>2. PICK startup \in Startups, left \in Leftovers : Connect(startup, left)
    BY <1>3 DEF Init
  <2>3. PICK r : r = RequestAt(Script[startup][1], NoRegion, 0, 1, 0)
    OBVIOUS
  <2>4. main = IF startup = "none" THEN Idle ELSE [Idle EXCEPT !.at = "wait_reset", !.cmd = startup, !.req = r]
    BY <2>2, <2>3 DEF Connect
  <2>5. pending = IF startup = "connect_cpu" THEN r ELSE None
    BY <2>2, <2>3 DEF Connect
  <2>6. main = Idle \/ main.at = "wait_reset"
    BY <2>4 DEF Idle
  <2>7. startup = "connect_cpu" => r.addr = RESET
    <3>1. startup = "connect_cpu" => Script[startup][1] = "start_cpu"
      BY DEF Script, ConnectCpu
    <3> QED BY <2>3, <3>1 DEF RequestAt, Request
  <2>8. pending = None \/ pending.addr = RESET
    BY <2>5, <2>7
  <2> QED BY <1>1, <2>1, <2>6, <2>8 DEF HelpInv, HelpersInStep, Clear
<1> QED BY <1>2, <1>3

LEMMA HelpInductive == Spec => []HelpInv
BY InitHelp, HelpStep, Inductive, RequestsInductive, CallInductive, OrderedInductive, SimInductive, PTL DEF Spec

\* A command that waits for its requests returns when none of them is pending, whatever
\* times out or fails (lib.rs:440-760, wait for the event and for the lock to be free).
THEOREM HelpersReturn == Spec => []HelpersInStep
<1>1. HelpInv => HelpersInStep
  BY DEF HelpInv
<1> QED BY <1>1, HelpInductive, PTL

\* The two threads and the handler agree on the one request of the host under way, and
\* conclude it once (fpga.rs:255-436, sim.rs:180-265, lib.rs:440-760).
THEOREM HandlerCorrect == Spec => []HandlerInv
<1>1. TypeOK /\ OneOutcome /\ OutgoingIsPending /\ HelpersInStep => HandlerInv
  BY DEF HandlerInv
<1> QED BY <1>1, TypeCorrect, ConcludedOnce, OutgoingPending, HelpersReturn, PTL

(***************************************************************************)
(* A command does what it says. As long as nothing fails, and no old event *)
(* is left over at its start, a command of the client is refused or brings *)
(* about its effect: what is loaded is in memory, what is dumped is what   *)
(* memory holds, a memory test passes, a booted core runs, a reset one     *)
(* does not, and a system reset leaves nothing of what went before.        *)
(***************************************************************************)

\* What has been proved of every state.
Ground == /\ IInv /\ RequestsInv /\ OwnInv /\ PendingInv /\ OrderedInv /\ TimelyInv /\ CallInv /\ SimInv
          /\ HelpInv

LEMMA Grounded == Spec => []Ground
BY Inductive, RequestsInductive, OwnPendingInductive, OrderedInductive, TimelyInductive, CallInductive,
   SimInductive, HelpInductive, PTL DEF Ground

(***************************************************************************)
(* Where the client is, and what it waits for.                             *)
(***************************************************************************)
\* A request of the client is that of its place in its call.
OffsetInv ==
  Sending => /\ Call # "drop" /\ main.offset < CallLength(Call, main.region)
             /\ main.req = RequestAt(Call, main.region, main.offset, main.req.id, count.commands)

\* A reset under way, or still to be taken, is the one that the client waits for.
KindInv == InTime =>
  /\ \A c \in Elems(commands) : c.type = "reset" =>
       /\ Call = IF c.req.value = RESET_SYSTEM THEN "reset_system" ELSE "reset_cpu"
       /\ Call = "reset_cpu" => backend = "fpga"
  /\ bg.resetting = "cpu" => Call \in {"reset_cpu", "start_cpu"} /\ pending.value = RESET_CPU
  /\ Resetting => Call \in {"reset_system", "start_system"}

\* Nothing else is under way once a command has made its first request; before that it may
\* be what "read" or "write" has left.
Comparing == main.cmd \in {"dumpmem", "memtest"}

AloneInv == InTime =>
  /\ main.at = "poll" /\ pending # None => pending = main.req
  /\ main.at = "next" /\ (Comparing \/ main.call > 1 \/ main.offset > 0) => pending = None
  /\ main.at = "drain" => pending = None /\ Call = "reset_system"
  /\ main.at = "idle" /\ main.result = "done" /\ main.cmd \notin {"read", "write"} => pending = None

(***************************************************************************)
(* What an answered request has done.                                      *)
(***************************************************************************)
Did(r) == r.write => /\ r.addr \in Memory => \A a \in Bytes(r) : mem[a] = r.value
                     /\ r.addr = BOOT => ~dev.booting
                     /\ r.addr = RESET /\ r.value = RESET_CPU => dev.booting

Shown(r, data) == Did(r) /\ (~r.write /\ r.addr \in Memory => data = ReadOut(mem, r))

AnswersShown(h, u) ==
  /\ \A x \in Elems(u) : x.type = "host_resp" /\ x.req = h.outgoing_request => Shown(x.req, x.data)
  /\ h.outgoing_response # NoResponse => Shown(h.outgoing_response.req, h.outgoing_response.data)

ShownInv == InTime =>
  /\ ~Resetting => AnswersShown(handler, toHost)
  /\ direct # NoResponse => Shown(direct.req, direct.data)
  /\ main.at = "poll" /\ pending = None => Did(main.req)

\* A reset of the system is in the handler, on its way, in hand, or done.
RestartInv == InTime =>
  /\ Resetting /\ bg.at \in {"timeout", "link"} => SysReset(handler.outgoing_request) /\ ~handler.tx_started
  /\ Past => \/ dev = Booting /\ toDev = << >>
             \/ SysReset(dev.request)
             \/ \E i \in 1 .. Len(toDev) : IsReset(toDev[i])

\* It leaves nothing of what went before.
FreshInv ==
  InTime /\ \/ main.at = "drain"
            \/ main.at = "idle" /\ main.result = "done" /\ main.cmd \in {"hard_reset", "connect_system"}
    => Fresh

(***************************************************************************)
(* How far a command has come.                                             *)
(***************************************************************************)
WrittenTo(n) == \A a \in main.region.addr .. main.region.addr + n - 1 : mem[a] = count.commands
HasRead(n) == /\ IsSeq(main.data) /\ Len(main.data) = n
              /\ \A i \in 1 .. n : main.data[i] = mem[main.region.addr + i - 1]

WroteBefore == \E k \in 1 .. main.call - 1 : Script[main.cmd][k] = "write_region"
ReadTo == IF Call = "read_region" THEN main.offset ELSE 0

ProgressInv == InTime /\ Active /\ main.cmd \notin Connecting =>
  /\ Call = "write_region" => WrittenTo(main.offset)
  /\ WroteBefore => WrittenTo(main.region.len)
  /\ main.fresh /\ Comparing => HasRead(ReadTo)

\* The events that a comparing command finds are those of its own requests.
StaleInv == InTime /\ main.fresh /\ Comparing /\ main.at \in {"next", "enqueue", "poll"} =>
  \A e \in Elems(events) : e.type \in {"read", "write"} =>
    /\ main.at = "poll" /\ pending = None /\ e.id = main.req.id
    /\ e.type = "read" => ~main.req.write /\ e.data = ReadOut(mem, main.req)

\* What holds at once of a step in time.
LEMMA InTimeStep ==
  ASSUME Ground, [Next]_vars, InTime'
  PROVE  /\ InTime /\ OnePending /\ ~count.botched
         /\ ~FpgaTimeOut /\ ~SimTimeOut /\ ~Failure
         /\ \A e \in Elems(events) : ~Refuses(e.type)
         /\ ClientInv /\ CommandsInv /\ ThreadInv /\ LinkInv /\ Shaped
         /\ DOMAIN main = {"at", "cmd", "call", "offset", "data", "req", "region", "result", "fresh"}
         /\ UNCHANGED backend
<1>1. IInv /\ LinkInv /\ PendingInv /\ TimelyInv
  BY DEF Ground, IInv
<1>2. InTime /\ ~FpgaTimeOut /\ ~SimTimeOut /\ ~Failure
  BY <1>1, Faults
<1>3. UNCHANGED backend
  BY ClientFrame, ThreadFrame DEF Next, vars, fixed
<1>4. ~count.botched
  BY <1>1, <1>2 DEF LinkInv
<1> QED BY <1>1, <1>2, <1>3, <1>4 DEF PendingInv, TimelyInv, IInv, LinkInv, ClientInv

\* Requests are numbered in the order they are made, and commands as they begin.
LEMMA CommandCounted ==
  ASSUME Ground, [Next]_vars, ~Starts
  PROVE  count'.commands = count.commands
<1>1. DOMAIN count = {"ids", "commands", "faults", "botched", "cpu"} /\ count.ids \in Nat
  BY DEF Ground, IInv, LinkInv, Shaped, RequestsInv, Counts
<1>2. CASE ~Client
  BY <1>1, <1>2, Counted
<1>3. CASE Client
  <2>1. UNCHANGED count \/ count' = [count EXCEPT !.ids = @ + 1]
    BY <1>3 DEF Client, Starts, Arm, Enqueue, AskReset, Poll, IdlePoll, Disconnect, Join, Drain, GiveUpReset
  <2> QED BY <1>1, <2>1
<1> QED BY <1>2, <1>3

LEMMA OffsetStep == Ground /\ OffsetInv /\ [Next]_vars => OffsetInv'
<1> SUFFICES ASSUME Ground, OffsetInv, [Next]_vars, Sending' PROVE OffsetInv'
  BY DEF OffsetInv
<1>1. IInv /\ RequestsInv /\ ClientInv
  BY DEF Ground, IInv
<1>2. count'.commands = count.commands
  <2>1. ~Starts
    BY StartFields DEF Sending
  <2> QED BY <2>1, CommandCounted
<1>3. CASE UNCHANGED main
  BY <1>2, <1>3 DEF OffsetInv, Sending, Call
<1>4. CASE /\ Asks("enqueue") /\ Arm /\ main'.at = "enqueue" /\ main'.req = NextRequest
           /\ main'.cmd = main.cmd /\ main'.call = main.call /\ main'.region = main.region
           /\ main'.offset = main.offset
  <2>1. Call' = Call /\ main.at = "next" /\ Call # "drop"
    BY <1>4 DEF Call, Asks
  <2>2. main.offset < CallLength(Call, main.region)
    BY <1>1, <2>1 DEF ClientInv
  <2>3. PICK r : r = RequestAt(Call, main.region, main.offset, count.ids + 1, count.commands)
    OBVIOUS
  <2>4. r.id = count.ids + 1
    <3>1. main.cmd \notin Connecting /\ Active /\ Call # "drop"
      BY <1>1, <1>4, <2>1 DEF ClientInv, Active, Arm
    <3>2. count.commands \in Nat /\ budget.commands \in Nat /\ count.commands <= budget.commands /\ count.ids \in Nat
      BY <1>1, <3>1, BudgetKnown DEF RequestsInv, Counts
    <3>3. Route(NextRequest) # "invalid"
      <4>1. Finish("refused").at = "idle"
        BY <1>1, FinishFields
      <4> QED BY <1>4, <4>1 DEF Arm
    <3> QED BY <1>1, <2>1, <2>3, <3>1, <3>2, <3>3, NextMade DEF NextRequest
  <2>5. main'.req = RequestAt(Call, main.region, main.offset, main'.req.id, count.commands)
    BY <1>4, <2>3, <2>4 DEF NextRequest
  <2> QED BY <1>2, <1>4, <2>1, <2>2, <2>5 DEF OffsetInv
<1>5. CASE /\ main.at = "enqueue" /\ main'.at = "poll" /\ main'.req = main.req
           /\ main'.cmd = main.cmd /\ main'.call = main.call /\ main'.region = main.region
           /\ main'.offset = main.offset
  <2>1. Call' = Call
    BY <1>5 DEF Call
  <2> QED BY <1>2, <1>5, <2>1 DEF OffsetInv, Sending
<1> QED BY <1>1, <1>3, <1>4, <1>5, SendingSteps

\* What a thread in the loop of a reset, or at the end of it, does to that.
LEMMA ResettingSteps ==
  ASSUME Ground, [Next]_vars, InTime'
  PROVE  \/ bg'.resetting \in {bg.resetting, "no"} /\ (bg'.resetting # bg.resetting => Response \/ Settle)
         \/ /\ Command /\ commands # << >> /\ Head(commands).type = "reset" /\ backend = "fpga"
            /\ UNCHANGED main
            /\ \/ Head(commands).req.value = RESET_CPU /\ bg'.resetting = "cpu" /\ pending'.value = RESET_CPU
               \/ Head(commands).req.value = RESET_SYSTEM /\ bg'.resetting = "system"
<1>1. /\ InTime /\ OnePending /\ ~FpgaTimeOut /\ ~SimTimeOut /\ ~Failure /\ ClientInv /\ CommandsInv
      /\ ThreadInv /\ LinkInv /\ DOMAIN bg = {"at", "resetting"} /\ UNCHANGED backend
  BY InTimeStep DEF ThreadInv
<1>2. CASE Command
  <2>1. PICK c, r : c = Head(commands) /\ r = c.req
    OBVIOUS
  <2>2. commands # << >> /\ bg.at = "command" /\ bg.resetting = "no"
    BY <1>1, <1>2 DEF Command, ThreadInv
  <2>3. CASE FpgaReset(r) /\ c.type = "reset"
    <3>1. Sent(c)
      BY <1>1, <2>1, <2>2, FirstCommand
    <3>2. ResetRequest(r)
      BY <2>1, <2>3, <3>1 DEF Sent
    <3>3. PICK q : q = [r EXCEPT !.id = count.ids + 1]
      OBVIOUS
    <3>4. ResetRequest(q) /\ q.value = r.value
      BY <3>2, <3>3, Renumbered
    <3>5. Sendable(handler, q)
      <4>1. Has(commands, "reset")
        BY <1>1, <2>1, <2>2, <2>3, FirstCommand
      <4>2. handler.outgoing_request = None
        BY <1>1, <2>2, <4>1 DEF OnePending, Resetting
      <4> QED BY <3>4, <4>2, ResetSendable
    <3>6. /\ UNCHANGED main /\ backend = "fpga"
          /\ pending' = IF q.value = RESET_CPU THEN q ELSE pending
          /\ bg' = [at |-> "timeout", resetting |-> IF q.value = RESET_CPU THEN "cpu" ELSE "system"]
      BY <2>3, <3>3, <3>5 DEF FpgaReset
    <3>7. r.value \in {RESET_CPU, RESET_SYSTEM}
      BY <3>2 DEF ResetRequest
    <3>8. CASE r.value = RESET_CPU
      BY <1>2, <2>1, <2>2, <2>3, <3>4, <3>6, <3>8
    <3>9. CASE r.value # RESET_CPU
      BY <1>2, <2>1, <2>2, <2>3, <3>4, <3>6, <3>7, <3>9
    <3> QED BY <3>8, <3>9
  <2>4. CASE bg'.resetting = bg.resetting
    BY <2>4
  <2>5. ASSUME c.type = "send", LocalCommand(r) \/ RtlCommand(r) \/ SimCommand(r)
        PROVE  bg'.resetting = bg.resetting
    BY <1>1, <2>5 DEF LocalCommand, RtlCommand, SimCommand, Proceed
  <2>6. SimReset => bg'.resetting = bg.resetting
    BY <1>1 DEF SimReset, Proceed
  <2> QED BY <1>1, <1>2, <2>1, <2>3, <2>4, <2>5, <2>6 DEF Command
<1>3. CASE NoCommand \/ NoTimeOut \/ RxPacket \/ TxPackets \/ SimLink \/ SimNoResponse
  <2>1. Proceed \/ UNCHANGED bg
    BY <1>3 DEF NoCommand, NoTimeOut, RxPacket, TxPackets, SimLink, SimNoResponse
  <2> QED BY <1>1, <2>1 DEF Proceed
<1>4. CASE FpgaCpu
  BY <1>1, <1>4 DEF FpgaCpu, PassDone
<1>5. CASE Response
  <2>1. PassDone \/ ResetOver(TRUE)
    BY <1>5 DEF Response
  <2>2. bg'.resetting \in {bg.resetting, "no"}
    BY <1>1, <2>1 DEF PassDone, ResetOver
  <2> QED BY <1>5, <2>2
<1>6. CASE Settle
  BY <1>6 DEF Settle, ResetOver
<1>7. CASE Client \/ CpuIssue \/ DevTake \/ DevServe \/ UNCHANGED vars
  BY <1>7, ClientFrame DEF CpuIssue, DevTake, DevServe, vars
<1> QED BY <1>1, <1>2, <1>3, <1>4, <1>5, <1>6, <1>7 DEF Next, Thread

\* What becomes of the commands.
LEMMA CommandsMove ==
  ASSUME Ground, [Next]_vars
  PROVE  \/ UNCHANGED commands
         \/ Command /\ commands # << >> /\ commands' = Tail(commands)
         \/ Enqueue /\ main.at = "enqueue" /\ commands' = Append(commands, [type |-> "send", req |-> main.req])
         \/ /\ AskReset /\ main.at = "next" /\ ByCommand /\ main'.at = "wait_reset" /\ Call' = Call
            /\ commands' = Append(commands, [type |-> "reset", req |-> NextRequest])
         \/ Disconnect /\ commands' = Append(commands, [type |-> "shutdown", req |-> None])
<1>1. CASE Client
  <2>1. CASE AskReset
    <3>1. DOMAIN main = {"at", "cmd", "call", "offset", "data", "req", "region", "result", "fresh"}
      BY DEF Ground, IInv, ClientInv
    <3>2. \/ UNCHANGED commands
          \/ /\ commands' = Append(commands, [type |-> "reset", req |-> NextRequest])
             /\ main' = [main EXCEPT !.at = "wait_reset", !.req = NextRequest]
      BY <2>1 DEF AskReset
    <3>3. CASE main' = [main EXCEPT !.at = "wait_reset", !.req = NextRequest]
      <4>1. main'.at = "wait_reset" /\ main'.cmd = main.cmd /\ main'.call = main.call
        BY <3>1, <3>3
      <4> QED BY <2>1, <3>2, <4>1 DEF AskReset, Call
    <3> QED BY <3>2, <3>3
  <2>2. CASE ~AskReset
    BY <1>1, <2>2 DEF Client, Start, Arm, Enqueue, Poll, IdlePoll, Disconnect, Join, Drain, GiveUpReset
  <2> QED BY <2>1, <2>2
<1>2. CASE Command
  BY <1>2 DEF Command
<1>3. CASE ~Command /\ (Thread \/ Failure \/ CpuIssue \/ DevTake \/ DevServe)
  BY <1>3, ThreadFrame
<1>4. CASE UNCHANGED vars
  BY <1>4 DEF vars, client
<1> QED BY <1>1, <1>2, <1>3, <1>4 DEF Next

LEMMA KindStep == Ground /\ Ground' /\ KindInv /\ [Next]_vars => KindInv'
<1> SUFFICES ASSUME Ground, Ground', KindInv, [Next]_vars, InTime' PROVE KindInv'
  BY DEF KindInv
<1>1. /\ InTime /\ OnePending /\ OnePending' /\ ClientInv /\ CommandsInv /\ UNCHANGED backend
      /\ DOMAIN main = {"at", "cmd", "call", "offset", "data", "req", "region", "result", "fresh"}
  BY InTimeStep DEF Ground, PendingInv
<1>2. CASE main'.at # "wait_reset"
  <2>1. ~Has(commands', "reset") /\ bg'.resetting = "no"
    BY <1>1, <1>2 DEF OnePending
  <2>2. \A c \in Elems(commands') : c.type # "reset"
    BY <2>1, HasElems
  <2> QED BY <2>1, <2>2 DEF KindInv, Resetting
<1>3. CASE main'.at = "wait_reset" /\ main.at # "wait_reset"
  <2>1. bg.resetting = "no" /\ ~Has(commands, "reset")
    BY <1>1, <1>3 DEF OnePending
  <2>2. bg'.resetting = "no"
    <3>1. commands # << >> => Head(commands).type # "reset"
      BY <1>1, <2>1, FirstCommand
    <3> QED BY <2>1, <3>1, ResettingSteps
  <2>3. \A c \in Elems(commands) : c.type # "reset"
    BY <2>1, HasElems
  <2>4. ASSUME NEW c \in Elems(commands'), c.type = "reset"
        PROVE  /\ Call' = IF c.req.value = RESET_SYSTEM THEN "reset_system" ELSE "reset_cpu"
               /\ Call' = "reset_cpu" => backend = "fpga"
    <3>1. IsSeq(commands)
      BY <1>1 DEF CommandsInv
    <3>2. c \notin Elems(commands) /\ (commands # << >> => Elems(Tail(commands)) \subseteq Elems(commands))
      BY <2>3, <2>4, <3>1, TailElems
    <3>3. \A x : Elems(Append(commands, x)) = Elems(commands) \cup {x}
      BY <3>1, AppendElems
    <3>4. /\ [type |-> "send", req |-> main.req].type # "reset"
          /\ [type |-> "shutdown", req |-> None].type # "reset"
          /\ [type |-> "reset", req |-> NextRequest].req = NextRequest
      OBVIOUS
    <3>5. ByCommand /\ Call' = Call /\ c = [type |-> "reset", req |-> NextRequest]
      <4>1. \A x : commands' = Append(commands, x) => c = x
        BY <2>4, <3>2, <3>3
      <4>2. commands' # commands /\ ~(commands # << >> /\ commands' = Tail(commands))
        BY <2>4, <3>2
      <4>3. /\ commands' # Append(commands, [type |-> "send", req |-> main.req])
            /\ commands' # Append(commands, [type |-> "shutdown", req |-> None])
        BY <2>4, <3>4, <4>1
      <4> QED BY <4>1, <4>2, <4>3, CommandsMove
    <3>6. c.req.value = IF Call = "reset_system" THEN RESET_SYSTEM ELSE RESET_CPU
      BY <3>4, <3>5, ResetKnown
    <3> QED BY <3>5, <3>6 DEF ByCommand, RESET_SYSTEM, RESET_CPU
  <2> QED BY <1>1, <2>2, <2>4 DEF KindInv, Resetting
<1>4. CASE main'.at = "wait_reset" /\ main.at = "wait_reset"
  <2>1. main' = main
    <3>1. /\ ~Starts /\ (Advances => main'.at # "wait_reset") /\ (Fails => main'.at # "wait_reset")
      <4>1. Starts => main.at # "wait_reset"
        BY StartFields
      <4>2. \A data : Advance(data).at \in {"idle", "next"}
        BY <1>1, MainAt
      <4>3. Failed.at \in {"idle", "gone"}
        BY <1>1, MainAt
      <4> QED BY <1>4, <4>1, <4>2, <4>3 DEF Advances, Fails
    <3>2. Goes({"wait_reset"}, "drain") => main'.at = "drain"
      BY <1>1 DEF Goes
    <3> QED BY <1>4, <3>1, <3>2, MainSteps DEF Ends, Asks, Goes, Leaves
  <2>2. Call' = Call
    BY <2>1 DEF Call
  <2>3. Elems(commands') \subseteq Elems(commands)
    <3>1. IsSeq(commands)
      BY <1>1 DEF CommandsInv
    <3>2. UNCHANGED commands \/ (commands # << >> /\ commands' = Tail(commands))
      BY <1>4, <2>1, CommandsMove DEF Disconnect
    <3> QED BY <3>1, <3>2, TailElems
  <2>4. CASE bg'.resetting \in {bg.resetting, "no"}
    <3>1. bg'.resetting = "cpu" => pending' = pending
      <4>1. bg'.resetting = "cpu" => bg.resetting = "cpu" /\ pending' # None
        BY <1>1, <2>4 DEF OnePending
      <4>2. bg.resetting = "cpu" => bg.at # "command"
        BY <1>1 DEF Ground, IInv, ThreadInv
      <4> QED BY <1>4, <4>1, <4>2, PendingSteps DEF Ground, Asks, Arm, Command
    <3> QED BY <1>1, <2>2, <2>3, <2>4, <3>1 DEF KindInv, Resetting
  <2>5. CASE /\ commands # << >> /\ Head(commands).type = "reset" /\ backend = "fpga"
             /\ \/ Head(commands).req.value = RESET_CPU /\ bg'.resetting = "cpu" /\ pending'.value = RESET_CPU
                \/ Head(commands).req.value = RESET_SYSTEM /\ bg'.resetting = "system"
    <3>1. Head(commands) \in Elems(commands)
      BY <1>1, <2>5, TailElems DEF CommandsInv
    <3>2. Call = IF Head(commands).req.value = RESET_SYSTEM THEN "reset_system" ELSE "reset_cpu"
      BY <1>1, <2>5, <3>1 DEF KindInv
    <3> QED BY <1>1, <2>2, <2>3, <2>5, <3>2 DEF KindInv, Resetting, RESET_SYSTEM, RESET_CPU
  <2> QED BY <2>4, <2>5, ResettingSteps
<1> QED BY <1>2, <1>3, <1>4

(***************************************************************************)
(* What a step in time makes of the command in progress.                   *)
(***************************************************************************)
\* A loop takes the event it waits for.
Took(e) == /\ Poll /\ main.at = "poll" /\ pending = None
           /\ events # << >> /\ e = Head(events) /\ e \in Elems(events) /\ events' = Tail(events)
           /\ Matches(Call, main.req, e, pending) /\ ~Unacceptable(Call, main.req, e)
           /\ main' = Advance(e.data)

\* The result of a reset arrives.
ResetDone == /\ main.at = "wait_reset" /\ pending' = None /\ UNCHANGED events
             /\ \/ /\ Call \in {"reset_system", "start_system"}
                   /\ (Settle /\ Resetting) \/ (Command /\ commands # << >> /\ Head(commands).type = "reset" /\ SimReset)
                \/ Call \in {"reset_cpu", "start_cpu"} /\ Response /\ bg.resetting = "cpu" /\ pending.addr = RESET
             /\ \/ main' = Advance(<< >>)
                \/ main' = [main EXCEPT !.at = "drain"] /\ Call = "reset_system"

\* A reset that the FPGA runtime begins in time is sent.
LEMMA ResetBegins ==
  ASSUME Ground, InTime, OnePending, Command, Head(commands).type = "reset", FpgaReset(Head(commands).req)
  PROVE  \E q : /\ ResetRequest(q) /\ q.value = Head(commands).req.value
                /\ handler.outgoing_request = None /\ handler' = SendRequest(handler, q)
                /\ UNCHANGED main /\ backend = "fpga" /\ bg.resetting = "no"
                /\ pending' = IF q.value = RESET_CPU THEN q ELSE pending
                /\ bg' = [at |-> "timeout", resetting |-> IF q.value = RESET_CPU THEN "cpu" ELSE "system"]
<1>1. CommandsInv /\ ThreadInv /\ commands # << >> /\ bg.at = "command" /\ bg.resetting = "no"
  BY DEF Ground, IInv, Command, ThreadInv
<1>2. PICK c, r : c = Head(commands) /\ r = c.req
  OBVIOUS
<1>3. PICK q : q = [r EXCEPT !.id = count.ids + 1]
  OBVIOUS
<1>4. Has(commands, "reset") /\ Sent(c)
  BY <1>1, <1>2, FirstCommand
<1>5. ResetRequest(r)
  BY <1>2, <1>4 DEF Sent
<1>6. ResetRequest(q) /\ q.value = r.value
  BY <1>3, <1>5, Renumbered
<1>7. handler.outgoing_request = None
  BY <1>1, <1>4 DEF OnePending, Resetting
<1>8. Sendable(handler, q)
  BY <1>6, <1>7, ResetSendable
<1>9. /\ UNCHANGED main /\ backend = "fpga" /\ handler' = SendRequest(handler, q)
      /\ pending' = IF q.value = RESET_CPU THEN q ELSE pending
      /\ bg' = [at |-> "timeout", resetting |-> IF q.value = RESET_CPU THEN "cpu" ELSE "system"]
  BY <1>2, <1>3, <1>8 DEF FpgaReset
<1> QED BY <1>1, <1>2, <1>6, <1>7, <1>9

LEMMA ReportedWell ==
  ASSUME NEW left, ReportReset(TRUE, left)
  PROVE  \/ main' = main \/ main' = Advance(<< >>)
         \/ Call = "reset_system" /\ backend = "fpga" /\ main' = [main EXCEPT !.at = "drain"]
BY DEF ReportReset

\* A loop goes by the answer to its own request.
LEMMA PollInTime ==
  ASSUME Ground, InTime, Poll
  PROVE  \/ UNCHANGED main \/ main' = Finish("refused")
         \/ \E e : Took(e)
<1>1. /\ main.at = "poll" /\ Sending /\ events # << >> /\ events' = Tail(events)
      /\ ClientInv /\ ThreadInv /\ IsSeq(events) /\ CallInv /\ SimInv /\ TimelyInv
  BY DEF Poll, Sending, Ground, IInv, OrderedInv, Ordered
<1>2. PICK e : e = Head(events)
  OBVIOUS
<1>3. e \in Elems(events)
  BY <1>1, <1>2, TailElems
<1>4. ~Refuses(e.type)
  BY <1>1, <1>3 DEF TimelyInv
<1>5. CASE Matches(Call, main.req, e, pending)
  <2>1. IF Unacceptable(Call, main.req, e) THEN main' = Finish("refused") ELSE main' = Advance(e.data)
    BY <1>2, <1>5 DEF Poll
  <2>2. pending = None
    <3>1. CASE Call # "reset_cpu"
      BY <1>5, <3>1 DEF Matches
    <3>2. CASE Call = "reset_cpu"
      <4>1. backend = "sim"
        BY <1>1, <3>2 DEF CallInv, ByCommand, ThreadInv
      <4>2. e.type \in {"read", "write"} /\ e.addr = RESET
        BY <1>1, <1>5, <3>2 DEF Matches, CallInv
      <4> QED BY <1>1, <1>3, <4>1, <4>2 DEF SimInv, AtReset, OwnReset
    <3> QED BY <3>1, <3>2
  <2> QED BY <1>1, <1>2, <1>3, <1>5, <2>1, <2>2 DEF Took
<1>6. CASE ~Matches(Call, main.req, e, pending)
  BY <1>2, <1>4, <1>6 DEF Poll, Refuses
<1> QED BY <1>5, <1>6

LEMMA ClientInTime ==
  ASSUME Ground, [Next]_vars, InTime', Client
  PROVE  \/ UNCHANGED main
         \/ Starts
         \/ Arm /\ Asks("enqueue")
         \/ AskReset /\ Asks("wait_reset")
         \/ main'.at \in {"join", "gone"}
         \/ main.at \in {"next", "poll"} /\ main' = Finish("refused")
         \/ Enqueue /\ main.at = "enqueue" /\ main.cmd \in {"read", "write"} /\ main' = Finish("done")
         \/ Enqueue /\ main.at = "enqueue" /\ main' = [main EXCEPT !.at = "poll"]
         \/ \E e : Took(e)
         \/ Drain /\ main.at = "drain" /\ main' = Advance(<< >>)
<1>1. /\ InTime /\ OnePending /\ ClientInv /\ \A e \in Elems(events) : ~Refuses(e.type)
      /\ DOMAIN main = {"at", "cmd", "call", "offset", "data", "req", "region", "result", "fresh"}
  BY InTimeStep
<1>2. CASE Starts
  BY <1>2
<1>3. CASE Arm
  BY <1>3 DEF Arm, Asks
<1>4. CASE Enqueue
  <2>1. main.at = "enqueue" /\ bg.at # "ended"
    BY <1>1, <1>4 DEF Enqueue, OnePending
  <2>2. main' = IF Call \in {"send_read", "send_write"} THEN Finish("done") ELSE [main EXCEPT !.at = "poll"]
    BY <1>4, <2>1 DEF Enqueue
  <2>3. Call \in {"send_read", "send_write"} => main.cmd \in {"read", "write"}
    BY <1>1, <2>1, SendCalls DEF ClientInv, Active, Call
  <2> QED BY <1>4, <2>1, <2>2, <2>3
<1>5. CASE AskReset
  <2>1. main.at = "next" /\ bg.at # "ended" /\ Call # "drop"
    BY <1>1, <1>5 DEF AskReset, OnePending, ByCommand
  <2> QED BY <1>5, <2>1 DEF AskReset, Asks
<1>6. CASE Poll
  BY <1>1, <1>6, PollInTime DEF Poll
<1>7. CASE IdlePoll \/ Disconnect
  BY <1>1, <1>7, PlaceFields DEF IdlePoll, Disconnect
<1>8. CASE Join
  <2>1. main'.at = "gone"
    BY <1>1, <1>8 DEF Join, Finish
  <2> QED BY <2>1
<1>9. CASE Drain
  <2>1. CASE events = << >>
    BY <1>9, <2>1 DEF Drain
  <2>2. CASE events # << >>
    <3>1. Head(events) \in Elems(events)
      BY <2>2, TailElems DEF Ground, OrderedInv, Ordered
    <3> QED BY <1>1, <1>9, <2>2, <3>1 DEF Drain, Refuses
  <2> QED BY <2>1, <2>2
<1>10. ~GiveUpReset
  BY <1>1 DEF GiveUpReset, OnePending
<1> QED BY <1>2, <1>3, <1>4, <1>5, <1>6, <1>7, <1>8, <1>9, <1>10 DEF Client, Starts

LEMMA ThreadInTime ==
  ASSUME Ground, KindInv, [Next]_vars, InTime', ~Client
  PROVE  UNCHANGED main \/ ResetDone
<1>1. /\ InTime /\ OnePending /\ ClientInv /\ CommandsInv /\ ThreadInv /\ ~FpgaTimeOut /\ ~SimTimeOut /\ ~Failure
  BY InTimeStep
<1>2. CASE Command
  <2>1. PICK c, r : c = Head(commands) /\ r = c.req
    OBVIOUS
  <2>2. commands # << >>
    BY <1>2 DEF Command
  <2>3. CASE c.type = "reset" /\ FpgaReset(r)
    BY <1>1, <1>2, <2>1, <2>3, ResetBegins
  <2>4. CASE c.type = "reset" /\ SimReset
    <3>1. Has(commands, "reset") /\ c \in Elems(commands)
      BY <1>1, <2>1, <2>2, <2>4, FirstCommand, TailElems DEF CommandsInv
    <3>2. main.at = "wait_reset" /\ pending = None
      BY <1>1, <3>1 DEF OnePending
    <3>3. Call = "reset_system" /\ backend = "sim"
      BY <1>1, <2>4, <3>1 DEF KindInv, SimReset
    <3>4. UNCHANGED <<pending, events>> /\ ReportReset(TRUE, Tail(commands))
      BY <2>4 DEF SimReset
    <3> QED BY <1>2, <2>1, <2>2, <2>4, <3>2, <3>3, <3>4, ReportedWell DEF ResetDone
  <2>5. CASE ~(c.type = "reset" /\ (FpgaReset(r) \/ SimReset))
    BY <1>2, <2>1, <2>5 DEF Command, LocalCommand, RtlCommand, SimCommand
  <2> QED BY <2>3, <2>4, <2>5
<1>3. CASE Response
  <2>1. CASE bg.resetting = "cpu" /\ pending.addr = RESET /\ Received.req.write
    <3>1. main.at = "wait_reset" /\ Call \in {"reset_cpu", "start_cpu"}
      BY <1>1, <2>1 DEF OnePending, KindInv
    <3>2. pending' = None /\ UNCHANGED events /\ ReportReset(TRUE, commands)
      BY <1>3, <2>1 DEF Response
    <3> QED BY <1>3, <2>1, <3>1, <3>2, ReportedWell DEF ResetDone
  <2>2. CASE ~(bg.resetting = "cpu" /\ pending.addr = RESET /\ Received.req.write)
    BY <1>3, <2>2 DEF Response
  <2> QED BY <2>1, <2>2
<1>4. CASE Settle
  <2>1. Resetting
    BY <1>1, <1>4 DEF Settle, ThreadInv
  <2>2. main.at = "wait_reset" /\ Call \in {"reset_system", "start_system"}
    BY <1>1, <2>1 DEF OnePending, KindInv, Resetting
  <2>3. pending' = None /\ UNCHANGED events /\ ReportReset(TRUE, commands)
    BY <1>4 DEF Settle
  <2> QED BY <1>4, <2>1, <2>2, <2>3, ReportedWell DEF ResetDone
<1>5. CASE NoCommand \/ NoTimeOut \/ RxPacket \/ TxPackets \/ SimLink \/ FpgaCpu \/ SimNoResponse
  BY <1>5 DEF NoCommand, NoTimeOut, RxPacket, TxPackets, SimLink, FpgaCpu, SimNoResponse, client
<1>6. CASE CpuIssue \/ DevTake \/ DevServe \/ UNCHANGED vars
  BY <1>6 DEF CpuIssue, DevTake, DevServe, vars, client
<1> QED BY <1>1, <1>2, <1>3, <1>4, <1>5, <1>6 DEF Next, Thread

\* The reset that ends well is the only one that a command of the client can wait for.
LEMMA DoneCommand ==
  ASSUME NEW cmd \in DOMAIN Script, NEW i \in 1 .. Len(Script[cmd]), NEW call, call = Script[cmd][i]
  PROVE  /\ call = "write_region" => cmd \in {"loadelf", "loadmem", "memtest", "reload"}
         /\ call \in {"reset_cpu", "start_cpu"} => cmd \in {"reset", "reload", "connect_cpu"}
         /\ call = "reset_system" <=> cmd = "hard_reset"
         /\ call = "start_system" <=> cmd = "connect_system"
         /\ cmd \in {"dumpmem", "memtest"} => call \in {"write_region", "read_region"}
         /\ call = "read_region" => cmd \in {"dumpmem", "memtest"} /\ i = Len(Script[cmd])
         /\ i = Len(Script[cmd]) =>
              /\ cmd \in {"loadelf", "loadmem"} => call = "write_region"
              /\ cmd \in {"dumpmem", "memtest"} => call = "read_region"
              /\ cmd \in {"boot", "reload"} => call = "boot_cpu"
              /\ cmd = "reset" => call = "reset_cpu"
              /\ cmd = "connect_cpu" => call = "start_cpu"
              /\ cmd \in {"memtest", "reload"} => \E k \in 1 .. i - 1 : Script[cmd][k] = "write_region"
<1>1. Segments \in Seq({"write_region"}) /\ Len(Segments) = SEGMENTS /\ SEGMENTS \in Nat \ {0}
  BY RegionsAssumption DEF Segments
<1>2. CASE cmd = "loadelf"
  <2>1. Script[cmd] = Segments
    BY <1>2 DEF Script, LoadElf
  <2> QED BY <1>1, <1>2, <2>1
<1>3. CASE cmd = "reload"
  <2>1. Script[cmd] = <<"reset_cpu">> \o Segments \o <<"boot_cpu">>
    BY <1>3 DEF Script, Reload, ResetCpu, BootAt
  <2>2. Len(Script[cmd]) = SEGMENTS + 2
    BY <1>1, <2>1
  <2>3. /\ Script[cmd][1] = "reset_cpu" /\ Script[cmd][SEGMENTS + 2] = "boot_cpu"
        /\ \A k \in 2 .. SEGMENTS + 1 : Script[cmd][k] = "write_region"
    BY <1>1, <2>1
  <2>4. i = 1 \/ i = SEGMENTS + 2 \/ i \in 2 .. SEGMENTS + 1
    BY <1>1, <2>2
  <2>5. 2 \in 2 .. SEGMENTS + 1 /\ (i = SEGMENTS + 2 => 2 \in 1 .. i - 1)
    BY <1>1
  <2>6. CASE i = 1
    BY <1>1, <1>3, <2>2, <2>3, <2>6
  <2>7. CASE i = SEGMENTS + 2
    BY <1>1, <1>3, <2>2, <2>3, <2>5, <2>7
  <2>8. CASE i \in 2 .. SEGMENTS + 1
    BY <1>1, <1>3, <2>2, <2>3, <2>8
  <2> QED BY <2>4, <2>6, <2>7, <2>8
<1>4. CASE cmd = "memtest"
  <2>1. Script[cmd] = <<"write_region", "read_region">>
    BY <1>4 DEF Script, MemTest
  <2> QED BY <1>4, <2>1
<1>5. CASE cmd \in {"loadmem", "dumpmem", "read", "write"}
  <2>1. Len(Script[cmd]) = 1 /\ i = 1
    BY <1>5 DEF Script, LoadMem, DumpMem, Read, Write
  <2>2. Script[cmd][1] = IF cmd = "loadmem" THEN "write_region" ELSE IF cmd = "dumpmem" THEN "read_region"
                         ELSE IF cmd = "read" THEN "send_read" ELSE "send_write"
    BY <1>5 DEF Script, LoadMem, DumpMem, Read, Write
  <2> QED BY <1>5, <2>1, <2>2
<1>6. CASE cmd \in {"connect_cpu", "connect_system", "reset", "hard_reset", "boot", "disconnect"}
  BY <1>6 DEF Script, ConnectCpu, ConnectSystem, ResetCpu, ResetSystem, BootAt
<1>7. DOMAIN Script = {"connect_cpu", "connect_system", "loadelf", "loadmem", "dumpmem", "memtest",
                       "read", "write", "reset", "hard_reset", "boot", "reload", "disconnect"}
  BY DEF Script
<1> QED BY <1>2, <1>3, <1>4, <1>5, <1>6, <1>7

\* A command that compares begins when nothing is pending.
LEMMA StartsAlone ==
  ASSUME Starts, main'.at = "next", main'.cmd \in {"dumpmem", "memtest"}
  PROVE  pending = None
<1>1. PICK cmd \in COMMANDS : \E region \in IF Regional(cmd) THEN REGIONS ELSE {NoRegion} : Start(cmd, region)
  BY DEF Starts
<1>2. PICK region \in IF Regional(cmd) THEN REGIONS ELSE {NoRegion} : Start(cmd, region)
  BY <1>1
<1>3. PICK m : m = [Idle EXCEPT !.cmd = cmd, !.region = region, !.fresh = events = << >>]
  OBVIOUS
<1>4. m.at = "idle" /\ m.cmd = cmd /\ DOMAIN m = DOMAIN Idle /\ "result" \in DOMAIN Idle /\ "at" \in DOMAIN Idle
  BY <1>3 DEF Idle
<1>5. /\ (cmd \in Guarded /\ pending # None) => main' = [m EXCEPT !.result = "refused"]
      /\ main' \in {[m EXCEPT !.result = "refused"], [m EXCEPT !.at = "next"]}
  BY <1>2, <1>3 DEF Start
<1>6. main'.cmd = cmd
  <2>1. "cmd" \in DOMAIN m
    BY <1>4 DEF Idle
  <2> QED BY <1>4, <1>5, <2>1
<1>7. cmd \in Guarded
  BY <1>6 DEF Guarded, Script, Connecting
<1> QED BY <1>4, <1>5, <1>7

\* What becomes of the pending request.
LEMMA PendingInTime ==
  ASSUME Ground, [Next]_vars, InTime'
  PROVE  \/ pending' \in {pending, None}
         \/ Arm /\ pending = None /\ main'.at = "enqueue"
         \/ main.at = "wait_reset" /\ UNCHANGED main
<1>1. /\ InTime /\ OnePending /\ CommandsInv /\ IInv
      /\ DOMAIN main = {"at", "cmd", "call", "offset", "data", "req", "region", "result", "fresh"}
  BY InTimeStep DEF Ground
<1>2. CASE Arm /\ pending = None /\ main' = [main EXCEPT !.at = "enqueue", !.req = NextRequest]
  <2>1. main'.at = "enqueue"
    BY <1>1, <1>2
  <2> QED BY <1>2, <2>1
<1>3. CASE Command /\ UNCHANGED main
  <2>1. commands # << >>
    BY <1>3 DEF Command
  <2>2. CASE Head(commands).type = "reset"
    <3>1. Has(commands, "reset")
      BY <1>1, <2>1, <2>2, FirstCommand
    <3> QED BY <1>1, <1>3, <3>1 DEF OnePending
  <2>3. CASE Head(commands).type # "reset"
    <3>1. pending' \in {pending, None}
      BY <1>3, <2>3 DEF Command, LocalCommand, RtlCommand, SimCommand
    <3> QED BY <3>1
  <2> QED BY <2>2, <2>3
<1> QED BY <1>1, <1>2, <1>3, PendingSteps

LEMMA AloneStep == Ground /\ Ground' /\ KindInv /\ AloneInv /\ [Next]_vars => AloneInv'
<1> SUFFICES ASSUME Ground, Ground', KindInv, AloneInv, [Next]_vars, InTime' PROVE AloneInv'
  BY DEF AloneInv
<1>1. /\ InTime /\ OnePending /\ ClientInv
      /\ DOMAIN main = {"at", "cmd", "call", "offset", "data", "req", "region", "result", "fresh"}
  BY InTimeStep
<1>2. CASE Arm /\ pending = None /\ main'.at = "enqueue"
  BY <1>2 DEF AloneInv
<1>3. CASE main.at = "wait_reset" /\ UNCHANGED main
  BY <1>3 DEF AloneInv
<1>4. CASE pending' \in {pending, None}
  <2>1. CASE UNCHANGED main
    <3>1. Call' = Call
      BY <2>1 DEF Call
    <3> QED BY <1>1, <1>4, <2>1, <3>1 DEF AloneInv, Comparing
  <2>2. CASE Starts
    <3>1. /\ main'.call = 1 /\ main'.offset = 0 /\ UNCHANGED pending
          /\ main'.at = "next" \/ (main'.at = "idle" /\ main'.result = "refused")
      BY <2>2, StartFields
    <3> QED BY <2>2, <3>1, StartsAlone DEF AloneInv, Comparing
  <2>3. CASE Asks("enqueue") \/ Asks("wait_reset")
    <3>1. main'.at \in {"enqueue", "wait_reset"}
      BY <1>1, <2>3, PlaceFields DEF Asks
    <3> QED BY <3>1 DEF AloneInv
  <2>4. CASE main'.at \in {"join", "gone"}
    BY <2>4 DEF AloneInv
  <2>5. CASE main' = Finish("refused")
    <3>1. main'.at = "idle" /\ main'.result = "refused"
      BY <1>1, <2>5, PlaceFields
    <3> QED BY <3>1 DEF AloneInv
  <2>6. CASE main.cmd \in {"read", "write"} /\ main' = Finish("done")
    <3>1. main'.at = "idle" /\ main'.cmd = main.cmd
      BY <1>1, <2>6, PlaceFields
    <3> QED BY <2>6, <3>1 DEF AloneInv
  <2>7. CASE Enqueue /\ main.at = "enqueue" /\ main' = [main EXCEPT !.at = "poll"]
    <3>1. main'.at = "poll" /\ main'.req = main.req
      BY <1>1, <2>7
    <3>2. main.req = pending
      BY <1>1, <2>7 DEF OnePending
    <3> QED BY <1>4, <3>1, <3>2 DEF AloneInv
  <2>8. ASSUME pending' = None, NEW data, main' = Advance(data)
        PROVE  AloneInv'
    <3>1. main'.at \in {"idle", "next"}
      BY <1>1, <2>8, PlaceFields, MainAt
    <3> QED BY <2>8, <3>1 DEF AloneInv
  <2>9. CASE \E e : Took(e)
    <3>1. PICK e : Took(e)
      BY <2>9
    <3> QED BY <1>4, <2>8, <3>1 DEF Took
  <2>10. CASE main.at = "drain" /\ main' = Advance(<< >>)
    BY <1>1, <1>4, <2>8, <2>10 DEF AloneInv
  <2>11. CASE ResetDone
    <3>1. CASE main' = Advance(<< >>)
      BY <2>8, <2>11, <3>1 DEF ResetDone
    <3>2. CASE main' = [main EXCEPT !.at = "drain"] /\ Call = "reset_system"
      <4>1. main'.at = "drain" /\ main'.cmd = main.cmd /\ main'.call = main.call
        BY <1>1, <3>2
      <4>2. Call' = Call
        BY <4>1 DEF Call
      <4> QED BY <2>11, <3>2, <4>1, <4>2 DEF AloneInv, ResetDone
    <3> QED BY <2>11, <3>1, <3>2 DEF ResetDone
  <2>12. CASE Client
    BY <2>1, <2>2, <2>3, <2>4, <2>5, <2>6, <2>7, <2>9, <2>10, <2>12, ClientInTime
  <2>13. CASE ~Client
    BY <2>1, <2>11, <2>13, ThreadInTime
  <2> QED BY <2>12, <2>13
<1> QED BY <1>2, <1>3, <1>4, PendingInTime

(***************************************************************************)
(* Who changes memory, and whether the core boots.                         *)
(***************************************************************************)
Kept == UNCHANGED mem /\ dev'.booting = dev.booting

Executes(r) ==
  /\ mem' = IF r.write /\ r.addr \in Memory THEN Written(mem, r) ELSE mem
  /\ dev'.booting = IF r.addr = BOOT THEN FALSE ELSE IF r.addr = RESET THEN TRUE ELSE dev.booting

LEMMA LocalMemory ==
  ASSUME RequestsInv, NEW r \in Known, r # None, Route(r) = "local"
  PROVE  r.addr \in Memory
<1>1. count.ids \in Nat /\ budget.commands \in Nat
  BY BudgetKnown
<1>2. r.size \in Nat \ {0} /\ r.beats \in Nat \ {0} /\ r.addr \in Nat
  BY <1>1 DEF Known, Requests
<1>3. r.size * r.beats \in Nat \ {0}
  BY <1>2
<1>4. r.addr >= RTL_END /\ r.addr + r.size * r.beats - 1 < ADDR_END
  BY RegionAssumption, <1>2, <1>3 DEF Route, EndAddr
<1> QED BY <1>2, <1>3, <1>4, RegistersAssumption, RegionAssumption DEF Memory

\* What the target has in hand in time is what is pending.
LEMMA HeldPending ==
  ASSUME Ground, InTime, ~Resetting, dev.request # None
  PROVE  /\ dev.request = pending /\ handler.outgoing_request = pending
         /\ ~Has(toHost, "host_resp") /\ handler.outgoing_response = NoResponse
<1>1. ThreadInv /\ LinkInv /\ OnePending /\ ~Past
  BY DEF Ground, IInv, PendingInv, Past
<1>2. OneRequest(handler, tx, toDev, toHost, dev.request)
  BY <1>1, OneInTime DEF LeftOver
<1>3. dev.request = handler.outgoing_request
  BY <1>1 DEF Ground, OwnInv, OwnLink
<1>4. handler.outgoing_request = pending
  BY <1>1, <1>3 DEF OnePending
<1> QED BY <1>2, <1>3, <1>4 DEF OneRequest

\* The target executes what is pending, and answers with what it has read.
LEMMA TargetExecutes ==
  ASSUME Ground, InTime, ~Resetting, DevServe
  PROVE  /\ pending # None /\ dev.request = pending /\ handler.outgoing_request = pending
         /\ Executes(pending)
         /\ \E data : /\ toHost' = Append(toHost, Packet("host_resp", pending, data))
                      /\ ~pending.write /\ pending.addr \in Memory => data = ReadOut(mem, pending)
<1>1. /\ LinkInv /\ DOMAIN dev = {"cpu_wait_resp", "request", "booting"} /\ ~count.botched
  BY DEF Ground, IInv, LinkInv, Shaped
<1>2. PICK r : r = dev.request
  OBVIOUS
<1>3. r # None /\ r = pending /\ handler.outgoing_request = pending
  BY <1>2, HeldPending DEF DevServe
<1>4. ~SysReset(r)
  BY <1>1, <1>2 DEF LinkInv, ResetLast, Past
<1>5. Executes(r) /\ \E data : /\ toHost' = Append(toHost, Packet("host_resp", r, data))
                               /\ ~r.write /\ r.addr \in Memory => data = ReadOut(mem, r)
  <2>1. CASE /\ r.addr = RESET /\ r.value = RESET_CPU /\ UNCHANGED mem
             /\ Serve(<< >>, [dev EXCEPT !.booting = TRUE])
    BY <1>1, <1>2, <2>1 DEF Executes, Serve, RESET, BOOT, Memory
  <2>2. CASE r.addr = BOOT /\ Serve(<< >>, [dev EXCEPT !.booting = FALSE]) /\ UNCHANGED mem
    BY <1>1, <1>2, <2>2 DEF Executes, Serve, BOOT, Memory
  <2>3. CASE r.addr = STATUS /\ Serve(<<IF dev.booting THEN 1 ELSE 0>>, dev) /\ UNCHANGED mem
    BY <1>1, <1>2, <2>3 DEF Executes, Serve, BOOT, RESET, STATUS, Memory
  <2>4. CASE /\ r.addr \in Memory /\ Serve(IF r.write THEN << >> ELSE ReadOut(mem, r), dev)
             /\ mem' = IF r.write THEN Written(mem, r) ELSE mem
    <3>1. r.addr # BOOT /\ r.addr # RESET
      BY <2>4, RegionAssumption DEF Memory, BOOT, RESET
    <3>2. dev'.booting = dev.booting
      BY <1>1, <2>4 DEF Serve
    <3>3. toHost' = Append(toHost, Packet("host_resp", r, IF r.write THEN << >> ELSE ReadOut(mem, r)))
      BY <1>2, <2>4 DEF Serve
    <3> QED BY <2>4, <3>1, <3>2, <3>3 DEF Executes
  <2> QED BY <1>2, <1>4, <2>1, <2>2, <2>3, <2>4 DEF DevServe, SysReset
<1> QED BY <1>2, <1>3, <1>5

\* So does the background thread where the address is on the host, and it sends off what is
\* for the target.
LEMMA HostExecutes ==
  ASSUME Ground, InTime, OnePending, Command, Head(commands).type = "send"
  PROVE  /\ pending # None /\ Waiting /\ ~Resetting /\ UNCHANGED <<main, link, dev>>
         /\ \/ Kept /\ UNCHANGED <<pending, events, direct>> /\ handler' = SendRequest(handler, pending)
            \/ /\ Executes(pending) /\ UNCHANGED <<handler, direct>> /\ pending' = None
               /\ events' = Append(events, [Answer(pending, Executed(pending)) EXCEPT !.addr = pending.addr])
            \/ /\ Executes(pending) /\ UNCHANGED <<handler, pending, events>>
               /\ direct' = Executed(pending)
<1>1. CommandsInv /\ ThreadInv /\ RequestsInv /\ IInv /\ commands # << >>
  BY DEF Ground, IInv, Command
<1>2. PICK r : r = Head(commands).req
  OBVIOUS
<1>3. /\ r = pending /\ pending # None /\ pending \in Known /\ handler.outgoing_request = None
      /\ direct = NoResponse /\ Route(pending) \in {"rtl", "local"}
      /\ Route(pending) = "rtl" => Sendable(handler, pending)
  BY <1>1, <1>2, CommandInTime
<1>4. Waiting /\ ~Resetting
  BY <1>1, FirstCommand DEF Waiting, Resetting, ThreadInv, Command
<1>5. UNCHANGED <<link, dev>> /\ (LocalCommand(r) \/ RtlCommand(r) \/ SimCommand(r))
  BY <1>2 DEF Command
<1>6. UNCHANGED main
  BY <1>5 DEF LocalCommand, RtlCommand, SimCommand
<1>7. CASE Route(r) = "rtl"
  <2>1. Sendable(handler, r) /\ ~LocalCommand(r)
    BY <1>3, <1>7 DEF LocalCommand
  <2>2. UNCHANGED <<mem, pending, events, direct>> /\ handler' = SendRequest(handler, r)
    BY <1>3, <1>5, <1>7, <2>1 DEF RtlCommand, SimCommand
  <2> QED BY <1>3, <1>4, <1>5, <1>6, <2>2 DEF Kept
<1>8. CASE Route(r) = "local"
  <2>1. r.addr \in Memory
    BY <1>1, <1>3, <1>8, LocalMemory
  <2>2. r.addr # BOOT /\ r.addr # RESET
    BY <2>1, RegionAssumption DEF Memory, BOOT, RESET
  <2>3. mem' = (IF r.write THEN Written(mem, r) ELSE mem) => Executes(r)
    BY <1>5, <2>1, <2>2 DEF Executes
  <2>4. CASE LocalCommand(r)
    BY <1>3, <1>4, <1>5, <1>6, <2>3, <2>4 DEF LocalCommand, Emit
  <2>5. CASE SimCommand(r)
    BY <1>3, <1>4, <1>5, <1>6, <1>8, <2>3, <2>5 DEF SimCommand
  <2>6. ~RtlCommand(r)
    BY <1>8 DEF RtlCommand
  <2> QED BY <1>5, <2>4, <2>5, <2>6
<1> QED BY <1>3, <1>7, <1>8

LEMMA World ==
  ASSUME Ground, [Next]_vars, InTime'
  PROVE  \/ Kept
         \/ Resetting
         \/ Command /\ commands # << >> /\ Head(commands).type = "reset" /\ SimReset
         \/ pending # None /\ ~Resetting /\ Executes(pending) /\ (Waiting \/ handler.outgoing_request = pending)
<1>1. /\ InTime /\ OnePending /\ ThreadInv
      /\ DOMAIN dev = {"cpu_wait_resp", "request", "booting"} /\ ~FpgaTimeOut /\ ~SimTimeOut /\ ~Failure
  BY InTimeStep DEF Shaped
<1>2. CASE Command
  <2>1. commands # << >>
    BY <1>2 DEF Command
  <2>2. CASE Head(commands).type = "reset"
    BY <1>2, <2>1, <2>2 DEF Command, FpgaReset, Kept
  <2>3. CASE Head(commands).type = "send"
    BY <1>1, <1>2, <2>3, HostExecutes
  <2>4. CASE Head(commands).type = "shutdown"
    BY <1>2, <2>4 DEF Command, Kept
  <2> QED BY <1>2, <2>2, <2>3, <2>4 DEF Command
<1>3. CASE DevServe /\ ~Resetting
  BY <1>1, <1>3, TargetExecutes
<1>4. CASE Settle
  <2>1. Resetting
    BY <1>1, <1>4 DEF Settle, ThreadInv
  <2> QED BY <2>1
<1>5. CASE NoCommand \/ NoTimeOut \/ RxPacket \/ TxPackets \/ SimLink \/ Response \/ FpgaCpu \/ SimNoResponse
  BY <1>5 DEF NoCommand, NoTimeOut, RxPacket, TxPackets, SimLink, Response, FpgaCpu, SimNoResponse, Kept
<1>6. CASE CpuIssue \/ DevTake
  <2>1. UNCHANGED mem
    BY <1>6 DEF CpuIssue, DevTake
  <2>2. dev'.booting = dev.booting
    BY <1>1, <1>6 DEF CpuIssue, DevTake
  <2> QED BY <2>1, <2>2 DEF Kept
<1>7. CASE Client
  BY <1>7 DEF Client, Start, Arm, Enqueue, AskReset, Poll, IdlePoll, Disconnect, Join, Drain, GiveUpReset, Kept
<1>8. CASE UNCHANGED vars
  BY <1>8 DEF vars, Kept
<1> QED BY <1>1, <1>2, <1>3, <1>4, <1>5, <1>6, <1>7, <1>8 DEF Next, Thread

(***************************************************************************)
(* An answer shows what has been done.                                     *)
(***************************************************************************)
LEMMA KeptShown ==
  ASSUME Kept
  PROVE  /\ \A r : Did(r)' <=> Did(r)
         /\ \A r, data : Shown(r, data)' <=> Shown(r, data)
<1>1. \A r : ReadOut(mem, r)' = ReadOut(mem, r)
  BY DEF Kept, ReadOut
<1>2. \A r : Did(r)' <=> Did(r)
  BY DEF Kept, Did
<1> QED BY <1>1, <1>2 DEF Shown

LEMMA ExecutedShown ==
  ASSUME RequestsInv, NEW r \in Known, Executes(r)
  PROVE  /\ Did(r)'
         /\ \A data : (~r.write /\ r.addr \in Memory => data = ReadOut(mem, r)) => Shown(r, data)'
<1>1. count.ids \in Nat /\ budget.commands \in Nat
  BY BudgetKnown
<1>2. EndAddr(r) \in Int /\ EndAddr(r) < ADDR_END /\ r.addr \in Nat
  BY <1>1, RequestBytes DEF Known
<1>3. r.addr \in Memory => Bytes(r) \subseteq Memory
  BY <1>2, RegionAssumption DEF Bytes, Memory
<1>4. Did(r)'
  <2>1. ASSUME r.write, r.addr \in Memory, NEW a \in Bytes(r) PROVE mem'[a] = r.value
    BY <1>3, <2>1 DEF Executes, Written
  <2> QED BY <2>1 DEF Executes, Did, RESET, BOOT
<1>5. ~r.write => ReadOut(mem, r)' = ReadOut(mem, r)
  BY DEF Executes, ReadOut
<1> QED BY <1>4, <1>5 DEF Shown

\* Before a request is sent there is no answer to one.
LEMMA NoAnswer ==
  ASSUME Ground, InTime, ~Resetting, handler.outgoing_request = None
  PROVE  handler.outgoing_response = NoResponse /\ \A x \in Elems(toHost) : x.type # "host_resp"
<1>1. ThreadInv /\ LinkInv /\ ~Past
  BY DEF Ground, IInv, Past
<1>2. OneRequest(handler, tx, toDev, toHost, dev.request)
  BY <1>1, OneInTime DEF LeftOver
<1>3. ~Has(toHost, "host_resp") /\ handler.outgoing_response = NoResponse
  BY <1>2 DEF OneRequest
<1> QED BY <1>3, HasElems

\* Answers that are only carried further still show it.
Taken(u) == {[req |-> x.req, data |-> x.data] : x \in {y \in Elems(u) : y.type = "host_resp"}}

LEMMA CarriedShown ==
  ASSUME Kept, AnswersShown(handler, toHost), OwnInv', InTime', ~Resetting',
         handler'.outgoing_request = handler.outgoing_request,
         \A x \in Elems(toHost') : x.type = "host_resp" => x \in Elems(toHost),
         handler'.outgoing_response \in {handler.outgoing_response, NoResponse} \cup Taken(toHost)
  PROVE  AnswersShown(handler, toHost)'
<1>1. \A x \in Elems(toHost') : x.type = "host_resp" /\ x.req = handler'.outgoing_request => Shown(x.req, x.data)'
  BY KeptShown DEF AnswersShown
<1>2. ASSUME handler'.outgoing_response # NoResponse,
             NEW r, r = handler'.outgoing_response.req, NEW data, data = handler'.outgoing_response.data
      PROVE  Shown(r, data)'
  <2>1. r = handler'.outgoing_request
    BY <1>2 DEF OwnInv, OwnLink, Past
  <2>2. CASE handler'.outgoing_response = handler.outgoing_response
    BY <1>2, <2>2, KeptShown DEF AnswersShown
  <2>3. CASE handler'.outgoing_response \in Taken(toHost)
    <3>1. PICK x \in Elems(toHost) : x.type = "host_resp" /\ handler'.outgoing_response = [req |-> x.req, data |-> x.data]
      BY <2>3 DEF Taken
    <3>2. r = x.req /\ data = x.data
      BY <1>2, <3>1
    <3>3. Shown(x.req, x.data)
      BY <2>1, <3>1, <3>2 DEF AnswersShown
    <3> QED BY <3>2, <3>3, KeptShown
  <2> QED BY <1>2, <2>2, <2>3
<1> QED BY <1>1, <1>2 DEF AnswersShown

LEMMA TakeResponse ==
  ASSUME NEW h, IsHandler(h), NEW u, FromTarget(u), u # << >>, NEW g, g = FinalizeRx(h, Head(u))
  PROVE  /\ g.outgoing_response \in {h.outgoing_response} \cup Taken(u)
         /\ \A x \in Elems(Tail(u)) : x \in Elems(u)
<1>1. IsSeq(u) /\ Elems(u) = Elems(Tail(u)) \cup {Head(u)}
  BY FirstFromTarget, TailElems
<1>2. PICK x : x = Head(u)
  OBVIOUS
<1>3. CASE g = [h EXCEPT !.outgoing_response = [req |-> x.req, data |-> x.data]] /\ x.type = "host_resp"
  <2>1. g.outgoing_response = [req |-> x.req, data |-> x.data]
    BY <1>3 DEF IsHandler
  <2> QED BY <1>1, <1>2, <1>3, <2>1 DEF Taken
<1>4. CASE g = [h EXCEPT !.incoming_request = x.req] \/ g = h
  BY <1>1, <1>4 DEF IsHandler
<1> QED BY <1>2, <1>3, <1>4, <1>1 DEF FinalizeRx, IsResponse

LEMMA SimLinkCarries ==
  ASSUME LinkInv, SimLink
  PROVE  /\ \A x \in Elems(toHost') : x \in Elems(toHost)
         /\ handler'.outgoing_response \in {handler.outgoing_response} \cup Taken(toHost)
<1>1. IsHandler(handler) /\ IsSeq(tx) /\ IsSeq(toDev) /\ FromTarget(toHost)
  BY DEF LinkInv, Shaped
<1>2. PICK take, send, ready, h, e, sent, accepted, g, u, v :
        /\ take => toHost # << >> /\ CanTake(handler, Head(toHost))
        /\ h = (IF take THEN FinalizeRx(handler, Head(toHost)) ELSE handler)
        /\ e = Encoded(h)
        /\ sent = (IF send THEN AfterTx(h) ELSE h)
        /\ accepted = (IF HasIncoming(sent) THEN Accept(sent) ELSE sent)
        /\ g = (IF ready THEN Complete(accepted) ELSE accepted)
        /\ u = (IF take THEN Tail(toHost) ELSE toHost)
        /\ v = (IF send THEN toDev \o e ELSE toDev)
        /\ handler' = g /\ toHost' = u /\ toDev' = v
  BY SimLinkStep
<1>3. /\ IsHandler(h) /\ h.outgoing_response \in {handler.outgoing_response} \cup Taken(toHost)
      /\ \A x \in Elems(u) : x \in Elems(toHost)
  <2>1. CASE take
    BY <1>1, <1>2, <2>1, TakeOp, TakeResponse
  <2>2. CASE ~take
    BY <1>1, <1>2, <2>2
  <2> QED BY <2>1, <2>2
<1>4. IsHandler(sent) /\ sent.outgoing_response = h.outgoing_response
  <2>1. CASE send
    BY <1>1, <1>2, <1>3, <2>1, StartOp
  <2>2. CASE ~send
    BY <1>2, <1>3, <2>2
  <2> QED BY <2>1, <2>2
<1>5. IsHandler(accepted) /\ accepted.outgoing_response = sent.outgoing_response
  BY <1>2, <1>4, AcceptOp
<1>6. g.outgoing_response = accepted.outgoing_response
  <2>1. CASE ready
    BY <1>2, <1>5, <2>1, CompleteOp
  <2>2. CASE ~ready
    BY <1>2, <2>2
  <2> QED BY <2>1, <2>2
<1> QED BY <1>2, <1>3, <1>4, <1>5, <1>6

\* An answer that the target gives, or that the handler takes, shows it too.
LEMMA AnswersStep ==
  ASSUME Ground, Ground', ShownInv, [Next]_vars, InTime', ~Resetting'
  PROVE  AnswersShown(handler, toHost)'
<1>1. /\ InTime /\ OnePending /\ ClientInv /\ CommandsInv /\ ThreadInv /\ LinkInv /\ RequestsInv
      /\ OwnInv /\ OwnInv' /\ ~FpgaTimeOut /\ ~SimTimeOut /\ ~Failure /\ IsHandler(handler) /\ IsSeq(toHost)
  BY InTimeStep DEF Ground, Shaped, FromTarget
<1>2. CASE handler'.outgoing_request = None
  <2>1. \A data : Shown(None, data)'
    BY DEF Shown, Did, None, Request, Memory
  <2>2. handler'.outgoing_response # NoResponse => handler'.outgoing_response.req = None
    BY <1>1, <1>2 DEF OwnInv, OwnLink, Past
  <2> QED BY <1>2, <2>1, <2>2 DEF AnswersShown
<1>3. CASE handler'.outgoing_request # None
  <2>1. ~Settle /\ ~SimReset
    <3>1. NewHandler.outgoing_request = None
      BY DEF NewHandler
    <3> QED BY <1>3, <3>1 DEF Settle, SimReset
  <2>2. ~Resetting
    <3>1. Resetting => ~Response /\ ~Command
      BY <1>1 DEF OnePending, Response, Command, ThreadInv, Resetting
    <3> QED BY <2>1, <3>1, ResettingSteps DEF Resetting
  <2>3. AnswersShown(handler, toHost)
    BY <1>1, <2>2 DEF ShownInv
  <2>4. ASSUME handler.outgoing_request = None, UNCHANGED toHost, NEW q, handler' = SendRequest(handler, q)
        PROVE  AnswersShown(handler, toHost)'
    <3>1. handler'.outgoing_response = handler.outgoing_response
      BY <1>1, <2>4 DEF SendRequest, IsHandler
    <3> QED BY <1>1, <2>2, <2>4, <3>1, NoAnswer DEF AnswersShown
  <2>5. ASSUME UNCHANGED <<handler, toHost>>, Kept
        PROVE  AnswersShown(handler, toHost)'
    BY <1>1, <2>3, <2>5, CarriedShown
  <2>6. CASE Command
    <3>1. CASE Head(commands).type = "send"
      <4>1. \/ UNCHANGED handler \/ handler' = SendRequest(handler, pending)
        BY <1>1, <2>6, <3>1, HostExecutes
      <4>2. Waiting /\ UNCHANGED toHost
        BY <1>1, <2>6, <3>1, HostExecutes DEF link
      <4>3. handler.outgoing_request = None
        BY <1>1, <4>2 DEF OnePending
      <4> QED BY <1>3, <2>4, <4>1, <4>2, <4>3
    <3>2. CASE Head(commands).type = "reset"
      <4>1. FpgaReset(Head(commands).req) /\ UNCHANGED toHost
        BY <2>1, <2>6, <3>2 DEF Command, FpgaReset, link
      <4>2. PICK q : handler.outgoing_request = None /\ handler' = SendRequest(handler, q)
        BY <1>1, <2>6, <3>2, <4>1, ResetBegins
      <4> QED BY <2>4, <4>1, <4>2
    <3>3. CASE Head(commands).type = "shutdown"
      BY <2>5, <2>6, <3>3 DEF Command, Kept, link
    <3> QED BY <2>6, <3>1, <3>2, <3>3 DEF Command
  <2>7. CASE DevServe
    <3>1. PICK r : r = pending
      OBVIOUS
    <3>2. PICK data : /\ toHost' = Append(toHost, Packet("host_resp", r, data))
                      /\ ~r.write /\ r.addr \in Memory => data = ReadOut(mem, r)
      BY <1>1, <2>2, <2>7, <3>1, TargetExecutes
    <3>3. Executes(r) /\ r \in Known /\ UNCHANGED handler
      BY <1>1, <2>2, <2>7, <3>1, TargetExecutes DEF RequestsInv, DevServe
    <3>4. Shown(r, data)'
      BY <1>1, <3>2, <3>3, ExecutedShown
    <3>5. handler.outgoing_response = NoResponse /\ ~Has(toHost, "host_resp")
      BY <1>1, <2>2, <2>7, HeldPending DEF DevServe
    <3>6. PICK y : y = Packet("host_resp", r, data)
      OBVIOUS
    <3>7. y.req = r /\ y.data = data
      BY <3>6 DEF Packet
    <3>8. \A x \in Elems(toHost') : x.type = "host_resp" => x = y
      <4>1. Elems(toHost') = Elems(toHost) \cup {y}
        BY <1>1, <3>2, <3>6, AppendElems
      <4> QED BY <3>5, <4>1, HasElems
    <3> QED BY <3>3, <3>4, <3>5, <3>7, <3>8 DEF AnswersShown
  <2>8. ASSUME RxPacket \/ SimLink \/ TxPackets \/ FpgaCpu, Kept,
               \A x \in Elems(toHost') : x.type = "host_resp" => x \in Elems(toHost),
               handler'.outgoing_response \in {handler.outgoing_response} \cup Taken(toHost)
        PROVE  AnswersShown(handler, toHost)'
    <3>1. handler'.outgoing_request = handler.outgoing_request
      <4>1. CASE RxPacket
        BY <1>1, <4>1, TakeOp DEF RxPacket, LinkInv, Shaped
      <4>2. CASE TxPackets
        <5>1. PICK g : g = AfterTx(handler)
          OBVIOUS
        <5>2. handler' = AfterTx(g)
          BY <4>2, <5>1 DEF TxPackets
        <5>3. IsHandler(g) /\ g.outgoing_request = handler.outgoing_request
          BY <1>1, <5>1, StartOp, EmptySeq
        <5> QED BY <5>2, <5>3, StartOp, EmptySeq
      <4> QED BY <1>1, <2>8, <4>1, <4>2, SimLinkOwn, FpgaCpuOwn
    <3> QED BY <1>1, <2>3, <2>8, <3>1, CarriedShown
  <2>9. CASE RxPacket
    <3>1. Kept
      BY <2>9 DEF RxPacket, Kept
    <3> QED BY <1>1, <2>8, <2>9, <3>1, TakeResponse DEF RxPacket, LinkInv, Shaped
  <2>10. CASE SimLink
    <3>1. Kept
      BY <2>10 DEF SimLink, Kept
    <3> QED BY <1>1, <2>8, <2>10, <3>1, SimLinkCarries
  <2>11. CASE TxPackets
    <3>1. Kept /\ UNCHANGED toHost
      BY <2>11 DEF TxPackets, Kept
    <3>2. handler'.outgoing_response = handler.outgoing_response
      <4>1. PICK g : g = AfterTx(handler)
        OBVIOUS
      <4>2. handler' = AfterTx(g)
        BY <2>11, <4>1 DEF TxPackets
      <4>3. IsHandler(g) /\ g.outgoing_response = handler.outgoing_response
        BY <1>1, <4>1, StartOp, EmptySeq
      <4> QED BY <4>2, <4>3, StartOp, EmptySeq
    <3> QED BY <2>8, <2>11, <3>1, <3>2
  <2>12. CASE FpgaCpu
    <3>1. Kept /\ UNCHANGED toHost
      BY <2>12 DEF FpgaCpu, Kept, link
    <3>2. handler'.outgoing_response = handler.outgoing_response
      <4>1. CASE UNCHANGED handler
        BY <4>1
      <4>2. CASE HasIncoming(handler) /\ handler' = Complete(Accept(handler))
        <5>1. PICK g : g = Accept(handler)
          OBVIOUS
        <5>2. IsHandler(g) /\ g.outgoing_response = handler.outgoing_response
          BY <1>1, <4>2, <5>1, AcceptOp
        <5> QED BY <4>2, <5>1, <5>2, CompleteOp
      <4> QED BY <2>12, <4>1, <4>2 DEF FpgaCpu
    <3> QED BY <2>8, <2>12, <3>1, <3>2
  <2>13. CASE Response
    <3>1. direct # NoResponse
      <4>1. direct = NoResponse => handler' = ReceiveResponse(handler)
        BY <2>13 DEF Response
      <4>2. ReceiveResponse(handler).outgoing_request = None
        BY <1>1 DEF ReceiveResponse, IsHandler
      <4> QED BY <1>3, <4>1, <4>2
    <3>2. UNCHANGED <<handler, toHost>> /\ Kept
      BY <2>13, <3>1 DEF Response, Kept, link
    <3> QED BY <2>5, <3>2
  <2>14. CASE CpuIssue
    <3>1. PICK y : /\ y = Packet("cpu_req", Request(count.cpu + 1, FALSE, RTL_END, 4, 1, 0), << >>)
                   /\ toHost' = Append(toHost, y)
      BY <2>14 DEF CpuIssue
    <3>2. y.type = "cpu_req" /\ Elems(toHost') = Elems(toHost) \cup {y}
      BY <1>1, <3>1, AppendElems DEF Packet
    <3>3. UNCHANGED handler /\ Kept
      BY <1>1, <2>14 DEF CpuIssue, Kept, LinkInv, Shaped
    <3> QED BY <1>1, <2>3, <3>2, <3>3, CarriedShown
  <2>15. CASE DevTake
    <3>1. UNCHANGED <<handler, toHost>> /\ Kept
      BY <1>1, <2>15 DEF DevTake, Kept, LinkInv, Shaped
    <3> QED BY <2>5, <3>1
  <2>16. CASE Client \/ UNCHANGED vars
    <3>1. UNCHANGED <<handler, toHost, dev>>
      BY <2>16, ClientFrame DEF vars, link
    <3>2. UNCHANGED mem
      BY <2>16 DEF vars, Client, Start, Arm, Enqueue, AskReset, Poll, IdlePoll, Disconnect, Join, Drain, GiveUpReset
    <3> QED BY <2>5, <3>1, <3>2 DEF Kept
  <2>17. CASE NoCommand \/ NoTimeOut \/ SimNoResponse
    BY <2>5, <2>17 DEF NoCommand, NoTimeOut, SimNoResponse, Kept, link
  <2> QED BY <1>1, <2>1, <2>6, <2>7, <2>9, <2>10, <2>11, <2>12, <2>13, <2>14, <2>15, <2>16, <2>17 DEF Next, Thread
<1> QED BY <1>2, <1>3

\* The answer of the host's own bus waits for the background thread alone.
LEMMA DirectStep ==
  ASSUME Ground, Ground', ShownInv, [Next]_vars, InTime', direct' # NoResponse, NEW x, x = direct'
  PROVE  Shown(x.req, x.data)'
<1>1. InTime /\ OnePending /\ ThreadInv /\ CommandsInv /\ RequestsInv
  BY InTimeStep DEF Ground
<1>2. CASE direct # NoResponse /\ direct' = direct
  <2>1. pending # None /\ ~Resetting /\ ~Waiting /\ handler.outgoing_request = None
    BY <1>1, <1>2 DEF OnePending
  <2>2. ~(Command /\ commands # << >> /\ Head(commands).type = "reset" /\ SimReset)
    BY <1>1, <2>1, FirstCommand DEF OnePending
  <2>3. Kept
    BY <2>1, <2>2, World
  <2>4. Shown(direct.req, direct.data)
    BY <1>1, <1>2 DEF ShownInv
  <2> QED BY <1>2, <2>3, <2>4, KeptShown
<1>3. CASE direct' # direct
  <2>1. Command
    <3>1. Client => UNCHANGED direct
      BY ClientFrame
    <3>2. ~Client /\ ~Command => direct' \in {direct, NoResponse}
      BY ThreadFrame DEF Next, vars
    <3> QED BY <1>3, <3>1, <3>2
  <2>2. Head(commands).type = "send"
    BY <1>3, <2>1 DEF Command, FpgaReset, SimReset
  <2>3. PICK r : r = pending
    OBVIOUS
  <2>4. Executes(r) /\ x = Executed(r) /\ r \in Known
    BY <1>1, <1>3, <2>1, <2>2, <2>3, HostExecutes DEF RequestsInv
  <2>5. x.req = r /\ x.data = IF r.write THEN << >> ELSE ReadOut(mem, r)
    BY <2>4 DEF Executed
  <2> QED BY <1>1, <2>4, <2>5, ExecutedShown
<1> QED BY <1>2, <1>3

\* The request that a loop waits for, and that is no longer pending, has been carried out.
LEMMA AnsweredStep ==
  ASSUME Ground, Ground', AloneInv, ShownInv, [Next]_vars, InTime', main'.at = "poll", pending' = None,
         NEW r, r = main'.req
  PROVE  Did(r)'
<1>1. /\ InTime /\ OnePending /\ ThreadInv /\ CommandsInv /\ RequestsInv /\ IInv /\ ~FpgaTimeOut /\ ~SimTimeOut
  BY InTimeStep DEF Ground
<1>2. UNCHANGED main
  <2>1. main.at = "enqueue" => pending # None
    BY <1>1 DEF OnePending, Waiting
  <2> QED BY <1>1, <2>1, SendingSteps DEF Sending
<1>3. ~Resetting /\ ~Has(commands, "reset") /\ bg.resetting = "no"
  BY <1>1, <1>2 DEF OnePending, Resetting
<1>4. CASE pending = None
  <2>1. Did(r)
    BY <1>1, <1>2, <1>4 DEF ShownInv
  <2>2. Kept
    BY <1>1, <1>3, <1>4, World, FirstCommand
  <2> QED BY <2>1, <2>2, KeptShown
<1>5. CASE pending # None
  <2>1. pending = r
    BY <1>1, <1>2, <1>5 DEF AloneInv
  <2>2. CASE Command
    <3>1. Head(commands).type = "send"
      BY <1>1, <1>3, <1>5, <2>2, FirstCommand DEF Command
    <3>2. Executes(r)
      BY <1>1, <1>5, <2>1, <2>2, <3>1, HostExecutes
    <3> QED BY <1>1, <2>1, <3>2, ExecutedShown DEF RequestsInv
  <2>3. CASE Response
    <3>1. Received.req = r
      BY <1>1, <2>1, <2>3, ReceivedOwn DEF Response, Ground, IInv
    <3>2. Shown(Received.req, Received.data)
      BY <1>1, <1>3, <2>3 DEF ShownInv, AnswersShown, Received, Response, Available, HasResponse
    <3>3. Kept
      BY <2>3 DEF Response, Kept
    <3> QED BY <3>1, <3>2, <3>3, KeptShown DEF Shown
  <2>4. CASE Settle
    BY <1>1, <1>3, <2>4 DEF Settle, ThreadInv
  <2>5. CASE ~Command /\ ~Response /\ ~Settle
    <3>1. pending' = pending \/ main' # main
      <4>1. CASE Client
        <5>1. \/ Enqueue \/ Arm \/ UNCHANGED pending
          BY <4>1 DEF Client, Start, AskReset, Poll, IdlePoll, Disconnect, Join, Drain, GiveUpReset
        <5>2. ~Enqueue /\ ~Arm
          BY <1>2 DEF Enqueue, Arm
        <5> QED BY <5>1, <5>2
      <4>2. CASE ~Client
        BY <1>1, <2>5, <4>2 DEF Next, Thread, Failure, PortError, SimulationError, NoCommand, NoTimeOut, RxPacket, TxPackets, SimLink, FpgaCpu, SimNoResponse, CpuIssue, DevTake, DevServe, vars, client
      <4> QED BY <4>1, <4>2
    <3> QED BY <1>2, <1>5, <3>1
  <2> QED BY <2>2, <2>3, <2>4, <2>5
<1> QED BY <1>4, <1>5

LEMMA ShownStep == Ground /\ Ground' /\ AloneInv /\ ShownInv /\ [Next]_vars => ShownInv'
<1> SUFFICES ASSUME Ground, Ground', AloneInv, ShownInv, [Next]_vars, InTime' PROVE ShownInv'
  BY DEF ShownInv
<1>1. ~Resetting' => AnswersShown(handler, toHost)'
  BY AnswersStep
<1>2. \A x : direct' # NoResponse /\ x = direct' => Shown(x.req, x.data)'
  BY DirectStep
<1>3. \A r : main'.at = "poll" /\ pending' = None /\ r = main'.req => Did(r)'
  BY AnsweredStep
<1>4. direct' # NoResponse => Shown(direct.req, direct.data)'
  BY <1>2 DEF Shown, Did, ReadOut, Bytes, EndAddr
<1>5. main'.at = "poll" /\ pending' = None => Did(main.req)'
  BY <1>3 DEF Did, Bytes, EndAddr
<1> QED BY <1>1, <1>4, <1>5 DEF ShownInv

(***************************************************************************)
(* A system reset in time.                                                 *)
(***************************************************************************)
\* What is sent by its one pass, if the port takes all of it.
LEMMA ResetSent ==
  ASSUME Ground, InTime, Resetting, SysReset(handler.outgoing_request), ~handler.tx_started,
         TxPackets, tx' = << >>
  PROVE  \E x \in Elems(toDev') : IsReset(x)
<1>1. IsHandler(handler) /\ IsSeq(tx) /\ IsSeq(toDev)
  BY DEF Ground, IInv, LinkInv, Shaped
<1>2. PICK g : g = AfterTx(handler)
  OBVIOUS
<1>3. IsHandler(g) /\ g.outgoing_request = handler.outgoing_request
  BY <1>1, <1>2, StartOp
<1>4. PICK e : e = Encoded(handler)
  OBVIOUS
<1>5. PICK f : f = Encoded(g)
  OBVIOUS
<1>6. IsSeq(e) /\ IsSeq(f)
  BY <1>1, <1>3, <1>4, <1>5, EncodedHas
<1>7. handler.outgoing_request # None
  BY DEF SysReset, None, Request, RESET_SYSTEM
<1>8. Has(e, "host_req") \/ Has(f, "host_req")
  <2>1. CASE ~(handler.accepted_request # None /\ handler.pending_response)
    BY <1>1, <1>4, <1>7, <2>1, EncodedHas
  <2>2. CASE handler.accepted_request # None /\ handler.pending_response
    <3>1. g = [handler EXCEPT !.accepted_request = None, !.pending_response = FALSE]
      BY <1>2, <2>2 DEF AfterTx, HasTx, StartTx
    <3>2. g.accepted_request = None /\ g.tx_started = handler.tx_started
      BY <1>1, <3>1 DEF IsHandler
    <3> QED BY <1>3, <1>5, <1>7, <3>2, EncodedHas
  <2> QED BY <2>1, <2>2
<1>9. \E x \in Elems(e) \cup Elems(f) : IsReset(x)
  <2>1. \A i \in 1 .. Len(e) : e[i].type = "host_req" => IsReset(e[i])
    BY <1>1, <1>4, EncodedHas DEF IsReset
  <2>2. \A i \in 1 .. Len(f) : f[i].type = "host_req" => IsReset(f[i])
    BY <1>3, <1>5, EncodedHas DEF IsReset
  <2> QED BY <1>8, <2>1, <2>2 DEF Has, Elems
<1>10. PICK full : full = tx \o e \o f
  OBVIOUS
<1>11. IsSeq(full) /\ Elems(full) = Elems(tx) \cup Elems(e) \cup Elems(f)
  BY <1>1, <1>6, <1>10, ConcatElems
<1>12. PICK n \in 0 .. Len(full) : toDev' = toDev \o SubSeq(full, 1, n) /\ tx' = SubSeq(full, n + 1, Len(full))
  BY <1>2, <1>4, <1>5, <1>10 DEF TxPackets
<1>13. PICK a : a = SubSeq(full, 1, n)
  OBVIOUS
<1>14. IsSeq(a) /\ Elems(full) = Elems(a)
  <2>1. IsSeq(a) /\ Elems(full) = Elems(a) \cup Elems(SubSeq(full, n + 1, Len(full)))
    BY <1>11, <1>13, SplitElems
  <2> QED BY <1>12, <2>1, EmptyElems
<1>15. Elems(toDev') = Elems(toDev) \cup Elems(a)
  BY <1>1, <1>12, <1>13, <1>14, ConcatElems
<1> QED BY <1>9, <1>11, <1>14, <1>15

\* A target that has been reset, or is about to be, stays so.
Restarts(d, t) == \/ d = Booting /\ t = << >>
                  \/ SysReset(d.request)
                  \/ \E x \in Elems(t) : IsReset(x)

LEMMA TargetRestarts ==
  ASSUME LinkInv, ~count.botched, Restarts(dev, toDev), CpuIssue \/ DevTake \/ DevServe
  PROVE  Restarts(dev', toDev')
<1>1. /\ ResetLast /\ DOMAIN dev = {"cpu_wait_resp", "request", "booting"} /\ IsSeq(toDev)
      /\ Booting.request = None /\ Booting.booting = TRUE /\ ~SysReset(None)
  BY DEF LinkInv, Shaped, Booting, SysReset, None, Request, RESET_SYSTEM
<1>2. CASE CpuIssue
  <2>1. dev # Booting /\ UNCHANGED toDev
    BY <1>1, <1>2 DEF CpuIssue
  <2>2. dev'.request = dev.request
    BY <1>1, <1>2 DEF CpuIssue
  <2> QED BY <2>1, <2>2 DEF Restarts
<1>3. CASE DevTake
  <2>1. toDev # << >> /\ toDev' = Tail(toDev) /\ ~SysReset(dev.request)
    BY <1>1, <1>3 DEF DevTake, ResetLast
  <2>2. PICK x \in Elems(toDev) : IsReset(x)
    BY <2>1 DEF Restarts
  <2>3. Elems(toDev) = Elems(toDev') \cup {Head(toDev)}
    BY <1>1, <2>1, TailElems
  <2>4. CASE x \in Elems(toDev')
    BY <2>2, <2>4 DEF Restarts
  <2>5. CASE x = Head(toDev)
    <3>1. dev' = [dev EXCEPT !.request = x.req]
      BY <1>3, <2>2, <2>5 DEF DevTake, IsReset
    <3>2. dev'.request = x.req
      BY <1>1, <3>1
    <3> QED BY <2>2, <3>2 DEF Restarts, IsReset
  <2> QED BY <2>3, <2>4, <2>5, <2>2
<1>4. CASE DevServe
  <2>1. dev # Booting /\ UNCHANGED toDev
    BY <1>1, <1>4 DEF DevServe
  <2>2. CASE SysReset(dev.request)
    <3>1. toDev = << >>
      BY <1>1, <2>2 DEF ResetLast
    <3>2. Serve(<< >>, Booting) \/ dev' = Booting
      BY <1>4, <2>2, RegionAssumption DEF DevServe, SysReset, RESET_SYSTEM, RESET_CPU, RESET, BOOT, STATUS, Memory
    <3>3. [Booting EXCEPT !.request = None] = Booting
      <4>1. \A x, y : [[cpu_wait_resp |-> x, request |-> None, booting |-> y] EXCEPT !.request = None]
                       = [cpu_wait_resp |-> x, request |-> None, booting |-> y]
        OBVIOUS
      <4> QED BY <4>1, Zenon DEF Booting
    <3> QED BY <2>1, <3>1, <3>2, <3>3 DEF Restarts, Serve
  <2>3. CASE ~SysReset(dev.request)
    BY <2>1, <2>3 DEF Restarts
  <2> QED BY <2>2, <2>3
<1> QED BY <1>2, <1>3, <1>4

LEMMA RestartStep == Ground /\ Ground' /\ RestartInv /\ [Next]_vars => RestartInv'
<1> SUFFICES ASSUME Ground, Ground', RestartInv, [Next]_vars, InTime' PROVE RestartInv'
  BY DEF RestartInv
<1>1. /\ InTime /\ OnePending /\ ThreadInv /\ LinkInv /\ IsHandler(handler) /\ UNCHANGED backend
      /\ DOMAIN bg = {"at", "resetting"} /\ ~FpgaTimeOut /\ ~SimTimeOut /\ ~Failure /\ ~count.botched
      /\ FromTarget(toHost)
  BY InTimeStep DEF Shaped, ThreadInv
<1>2. CASE ~Resetting'
  BY <1>2 DEF RestartInv, Past
<1>3. CASE Resetting' /\ ~Resetting
  <2>1. /\ Command /\ commands # << >> /\ Head(commands).type = "reset" /\ backend = "fpga" /\ bg'.resetting = "system"
    BY <1>1, <1>3, ResettingSteps DEF Resetting
  <2>2. FpgaReset(Head(commands).req)
    BY <2>1 DEF Command, SimReset
  <2>3. PICK q : /\ handler.outgoing_request = None /\ handler' = SendRequest(handler, q)
                 /\ bg' = [at |-> "timeout", resetting |-> IF q.value = RESET_CPU THEN "cpu" ELSE "system"]
                 /\ ResetRequest(q)
    BY <1>1, <2>1, <2>2, ResetBegins
  <2>4. handler'.outgoing_request = q /\ handler'.tx_started = handler.tx_started /\ bg'.at = "timeout"
    BY <1>1, <2>3 DEF SendRequest, IsHandler
  <2>5. ~handler.tx_started
    <3>1. OneRequest(handler, tx, toDev, toHost, dev.request)
      BY <1>1, <1>3, OneInTime DEF LeftOver, Past
    <3> QED BY <2>3, <3>1 DEF OneRequest
  <2>6. SysReset(q)
    <3>1. q.addr = RESET
      BY <2>3 DEF ResetRequest, Request
    <3> QED BY <2>1, <2>3, <3>1 DEF ResetRequest, SysReset
  <2> QED BY <2>4, <2>5, <2>6 DEF RestartInv, Past
<1>4. CASE Resetting' /\ Resetting
  <2>1. bg.at \in {"timeout", "link", "response", "settle"} /\ pending = None /\ backend = "fpga"
    BY <1>1, <1>4 DEF ThreadInv, OnePending, Resetting
  <2>2. ~Command /\ ~NoCommand /\ ~SimLink /\ ~Response /\ ~SimNoResponse /\ ~Settle
    <3>1. Settle => bg'.resetting = "no"
      BY DEF Settle, ResetOver
    <3> QED BY <1>4, <2>1, <3>1 DEF Command, NoCommand, SimLink, Response, SimNoResponse, Resetting
  <2>3. CASE UNCHANGED <<bg, handler>>
    <3>1. UNCHANGED <<dev, toDev>> \/ CpuIssue \/ DevTake \/ DevServe
      <4>1. CASE Client
        BY <4>1, ClientFrame
      <4>2. CASE Thread
        <5>1. TxPackets => bg'.at # bg.at
          BY <1>1, <2>1 DEF TxPackets, Proceed, Order
        <5> QED BY <1>1, <2>2, <2>3, <4>2, <5>1 DEF Thread, NoTimeOut, RxPacket, FpgaCpu, link
      <4> QED BY <1>1, <4>1, <4>2 DEF Next, vars, link
    <3>2. Past' <=> Past
      BY <2>3 DEF Past, Resetting
    <3>3. Past => Restarts(dev, toDev)
      BY <1>1 DEF RestartInv, Restarts, Elems
    <3>4. Past' => Restarts(dev', toDev')
      BY <1>1, <3>1, <3>2, <3>3, TargetRestarts
    <3> QED BY <1>1, <2>3, <3>4 DEF RestartInv, Restarts, Elems, Resetting
  <2>4. CASE NoTimeOut
    <3>1. bg.at = "timeout" /\ bg'.at = "link" /\ UNCHANGED handler
      BY <1>1, <2>1, <2>4 DEF NoTimeOut, Proceed, Order
    <3> QED BY <1>1, <1>4, <3>1 DEF RestartInv, Past
  <2>5. CASE RxPacket
    <3>1. bg.at = "link" /\ UNCHANGED bg
      BY <2>5 DEF RxPacket
    <3>2. handler'.outgoing_request = handler.outgoing_request /\ handler'.tx_started = handler.tx_started
      BY <1>1, <2>5, TakeOp DEF RxPacket
    <3> QED BY <1>1, <1>4, <3>1, <3>2 DEF RestartInv, Past, Resetting
  <2>6. CASE TxPackets
    <3>1. bg.at = "link" /\ bg'.at = "response"
      BY <1>1, <2>1, <2>6 DEF TxPackets, Proceed, Order
    <3>2. SysReset(handler.outgoing_request) /\ ~handler.tx_started
      BY <1>1, <1>4, <3>1 DEF RestartInv
    <3>3. tx' = << >>
      <4>1. ASSUME tx' # << >> PROVE FALSE
        <5>1. count' = [count EXCEPT !.faults = @ + 1]
          BY <1>4, <2>6, <4>1 DEF TxPackets, Fault, Resetting
        <5>2. count'.faults = count.faults + 1
          BY <1>1, <5>1 DEF LinkInv, Shaped
        <5> QED BY <1>1, <5>2 DEF InTime
      <4> QED BY <4>1
    <3>4. \E x \in Elems(toDev') : IsReset(x)
      BY <1>1, <1>4, <2>6, <3>2, <3>3, ResetSent
    <3> QED BY <3>1, <3>4 DEF RestartInv, Elems
  <2>7. CASE FpgaCpu
    <3>1. bg.at = "response" /\ bg'.at = "settle" /\ UNCHANGED <<dev, toDev>>
      BY <1>1, <1>4, <2>7, PassDoneKeeps DEF FpgaCpu, link
    <3> QED BY <1>1, <1>4, <3>1 DEF RestartInv, Past
  <2>8. CASE Client \/ CpuIssue \/ DevTake \/ DevServe \/ UNCHANGED vars
    <3>1. UNCHANGED <<bg, handler>>
      BY <2>8, ClientFrame DEF CpuIssue, DevTake, DevServe, vars
    <3> QED BY <2>3, <3>1
  <2> QED BY <1>1, <2>2, <2>4, <2>5, <2>6, <2>7, <2>8 DEF Next, Thread
<1> QED BY <1>2, <1>3, <1>4

(***************************************************************************)
(* What a system reset leaves.                                             *)
(***************************************************************************)
Clean == \/ main.at = "drain"
         \/ main.at = "idle" /\ main.result = "done" /\ main.cmd \in {"hard_reset", "connect_system"}

\* Nothing comes into a system that is fresh, as long as nothing is asked of it.
LEMMA StaysFresh ==
  ASSUME Ground, AloneInv, Clean, Fresh, [Next]_vars, InTime'
  PROVE  Fresh'
<1>1. /\ InTime /\ OnePending /\ ThreadInv /\ CommandsInv /\ ~FpgaTimeOut /\ ~SimTimeOut /\ ~Failure
  BY InTimeStep
<1>2. pending = None /\ main.at \in {"drain", "idle"}
  BY <1>1 DEF Clean, AloneInv
<1>3. ~Command /\ ~Response /\ ~Settle
  <2>1. ~Waiting /\ ~Has(commands, "reset") /\ ~Has(commands, "shutdown") /\ bg.resetting = "no"
    BY <1>1, <1>2 DEF OnePending
  <2>2. ~Command
    BY <1>1, <2>1, FirstCommand DEF Waiting, Command
  <2> QED BY <1>1, <1>2, <2>1, <2>2 DEF Response, Settle, ThreadInv, Resetting
<1>4. /\ dev = Booting /\ handler = NewHandler /\ direct = NoResponse
      /\ tx = << >> /\ toDev = << >> /\ toHost = << >>
  BY DEF Fresh, link
<1>5. dev.booting /\ dev.request = None
  BY <1>4 DEF Booting
<1>6. ~CpuIssue /\ ~DevTake /\ ~DevServe /\ ~RxPacket
  BY <1>4, <1>5 DEF CpuIssue, DevTake, DevServe, RxPacket
<1>7. ~HasTx(handler) /\ ~HasIncoming(handler) /\ ~Completable(handler)
  BY <1>4 DEF NewHandler, HasTx, HasIncoming, Completable
<1>8. Encoded(handler) = << >> /\ AfterTx(handler) = handler
  BY <1>7 DEF Encoded, AfterTx
<1>9. CASE TxPackets
  <2>1. PICK full : full = tx \o Encoded(handler) \o Encoded(AfterTx(handler))
    OBVIOUS
  <2>2. full = << >> /\ Len(full) = 0
    BY <1>4, <1>8, <2>1
  <2>3. PICK n \in 0 .. Len(full) : toDev' = toDev \o SubSeq(full, 1, n) /\ tx' = SubSeq(full, n + 1, Len(full))
    BY <1>9, <2>1 DEF TxPackets
  <2>4. n = 0
    BY <2>2, <2>3
  <2>5. SubSeq(full, 1, 0) = << >> /\ << >> \o << >> = << >>
    BY <2>2
  <2>6. toDev' = << >> /\ tx' = << >>
    BY <1>4, <2>2, <2>3, <2>4, <2>5
  <2>7. UNCHANGED <<handler, dev, direct, toHost>>
    BY <1>8, <1>9 DEF TxPackets
  <2> QED BY <1>4, <2>6, <2>7 DEF Fresh, link
<1>10. CASE SimLink
  <2>1. UNCHANGED <<handler, toHost, toDev>>
    BY <1>4, <1>7, <1>10 DEF SimLink
  <2>2. UNCHANGED <<tx, dev, direct>>
    BY <1>10 DEF SimLink
  <2> QED BY <1>4, <2>1, <2>2 DEF Fresh, link
<1>11. CASE Client \/ UNCHANGED vars
  <2>1. UNCHANGED <<handler, direct, tx, toDev, toHost, dev>>
    BY <1>11, ClientFrame DEF vars, link
  <2> QED BY <1>4, <2>1 DEF Fresh, link
<1>12. CASE NoCommand \/ NoTimeOut \/ SimNoResponse \/ FpgaCpu
  <2>1. UNCHANGED <<handler, direct, tx, toDev, toHost, dev>>
    BY <1>7, <1>12 DEF NoCommand, NoTimeOut, SimNoResponse, FpgaCpu, link
  <2> QED BY <1>4, <2>1 DEF Fresh, link
<1> QED BY <1>1, <1>3, <1>6, <1>9, <1>10, <1>11, <1>12 DEF Next, Thread

LEMMA Refreshed ==
  ASSUME Ground, RestartInv, InTime, ~count.botched,
         (Settle /\ Resetting) \/ SimReset
  PROVE  Fresh'
<1>1. CASE SimReset
  BY <1>1 DEF SimReset, Fresh, link
<1>2. CASE Settle /\ Resetting
  <2>1. dev.request = None /\ toDev = << >> /\ Past
    BY <1>2 DEF Settle, Past
  <2>2. ~SysReset(dev.request) /\ Len(toDev) = 0
    BY <2>1 DEF SysReset, None, Request, RESET_SYSTEM
  <2>3. dev = Booting
    BY <2>1, <2>2 DEF RestartInv
  <2>4. direct = NoResponse
    BY <1>2 DEF Ground, PendingInv, OnePending
  <2> QED BY <1>2, <2>1, <2>3, <2>4 DEF Settle, Fresh, link
<1> QED BY <1>1, <1>2

LEMMA FreshStep == Ground /\ KindInv /\ AloneInv /\ RestartInv /\ FreshInv /\ [Next]_vars => FreshInv'
<1> SUFFICES ASSUME Ground, KindInv, AloneInv, RestartInv, FreshInv, [Next]_vars, InTime', Clean' PROVE Fresh'
  BY DEF FreshInv, Clean
<1>1. /\ InTime /\ OnePending /\ ClientInv /\ ~count.botched
      /\ DOMAIN main = {"at", "cmd", "call", "offset", "data", "req", "region", "result", "fresh"}
  BY InTimeStep
<1>2. CASE Clean
  BY <1>1, <1>2, StaysFresh DEF FreshInv, Clean
<1>3. CASE ~Clean
  <2>1. ~UNCHANGED main
    BY <1>3 DEF Clean
  <2>2. ASSUME NEW data, main' = Advance(data), Active, Call \notin {"reset_system", "start_system"}
        PROVE  FALSE
    <3>1. main'.at # "drain"
      BY <1>1, <2>2, MainAt
    <3>2. main'.cmd = main.cmd
      BY <1>1, <2>2, AdvanceFields
    <3>3. main.cmd \in DOMAIN Script /\ main.call \in 1 .. Len(Script[main.cmd])
      BY <1>1, <2>2 DEF ClientInv
    <3>4. main.cmd \in {"hard_reset", "connect_system"} => Call \in {"reset_system", "start_system"}
      BY <3>3, DoneCommand DEF Call
    <3> QED BY <2>2, <3>1, <3>2, <3>4 DEF Clean
  <2>3. CASE Client
    <3>1. ~Starts
      BY StartFields DEF Clean
    <3>2. ~Asks("enqueue") /\ ~Asks("wait_reset")
      <4>1. Asks("enqueue") \/ Asks("wait_reset") => main'.at \in {"enqueue", "wait_reset"}
        BY <1>1, PlaceFields DEF Asks
      <4> QED BY <4>1 DEF Clean
    <3>3. main' # Finish("refused")
      <4>1. main' = Finish("refused") => main'.at = "idle" /\ main'.result = "refused"
        BY <1>1, PlaceFields
      <4> QED BY <4>1 DEF Clean
    <3>4. ~(main.cmd \in {"read", "write"} /\ main' = Finish("done"))
      BY <1>1, PlaceFields DEF Clean
    <3>5. main' # [main EXCEPT !.at = "poll"]
      BY <1>1, PlaceFields DEF Clean
    <3>6. ASSUME NEW e, Took(e) PROVE FALSE
      <4>1. Active /\ main.cmd \notin Connecting /\ Sending
        BY <1>1, <3>6 DEF Took, Active, ClientInv, Sending
      <4>2. Call # "reset_system"
        BY <4>1 DEF Ground, CallInv, ByCommand
      <4>3. Call # "start_system"
        BY <1>1, <4>1, CallKnown DEF PlainCalls, RegionCalls
      <4> QED BY <2>2, <3>6, <4>1, <4>2, <4>3 DEF Took
    <3>7. ~(main'.at \in {"join", "gone"}) /\ main.at # "drain"
      BY <1>3 DEF Clean
    <3> QED BY <2>1, <2>3, <3>1, <3>2, <3>3, <3>4, <3>5, <3>6, <3>7, ClientInTime
  <2>4. CASE ~Client
    <3>1. ResetDone
      BY <2>1, <2>4, ThreadInTime
    <3>2. CASE Call \in {"reset_system", "start_system"}
      BY <1>1, <3>1, <3>2, Refreshed DEF ResetDone
    <3>3. CASE Call \notin {"reset_system", "start_system"}
      <4>1. main' = Advance(<< >>) /\ Active
        BY <3>1, <3>3 DEF ResetDone, Active
      <4> QED BY <2>2, <3>3, <4>1
    <3> QED BY <3>2, <3>3
  <2> QED BY <2>3, <2>4
<1> QED BY <1>2, <1>3

(***************************************************************************)
(* How far a command comes.                                                *)
(***************************************************************************)
\* What the requests of a call are.
RequestOf(call, region, offset, value, r) ==
  /\ r.write /\ r.addr \in Memory => call \in {"write_region", "send_write"} /\ r.value = value
  /\ call = "write_region" => r.write = TRUE /\ r.value = value
  /\ call = "read_region" => r.write = FALSE
  /\ call \in {"write_region", "read_region"} =>
       /\ r.addr = region.addr + offset /\ r.addr \in Memory
       /\ r.size \in Nat /\ r.beats \in Nat /\ r.size * r.beats \in Nat \ {0}
       /\ r.size * r.beats <= region.len - offset
  /\ call = "boot_cpu" /\ ~(offset + 1 < 2) => r.write = TRUE /\ r.addr = BOOT
  /\ call = "reset_cpu" => r.write = TRUE /\ r.addr = RESET /\ r.value = RESET_CPU

LEMMA RequestKinds ==
  ASSUME NEW call \in PlainCalls \cup RegionCalls, call # "drop",
         NEW region \in REGIONS \cup {NoRegion}, call \in RegionCalls => region \in REGIONS,
         NEW offset \in Nat, offset < CallLength(call, region), NEW id, NEW value,
         NEW r, r = RequestAt(call, region, offset, id, value)
  PROVE  RequestOf(call, region, offset, value, r)
<1>1. CASE call \in {"write_region", "read_region"}
  <2>1. region.addr \in Memory /\ region.len \in 1 .. ADDR_END - region.addr /\ offset < region.len
    BY <1>1, RegionsAssumption DEF RegionCalls, CallLength
  <2>2. region.addr \in Int /\ region.len \in Int /\ region.addr >= 12 /\ region.addr + region.len <= ADDR_END
    BY <2>1, RegionAssumption DEF Memory
  <2>3. PICK c : c = Chunk(region.addr + offset, region.len - offset)
    OBVIOUS
  <2>4. c.size \in {1, 2, 4} /\ c.beats \in 1 .. MAX_BURST_BEATS /\ c.size * c.beats <= region.len - offset
    BY <2>1, <2>2, <2>3, ChunkShape
  <2>5. region.addr + offset \in Memory
    BY <2>1, <2>2, RegionAssumption DEF Memory
  <2>6. c.size \in Nat /\ c.beats \in Nat /\ c.size * c.beats \in Nat \ {0}
    BY <2>4, RegionAssumption
  <2>7. CASE call = "write_region"
    <3>1. r = Request(id, TRUE, region.addr + offset, c.size, c.beats, value)
      BY <2>3, <2>7 DEF RequestAt
    <3>2. /\ r.write = TRUE /\ r.addr = region.addr + offset /\ r.size = c.size /\ r.beats = c.beats
          /\ r.value = value
      BY <3>1 DEF Request
    <3> QED BY <2>4, <2>5, <2>6, <2>7, <3>2 DEF RequestOf
  <2>8. CASE call = "read_region"
    <3>1. r = Request(id, FALSE, region.addr + offset, c.size, c.beats, 0)
      BY <2>3, <2>8 DEF RequestAt
    <3>2. r.write = FALSE /\ r.addr = region.addr + offset /\ r.size = c.size /\ r.beats = c.beats
      BY <3>1 DEF Request
    <3> QED BY <2>4, <2>5, <2>6, <2>8, <3>2 DEF RequestOf
  <2> QED BY <1>1, <2>7, <2>8
<1>2. CASE call = "boot_cpu"
  <2>1. offset \in {0, 1}
    BY <1>2 DEF CallLength
  <2>2. CASE offset = 0
    <3>1. r = Request(id, FALSE, STATUS, 4, 1, 0)
      BY <1>2, <2>2 DEF RequestAt
    <3>2. r.write = FALSE
      BY <3>1 DEF Request
    <3> QED BY <1>2, <2>2, <3>2 DEF RequestOf
  <2>3. CASE offset = 1
    <3>1. r = Request(id, TRUE, BOOT, 4, 1, value)
      BY <1>2, <2>3 DEF RequestAt
    <3>2. r.write = TRUE /\ r.addr = BOOT /\ r.value = value /\ BOOT \notin Memory
      BY <3>1, RegionAssumption DEF Request, BOOT, Memory
    <3> QED BY <1>2, <2>3, <3>2 DEF RequestOf
  <2> QED BY <2>1, <2>2, <2>3
<1>3. CASE call \in {"reset_cpu", "reset_system"}
  <2>1. PICK v : v = IF call = "reset_cpu" THEN RESET_CPU ELSE RESET_SYSTEM
    OBVIOUS
  <2>2. r = Request(id, TRUE, RESET, 4, 1, v)
    BY <1>3, <2>1 DEF RequestAt
  <2>3. r.write = TRUE /\ r.addr = RESET /\ r.value = v /\ RESET \notin Memory
    BY <2>2, RegionAssumption DEF Request, RESET, Memory
  <2> QED BY <1>3, <2>1, <2>3 DEF RequestOf
<1>4. CASE call = "send_read"
  <2>1. r = Request(id, FALSE, region.addr, AlignedSize(region), 1, 0)
    BY <1>4 DEF RequestAt
  <2>2. r.write = FALSE
    BY <2>1 DEF Request
  <2> QED BY <1>4, <2>2 DEF RequestOf
<1>5. CASE call = "send_write"
  <2>1. r = Request(id, TRUE, region.addr, AlignedSize(region), 1, value)
    BY <1>5 DEF RequestAt
  <2>2. r.value = value
    BY <2>1 DEF Request
  <2> QED BY <1>5, <2>2 DEF RequestOf
<1> QED BY <1>1, <1>2, <1>3, <1>4, <1>5 DEF PlainCalls, RegionCalls

\* The request that the client has made is one of those.
LEMMA SendingRequest ==
  ASSUME ClientInv, CallInv, OffsetInv, Sending
  PROVE  /\ Active /\ main.cmd \notin Connecting /\ Call \in PlainCalls \cup RegionCalls /\ Call # "drop"
         /\ Call \in RegionCalls => main.region \in REGIONS
         /\ main.region \in REGIONS \cup {NoRegion} /\ main.offset \in Nat
         /\ main.offset < CallLength(Call, main.region)
         /\ main.req = RequestAt(Call, main.region, main.offset, main.req.id, count.commands)
<1>1. Active /\ main.cmd \notin Connecting
  BY DEF Sending, Active, ClientInv
<1>2. Call \in PlainCalls \cup RegionCalls /\ (Call \in RegionCalls => main.region \in REGIONS)
  BY <1>1, CallKnown
<1>3. main.region \in REGIONS \cup {NoRegion} /\ main.offset \in Nat
  BY DEF ClientInv
<1> QED BY <1>1, <1>2, <1>3 DEF OffsetInv

LEMMA SendingKinds ==
  ASSUME ClientInv, CallInv, OffsetInv, Sending
  PROVE  RequestOf(Call, main.region, main.offset, count.commands, main.req)
<1>1. PICK call, region, offset, id, value, r :
        /\ call = Call /\ region = main.region /\ offset = main.offset /\ id = main.req.id
        /\ value = count.commands /\ r = main.req
  OBVIOUS
<1>2. /\ call \in PlainCalls \cup RegionCalls /\ call # "drop" /\ (call \in RegionCalls => region \in REGIONS)
      /\ region \in REGIONS \cup {NoRegion} /\ offset \in Nat /\ offset < CallLength(call, region)
      /\ r = RequestAt(call, region, offset, id, value)
  BY <1>1, SendingRequest
<1>3. RequestOf(call, region, offset, value, r)
  BY <1>2, RequestKinds
<1> QED BY <1>1, <1>3

\* A command that has shown nothing yet.
Early == main.call = 1 /\ ~Comparing /\ (Call = "write_region" => main.offset = 0)

LEMMA ShortScripts ==
  ASSUME NEW cmd \in {"hard_reset", "reset", "read", "write"}
  PROVE  Len(Script[cmd]) = 1
BY DEF Script, ResetSystem, ResetCpu, Read, Write

LEMMA SystemReset ==
  ASSUME ClientInv, Active, main.cmd \notin Connecting, Call \in {"reset_system", "start_system"}
  PROVE  main.cmd = "hard_reset" /\ Call = "reset_system" /\ main.call = 1 /\ Early
<1>1. main.cmd \in DOMAIN Script /\ main.call \in 1 .. Len(Script[main.cmd])
  BY DEF ClientInv
<1>2. Call = "reset_system"
  BY CallKnown DEF PlainCalls, RegionCalls
<1>3. main.cmd = "hard_reset"
  BY <1>1, <1>2, DoneCommand DEF Call
<1>4. main.call = 1
  <2>1. Len(Script[main.cmd]) = 1
    BY <1>3, ShortScripts
  <2> QED BY <1>1, <2>1
<1> QED BY <1>2, <1>3, <1>4 DEF Early, Comparing

\* Memory changes by the command's own request.
LEMMA MemoryInStep ==
  ASSUME Ground, KindInv, AloneInv, OffsetInv, [Next]_vars, InTime', Active, main.cmd \notin Connecting
  PROVE  \/ UNCHANGED mem
         \/ Early
         \/ /\ Sending /\ Call = "write_region" /\ main.req.value = count.commands
            /\ mem' = Written(mem, main.req)
<1>1. InTime /\ OnePending /\ ClientInv /\ CommandsInv /\ CallInv
  BY InTimeStep DEF Ground
<1>2. main.cmd \in DOMAIN Script /\ main.call \in 1 .. Len(Script[main.cmd]) /\ main.offset \in Nat
  BY <1>1 DEF ClientInv
<1>3. CASE Resetting
  BY <1>1, <1>3, SystemReset DEF KindInv
<1>4. CASE Command /\ commands # << >> /\ Head(commands).type = "reset" /\ SimReset
  <2>1. Head(commands) \in Elems(commands)
    BY <1>1, <1>4, TailElems DEF CommandsInv
  <2>2. Call = "reset_system"
    BY <1>1, <1>4, <2>1 DEF KindInv, SimReset
  <2> QED BY <1>1, <2>2, SystemReset
<1>5. CASE pending # None /\ Executes(pending) /\ pending.write /\ pending.addr \in Memory
  <2>1. mem' = Written(mem, pending)
    BY <1>5 DEF Executes
  <2>2. CASE main.at = "next"
    <3>1. ~Comparing /\ ~(main.call > 1) /\ ~(main.offset > 0)
      BY <1>1, <1>5, <2>2 DEF AloneInv
    <3> QED BY <1>2, <3>1 DEF Early
  <2>3. CASE Sending
    <3>1. pending = main.req
      BY <1>1, <1>5, <2>3 DEF Sending, OnePending, AloneInv
    <3>2. Call \in {"write_region", "send_write"} /\ main.req.value = count.commands
      BY <1>1, <1>5, <2>3, <3>1, SendingKinds DEF RequestOf
    <3>3. CASE Call = "send_write"
      <4>1. main.cmd \in {"read", "write"}
        BY <1>2, <3>3, SendCalls DEF Call
      <4>2. Len(Script[main.cmd]) = 1
        BY <4>1, ShortScripts
      <4> QED BY <1>2, <3>3, <4>1, <4>2 DEF Early, Comparing
    <3> QED BY <2>1, <2>3, <3>1, <3>2, <3>3
  <2>4. CASE main.at \in {"wait_reset", "drain"}
    <3>1. pending.addr = RESET
      BY <1>5, <2>4 DEF Ground, HelpInv, Clear
    <3> QED BY <1>5, <3>1, RegionAssumption DEF RESET, Memory
  <2> QED BY <2>2, <2>3, <2>4 DEF Active, Sending
<1>6. CASE Kept \/ (Executes(pending) /\ ~(pending.write /\ pending.addr \in Memory))
  BY <1>6 DEF Kept, Executes
<1> QED BY <1>3, <1>4, <1>5, <1>6, World

\* What an event tells a call is what its request has done.
LEMMA CallShown ==
  ASSUME ClientInv, CallInv, OffsetInv, ProgressInv, InTime, Sending,
         NEW data, Did(main.req),
         main.fresh /\ Comparing /\ ~main.req.write => data = ReadOut(mem, main.req)
  PROVE  /\ Call \in {"write_region", "read_region"} =>
              Stride \in Nat \ {0} /\ main.offset + Stride <= main.region.len /\ main.offset \in Nat
         /\ Call = "write_region" => WrittenTo(main.offset + Stride) /\ ReadSoFar(data) = main.data
         /\ main.fresh /\ Comparing /\ Call = "read_region" =>
              LET all == ReadSoFar(data)
              IN  /\ IsSeq(all) /\ Len(all) = main.offset + Stride
                  /\ \A i \in 1 .. main.offset + Stride : all[i] = mem[main.region.addr + i - 1]
<1>1. /\ Active /\ main.cmd \notin Connecting /\ main.offset \in Nat /\ Call \in PlainCalls \cup RegionCalls
      /\ main.region \in REGIONS \cup {NoRegion} /\ (Call \in RegionCalls => main.region \in REGIONS)
      /\ main.offset < CallLength(Call, main.region) /\ Call # "drop"
      /\ main.req = RequestAt(Call, main.region, main.offset, main.req.id, count.commands)
  BY SendingRequest
<1>2. CASE Call \in {"write_region", "read_region"}
  <2>1. /\ main.req.addr = main.region.addr + main.offset /\ main.req.addr \in Memory
        /\ main.req.size \in Nat /\ main.req.beats \in Nat
        /\ main.req.size * main.req.beats \in Nat \ {0}
        /\ main.req.size * main.req.beats <= main.region.len - main.offset
        /\ Call = "write_region" => main.req.write /\ main.req.value = count.commands
        /\ Call = "read_region" => ~main.req.write
    BY <1>2, SendingKinds DEF RequestOf
  <2>2. main.region.addr \in Int /\ main.region.len \in Int
    BY <1>1, Regions
  <2>3. PICK n, m, p : n = Stride /\ m = main.offset /\ p = main.region.addr
    OBVIOUS
  <2>4. n = main.req.size * main.req.beats /\ n \in Nat \ {0} /\ m \in Nat /\ p \in Int /\ m + n <= main.region.len
    BY <1>1, <1>2, <2>1, <2>2, <2>3 DEF Stride
  <2>5. Call = "write_region" => WrittenTo(m + n)
    <3> SUFFICES ASSUME Call = "write_region", NEW a \in p .. p + (m + n) - 1 PROVE mem[a] = count.commands
      BY <2>3 DEF WrittenTo
    <3>1. CASE a \in p .. p + m - 1
      BY <1>1, <2>3, <3>1 DEF ProgressInv, WrittenTo
    <3>2. CASE a \in p + m .. p + m + n - 1
      <4>1. a \in Bytes(main.req)
        BY <2>1, <2>3, <2>4, <3>2 DEF Bytes, EndAddr
      <4> QED BY <2>1, <4>1 DEF Did
    <3> QED BY <2>4, <3>1, <3>2
  <2>6. Call = "write_region" => ReadSoFar(data) = main.data
    BY DEF ReadSoFar
  <2>7. ASSUME main.fresh, Comparing, Call = "read_region", NEW all, all = ReadSoFar(data)
        PROVE  /\ IsSeq(all) /\ Len(all) = m + n
               /\ \A i \in 1 .. m + n : all[i] = mem[p + i - 1]
    <3>1. all = main.data \o data
      BY <2>7 DEF ReadSoFar
    <3>2. /\ IsSeq(main.data) /\ Len(main.data) = m
          /\ \A i \in 1 .. m : main.data[i] = mem[p + i - 1]
      BY <1>1, <2>3, <2>7 DEF ProgressInv, HasRead, ReadTo
    <3>3. data = [i \in 1 .. n |-> mem[p + m + i - 1]]
      BY <2>1, <2>3, <2>4, <2>7 DEF ReadOut
    <3>4. IsSeq(data) /\ Len(data) = n /\ \A i \in 1 .. n : data[i] = mem[p + m + i - 1]
      <4>1. PICK S : S = {data[i] : i \in 1 .. n}
        OBVIOUS
      <4>2. data \in [1 .. n -> S]
        BY <3>3, <4>1
      <4>3. data \in Seq(S) /\ Len(data) = n
        BY <2>4, <4>2
      <4> QED BY <3>3, <4>3, SeqIs
    <3>5. IsSeq(all) /\ Len(all) = m + n
      BY <3>1, <3>2, <3>4, ConcatSeq
    <3>6. ASSUME NEW i \in 1 .. m + n PROVE all[i] = mem[p + i - 1]
      <4>1. CASE i \in 1 .. m
        BY <3>1, <3>2, <3>4, <4>1, ConcatSeq
      <4>2. CASE i \notin 1 .. m
        <5>1. PICK j : j = i - m
          OBVIOUS
        <5>2. j \in 1 .. n /\ i = m + j /\ p + m + j - 1 = p + i - 1
          BY <2>4, <4>2, <5>1
        <5>3. (main.data \o data)[Len(main.data) + j] = data[j]
          <6>1. IsSeq(main.data) /\ IsSeq(data) /\ j \in 1 .. Len(data)
            BY <3>2, <3>4, <5>2
          <6> QED BY <6>1, ConcatSeq
        <5>4. all[m + j] = data[j]
          BY <3>1, <3>2, <5>3
        <5> QED BY <3>4, <5>2, <5>4
      <4> QED BY <4>1, <4>2
    <3> QED BY <3>5, <3>6
  <2> QED BY <2>3, <2>4, <2>5, <2>6, <2>7
<1>3. CASE Call \notin {"write_region", "read_region"}
  BY <1>3
<1> QED BY <1>2, <1>3

LEMMA EarlyProgress ==
  ASSUME ClientInv', Early'
  PROVE  ProgressInv'
<1>1. main'.region.addr \in Int
  <2>1. main'.region \in REGIONS \cup {NoRegion}
    BY DEF ClientInv
  <2> QED BY <2>1, Regions
<1>2. WrittenTo(0)'
  BY <1>1 DEF WrittenTo
<1>3. ~WroteBefore'
  BY DEF Early, WroteBefore
<1> QED BY <1>2, <1>3 DEF Early, ProgressInv, WrittenTo

\* Nothing changes for the command, but for what its own request writes.
LEMMA SteadyProgress ==
  ASSUME Ground, Ground', KindInv, AloneInv, OffsetInv, ProgressInv, [Next]_vars, InTime', ~Starts,
         Active, main.cmd \notin Connecting, main'.cmd = main.cmd, main'.region = main.region,
         main'.fresh = main.fresh,
         main'.call = main.call, main'.offset = main.offset, main'.data = main.data
  PROVE  ProgressInv'
<1>1. InTime /\ ClientInv /\ ClientInv' /\ CallInv
  BY InTimeStep DEF Ground, IInv
<1>2. Call' = Call /\ (Comparing' <=> Comparing) /\ (WroteBefore' <=> WroteBefore) /\ ReadTo' = ReadTo
  BY DEF Call, Comparing, WroteBefore, ReadTo
<1>3. count'.commands = count.commands
  BY CommandCounted
<1>4. /\ Call = "write_region" => WrittenTo(main.offset)
      /\ WroteBefore => WrittenTo(main.region.len)
      /\ main.fresh /\ Comparing => HasRead(ReadTo)
  BY <1>1 DEF ProgressInv
<1>5. CASE UNCHANGED mem
  <2>1. \A n : WrittenTo(n)' <=> WrittenTo(n)
    BY <1>3, <1>5 DEF WrittenTo
  <2>2. \A n : HasRead(n)' <=> HasRead(n)
    BY <1>5 DEF HasRead
  <2>3. /\ Call = "write_region" => WrittenTo(main.offset)'
        /\ WroteBefore => WrittenTo(main.region.len)'
        /\ main.fresh /\ Comparing => HasRead(ReadTo)'
    <3>1. PICK k, l, r : k = main.offset /\ l = main.region.len /\ r = ReadTo
      OBVIOUS
    <3>2. /\ Call = "write_region" => WrittenTo(k)'
          /\ WroteBefore => WrittenTo(l)'
          /\ main.fresh /\ Comparing => HasRead(r)'
      BY <1>4, <2>1, <2>2, <3>1
    <3> QED BY <1>2, <3>1, <3>2 DEF WrittenTo, HasRead
  <2> QED BY <1>2, <2>3 DEF ProgressInv
<1>6. CASE Early
  <2>1. Early'
    BY <1>2, <1>6 DEF Early
  <2> QED BY <1>1, <2>1, EarlyProgress
<1>7. CASE /\ Sending /\ Call = "write_region" /\ main.req.value = count.commands
           /\ mem' = Written(mem, main.req)
  <2>1. main.region \in REGIONS /\ main.offset < main.region.len /\ main.offset \in Nat
    BY <1>1, <1>7, SendingRequest DEF RegionCalls, CallLength
  <2>2. /\ main.region.addr \in Memory /\ main.region.len \in 1 .. ADDR_END - main.region.addr
    BY <2>1, RegionsAssumption
  <2>3. \A a \in Memory : mem[a] = count.commands => mem'[a] = count.commands
    BY <1>7 DEF Written
  <2>4. \A a \in main.region.addr .. main.region.addr + main.region.len - 1 : a \in Memory
    BY <2>2, RegionAssumption DEF Memory
  <2>5. \A n \in Nat : n <= main.region.len /\ WrittenTo(n) => WrittenTo(n)'
    <3> SUFFICES ASSUME NEW n \in Nat, n <= main.region.len, WrittenTo(n),
                        NEW a \in main.region.addr .. main.region.addr + n - 1
                 PROVE  mem'[a] = count.commands
      BY <1>3 DEF WrittenTo
    <3>1. a \in main.region.addr .. main.region.addr + main.region.len - 1
      BY <2>2, RegionAssumption DEF Memory
    <3> QED BY <2>3, <2>4, <3>1 DEF WrittenTo
  <2>6. ReadTo = 0 /\ main.region.addr \in Int /\ main.region.len \in Nat
    BY <1>7, <2>2, RegionAssumption DEF ReadTo, Memory
  <2>7. HasRead(0) => HasRead(0)'
    BY DEF HasRead
  <2>8. WrittenTo(main.offset)'
    <3>1. PICK k : k = main.offset
      OBVIOUS
    <3>2. WrittenTo(k)'
      BY <1>4, <1>7, <2>1, <2>5, <2>6, <3>1
    <3> QED BY <3>1, <3>2 DEF WrittenTo
  <2>9. WroteBefore => WrittenTo(main.region.len)'
    <3>1. PICK k : k = main.region.len
      OBVIOUS
    <3>2. WroteBefore => WrittenTo(k)'
      BY <1>4, <2>5, <2>6, <3>1
    <3> QED BY <3>1, <3>2 DEF WrittenTo
  <2>10. main.fresh /\ Comparing => HasRead(ReadTo)'
    BY <1>2, <1>4, <2>6, <2>7 DEF HasRead
  <2> QED BY <1>2, <2>8, <2>9, <2>10 DEF ProgressInv
<1> QED BY <1>1, <1>5, <1>6, <1>7, MemoryInStep

\* What is known when a loop has taken its event.
LEMMA TookShown ==
  ASSUME Ground, OffsetInv, ShownInv, StaleInv, ProgressInv, InTime, NEW e, Took(e)
  PROVE  /\ ClientInv /\ CallInv /\ Sending /\ Did(main.req) /\ UNCHANGED <<mem, dev>>
         /\ main.fresh /\ Comparing /\ ~main.req.write => e.data = ReadOut(mem, main.req)
<1>1. main.at = "poll" /\ pending = None /\ e \in Elems(events) /\ Poll
  BY DEF Took
<1>2. Did(main.req)
  BY <1>1 DEF ShownInv
<1>3. ~main.req.write => e.type = "read"
  BY DEF Took, Matches
<1> QED BY <1>1, <1>2, <1>3 DEF StaleInv, Ground, IInv, Sending, Poll

\* The next request of a call, or the next call.
LEMMA AdvancedProgress ==
  ASSUME Ground, OffsetInv, ProgressInv, InTime, Active, main.cmd \notin Connecting,
         UNCHANGED mem, count'.commands = count.commands, NEW data, main' = Advance(data), main'.at # "idle",
         \/ /\ Sending /\ Did(main.req)
            /\ main.fresh /\ Comparing /\ ~main.req.write => data = ReadOut(mem, main.req)
         \/ Call = "reset_cpu"
  PROVE  ProgressInv'
<1>1. ClientInv /\ CallInv
  BY DEF Ground, IInv
<1>2. /\ main.cmd \in DOMAIN Script /\ main.call \in 1 .. Len(Script[main.cmd]) /\ main.offset \in Nat
      /\ Len(Script[main.cmd]) \in Nat
  BY <1>1, CallKnown DEF ClientInv
<1>3. /\ main'.cmd = main.cmd /\ main'.region = main.region /\ main'.fresh = main.fresh
      /\ main'.data = ReadSoFar(data)
      /\ \/ /\ main.offset + Stride < CallLength(Call, main.region)
            /\ main'.call = main.call /\ main'.offset = main.offset + Stride
         \/ /\ ~(main.offset + Stride < CallLength(Call, main.region))
            /\ main.call < Len(Script[main.cmd])
            /\ main'.call = main.call + 1 /\ main'.offset = 0
  BY <1>1, AdvanceFields
<1>4. /\ Call = "write_region" => WrittenTo(main.offset)
      /\ WroteBefore => WrittenTo(main.region.len)
      /\ main.fresh /\ Comparing => HasRead(ReadTo)
  BY DEF ProgressInv
<1>5. \A n : WrittenTo(n)' <=> WrittenTo(n)
  BY <1>3 DEF WrittenTo
<1>6. WrittenTo(0) /\ main.region.len \in Int
  <2>1. main.region.addr \in Int /\ main.region.len \in Int
    <3>1. main.region \in REGIONS \cup {NoRegion}
      BY <1>1 DEF ClientInv
    <3> QED BY <3>1, Regions
  <2> QED BY <2>1 DEF WrittenTo
<1>7. Comparing => Call \in {"write_region", "read_region"}
  BY <1>2, DoneCommand DEF Comparing, Call
<1>8. PICK l : l = main.region.len
  OBVIOUS
<1>9. CASE main'.call = main.call /\ main'.offset = main.offset + Stride /\ main.offset + Stride < CallLength(Call, main.region)
  <2>1. Call' = Call /\ (WroteBefore' <=> WroteBefore) /\ (Comparing' <=> Comparing)
    BY <1>3, <1>9 DEF Call, WroteBefore, Comparing
  <2>2. PICK k : k = main'.offset
    OBVIOUS
  <2>3. Call # "reset_cpu"
    <3>1. CASE Call = "reset_cpu"
      BY <1>2, <1>9, <3>1 DEF CallLength, Stride
    <3> QED BY <3>1
  <2>4. /\ Call = "write_region" => WrittenTo(k) /\ ReadSoFar(data) = main.data
        /\ main.fresh /\ Comparing /\ Call = "read_region" =>
             LET all == ReadSoFar(data)
             IN  /\ IsSeq(all) /\ Len(all) = k
                 /\ \A i \in 1 .. k : all[i] = mem[main.region.addr + i - 1]
    BY <1>1, <1>9, <2>2, <2>3, CallShown
  <2>5. Call = "write_region" => WrittenTo(main.offset)'
    BY <1>5, <2>2, <2>4 DEF WrittenTo
  <2>6. WroteBefore => WrittenTo(main.region.len)'
    BY <1>3, <1>4, <1>5, <1>8 DEF WrittenTo
  <2>7. main.fresh /\ Comparing => HasRead(ReadTo)'
    <3>1. CASE Call = "read_region"
      BY <1>3, <2>1, <2>2, <2>4, <3>1 DEF HasRead, ReadTo
    <3>2. CASE Call # "read_region"
      BY <1>3, <1>4, <1>7, <2>1, <2>4, <3>2 DEF HasRead, ReadTo
    <3> QED BY <3>1, <3>2
  <2> QED BY <1>3, <2>1, <2>5, <2>6, <2>7 DEF ProgressInv
<1>10. CASE /\ ~(main.offset + Stride < CallLength(Call, main.region))
            /\ main.call < Len(Script[main.cmd]) /\ main'.call = main.call + 1 /\ main'.offset = 0
  <2>1. Call = "write_region" => WrittenTo(l)
    <3> SUFFICES ASSUME Call = "write_region" PROVE WrittenTo(l)
      OBVIOUS
    <3>1. PICK k : k = main.offset + Stride
      OBVIOUS
    <3>2. WrittenTo(k) /\ k <= l /\ k \in Int
      BY <1>1, <1>8, <3>1, CallShown
    <3>3. k = l
      BY <1>6, <1>8, <1>10, <3>1, <3>2 DEF CallLength
    <3> QED BY <3>2, <3>3
  <2>2. WroteBefore' => WrittenTo(l)
    <3> SUFFICES ASSUME NEW k \in 1 .. main.call, Script[main.cmd][k] = "write_region" PROVE WrittenTo(l)
      BY <1>2, <1>3, <1>10 DEF WroteBefore
    <3>1. CASE k = main.call
      BY <2>1, <3>1 DEF Call
    <3>2. CASE k # main.call
      <4>1. k \in 1 .. main.call - 1
        BY <1>2, <3>2
      <4> QED BY <1>4, <1>8, <4>1 DEF WroteBefore
    <3> QED BY <3>1, <3>2
  <2>3. main.fresh /\ Comparing => HasRead(ReadTo)'
    <3> SUFFICES ASSUME main.fresh, Comparing PROVE HasRead(ReadTo)'
      OBVIOUS
    <3>1. Call # "read_region"
      BY <1>2, <1>10, DoneCommand DEF Call
    <3>2. Call = "write_region" /\ ReadTo = 0 /\ ReadSoFar(data) = main.data
      BY <1>7, <3>1 DEF ReadTo, ReadSoFar
    <3>3. HasRead(0) /\ main'.data = main.data /\ ReadTo' = 0
      BY <1>3, <1>4, <1>10, <3>2 DEF ReadTo
    <3> QED BY <1>3, <3>3 DEF HasRead
  <2>4. WroteBefore' => WrittenTo(main.region.len)'
    BY <1>3, <1>5, <1>8, <2>2 DEF WrittenTo
  <2>5. WrittenTo(main.offset)'
    BY <1>5, <1>6, <1>10 DEF WrittenTo
  <2> QED BY <1>3, <2>3, <2>4, <2>5 DEF ProgressInv, Comparing
<1> QED BY <1>3, <1>9, <1>10

LEMMA ProgressStep ==
  /\ Ground /\ Ground' /\ KindInv /\ AloneInv /\ OffsetInv /\ ShownInv /\ StaleInv /\ ProgressInv
  /\ [Next]_vars
  => ProgressInv'
<1> SUFFICES ASSUME Ground, Ground', KindInv, AloneInv, OffsetInv, ShownInv, StaleInv, ProgressInv,
                    [Next]_vars, InTime', Active', main'.cmd \notin Connecting
             PROVE  ProgressInv'
  BY DEF ProgressInv
<1>1. /\ InTime /\ OnePending /\ ClientInv /\ ClientInv' /\ RequestsInv
      /\ DOMAIN main = {"at", "cmd", "call", "offset", "data", "req", "region", "result", "fresh"}
  BY InTimeStep DEF Ground, IInv
<1>2. CASE Starts
  <2>1. /\ main'.call = 1 /\ main'.offset = 0 /\ main'.data = << >>
        /\ main'.region \in REGIONS \cup {NoRegion}
    BY <1>1, <1>2, StartFields DEF ClientInv
  <2>2. main'.region.addr \in Int
    BY <2>1, Regions
  <2>3. WrittenTo(0)' /\ HasRead(0)'
    BY <2>1, <2>2, EmptySeq DEF WrittenTo, HasRead
  <2>4. ~WroteBefore' /\ ReadTo' = 0
    BY <2>1 DEF WroteBefore, ReadTo
  <2> QED BY <2>1, <2>3, <2>4 DEF ProgressInv, WrittenTo, HasRead
<1>3. CASE ~Starts
  <2>1. /\ Active /\ main'.cmd = main.cmd /\ main'.region = main.region /\ main'.fresh = main.fresh
        /\ main.cmd \notin Connecting /\ count'.commands = count.commands
    BY <1>1, <1>3, MainKept, CommandCounted DEF RequestsInv, Counts
  <2>2. ASSUME main'.call = main.call, main'.offset = main.offset, main'.data = main.data
        PROVE  ProgressInv'
    BY <1>1, <1>3, <2>1, <2>2, SteadyProgress
  <2>3. CASE Asks("enqueue") \/ Asks("wait_reset")
    <3>1. PICK x, r : main' = [main EXCEPT !.at = x, !.req = r]
      BY <2>3 DEF Asks
    <3>2. main'.call = main.call /\ main'.offset = main.offset /\ main'.data = main.data
      BY <1>1, <3>1
    <3> QED BY <2>2, <3>2
  <2>4. ASSUME NEW x, main' = [main EXCEPT !.at = x] PROVE ProgressInv'
    <3>1. main'.call = main.call /\ main'.offset = main.offset /\ main'.data = main.data
      BY <1>1, <2>4
    <3> QED BY <2>2, <3>1
  <2>5. ASSUME NEW result, main' = Finish(result) PROVE FALSE
    <3>1. main'.at = "idle"
      BY <1>1, <2>5, PlaceFields
    <3> QED BY <3>1 DEF Active
  <2>6. ASSUME Call \in {"reset_system", "start_system"}, main' = Advance(<< >>) PROVE FALSE
    <3>1. Call = "reset_system" /\ main.call = 1 /\ Len(Script[main.cmd]) = 1
      <4>1. main.cmd = "hard_reset"
        BY <1>1, <2>1, <2>6, SystemReset
      <4> QED BY <1>1, <2>1, <2>6, <4>1, SystemReset, ShortScripts
    <3>2. main.offset + Stride = main.offset + 1 /\ CallLength(Call, main.region) = 1 /\ main.offset \in Nat
      BY <1>1, <3>1 DEF Stride, CallLength, ClientInv
    <3>3. main'.at = "idle"
      BY <1>1, <2>6, <3>1, <3>2, AdvanceFields
    <3> QED BY <3>3 DEF Active
  <2>7. main'.at # "idle"
    BY DEF Active
  <2>8. CASE Client
    <3>1. ASSUME NEW e, Took(e) PROVE ProgressInv'
      <4>1. /\ Sending /\ Did(main.req) /\ UNCHANGED mem /\ main' = Advance(e.data)
            /\ main.fresh /\ Comparing /\ ~main.req.write => e.data = ReadOut(mem, main.req)
        BY <1>1, <3>1, TookShown DEF Took
      <4> QED BY <1>1, <2>1, <2>7, <4>1, AdvancedProgress
    <3>2. CASE Drain /\ main.at = "drain" /\ main' = Advance(<< >>)
      BY <1>1, <2>6, <3>2 DEF AloneInv
    <3>3. CASE UNCHANGED main
      BY <2>2, <3>3
    <3>4. main'.at \notin {"join", "gone"}
      BY DEF Active
    <3> QED BY <1>3, <2>3, <2>4, <2>5, <2>8, <3>1, <3>2, <3>3, <3>4, ClientInTime
  <2>9. CASE ~Client
    <3>1. CASE UNCHANGED main
      BY <2>2, <3>1
    <3>2. CASE ResetDone
      <4>1. CASE main' = [main EXCEPT !.at = "drain"]
        BY <2>4, <4>1
      <4>2. CASE Call \in {"reset_cpu", "start_cpu"} /\ Response /\ main' = Advance(<< >>)
        <5>1. Call = "reset_cpu"
          BY <1>1, <2>1, <4>2, CallKnown DEF PlainCalls, RegionCalls
        <5>2. UNCHANGED mem
          BY <4>2 DEF Response
        <5> QED BY <1>1, <2>1, <2>7, <4>2, <5>1, <5>2, AdvancedProgress
      <4> QED BY <2>6, <3>2, <4>1, <4>2 DEF ResetDone
    <3> QED BY <2>9, <3>1, <3>2, ThreadInTime
  <2> QED BY <2>8, <2>9
<1> QED BY <1>2, <1>3

(***************************************************************************)
(* The events that a command finds.                                        *)
(***************************************************************************)
\* An answer that is told is that of the pending request, and shows what memory holds.
Shows(e, r) ==
  /\ e.id = r.id /\ e.type = IF r.write THEN "write" ELSE "read"
  /\ ~r.write /\ r.addr \in Memory => e.data = ReadOut(mem, r)

LEMMA AnswerShows ==
  ASSUME NEW r, NEW resp, resp.req = r, NEW e, e = Answer(r, resp) \/ e = [Answer(r, resp) EXCEPT !.addr = r.addr]
  PROVE  /\ e.id = r.id /\ e.type = (IF r.write THEN "write" ELSE "read") /\ e.data = resp.data
BY DEF Answer, Event

LEMMA Emitted ==
  ASSUME Ground, ShownInv, [Next]_vars, InTime', NEW e, events' = Append(events, e), e.type \in {"read", "write"}
  PROVE  /\ pending # None /\ pending' = None /\ main.at # "enqueue" /\ UNCHANGED main
         /\ \A r : r = pending => Shows(e, r)'
<1>1. /\ InTime /\ OnePending /\ CommandsInv /\ ThreadInv /\ LinkInv /\ RequestsInv /\ OwnInv /\ IsSeq(events)
      /\ ~FpgaTimeOut /\ ~SimTimeOut /\ ~Failure
  BY InTimeStep DEF Ground, OrderedInv, Ordered
<1>2. events' # events /\ \A x : events' = Append(events, x) => e = x
  <2>1. \A x : Len(Append(events, x)) = Len(events) + 1 /\ Append(events, x)[Len(events) + 1] = x
    BY <1>1, AppendSeq
  <2>2. Len(events) + 1 # Len(events)
    <3>1. Len(events) \in Nat
      BY <1>1 DEF IsSeq
    <3> QED BY <3>1
  <2> QED BY <2>1, <2>2
<1>3. PICK r : r = pending
  OBVIOUS
<1>4. CASE Command /\ Head(commands).type = "send"
  <2>1. /\ r # None /\ Waiting /\ Executes(r) /\ pending' = None /\ UNCHANGED main
        /\ e = [Answer(r, Executed(r)) EXCEPT !.addr = r.addr]
    <3>1. \A x : UNCHANGED <<x, events, direct>> => FALSE
      BY <1>2
    <3> QED BY <1>1, <1>2, <1>3, <1>4, HostExecutes
  <2>2. Executed(r).req = r /\ Executed(r).data = IF r.write THEN << >> ELSE ReadOut(mem, r)
    BY DEF Executed
  <2>3. e.id = r.id /\ e.type = (IF r.write THEN "write" ELSE "read") /\ (~r.write => e.data = ReadOut(mem, r))
    BY <2>1, <2>2, AnswerShows
  <2>4. ~r.write => ReadOut(mem, r)' = ReadOut(mem, r)
    BY <2>1 DEF Executes, ReadOut
  <2>5. main.at # "enqueue"
    BY <1>1, <1>4, FirstCommand DEF OnePending, Command
  <2> QED BY <1>3, <2>1, <2>3, <2>4, <2>5 DEF Shows
<1>5. CASE Response
  <2>1. Emit(Answer(r, Received)) /\ UNCHANGED main /\ pending' = None /\ r # None /\ Kept
    BY <1>2, <1>3, <1>5 DEF Response, Kept
  <2>2. e = Answer(r, Received)
    BY <1>2, <2>1 DEF Emit
  <2>3. Received.req = r /\ ~Waiting
    BY <1>1, <1>3, <1>5, ReceivedOwn DEF Response
  <2>4. ~Resetting
    BY <1>1, <1>3, <2>1 DEF OnePending
  <2>5. Shown(Received.req, Received.data)
    BY <1>1, <1>5, <2>4 DEF ShownInv, AnswersShown, Received, Response, Available, HasResponse
  <2>6. e.id = r.id /\ e.type = (IF r.write THEN "write" ELSE "read") /\ e.data = Received.data
    BY <2>2, <2>3, AnswerShows
  <2>7. Shown(r, e.data)'
    BY <2>1, <2>3, <2>5, <2>6, KeptShown
  <2> QED BY <1>3, <2>1, <2>3, <2>6, <2>7 DEF Shows, Shown, Waiting
<1>6. ~FpgaCpu
  <2>1. Event("access", None, NoResponse).type = "access"
    BY DEF Event
  <2> QED BY <1>2, <2>1 DEF FpgaCpu, Emit
<1>7. ~Client
  <2>1. Client => UNCHANGED events \/ (events # << >> /\ events' = Tail(events))
    BY DEF Client, Start, Arm, Enqueue, AskReset, Poll, IdlePoll, Disconnect, Join, Drain, GiveUpReset
  <2>2. events # << >> => Len(Tail(events)) = Len(events) - 1 /\ Len(events) \in Nat
    BY <1>1, TailSeq DEF IsSeq
  <2>3. Len(events') = Len(events) + 1
    BY <1>1, AppendSeq
  <2> QED BY <1>2, <2>1, <2>2, <2>3
<1>8. CASE Command /\ Head(commands).type # "send"
  BY <1>2, <1>8 DEF Command, FpgaReset, SimReset
<1>9. ~(NoCommand \/ NoTimeOut \/ RxPacket \/ TxPackets \/ SimLink \/ SimNoResponse \/ Settle)
  BY <1>2 DEF NoCommand, NoTimeOut, RxPacket, TxPackets, SimLink, SimNoResponse, Settle
<1>10. ~(CpuIssue \/ DevTake \/ DevServe \/ UNCHANGED vars)
  BY <1>2 DEF CpuIssue, DevTake, DevServe, vars
<1> QED BY <1>1, <1>4, <1>5, <1>6, <1>7, <1>8, <1>9, <1>10 DEF Next, Thread

LEMMA StaleStep ==
  /\ Ground /\ Ground' /\ KindInv /\ AloneInv /\ OffsetInv /\ ShownInv /\ StaleInv /\ [Next]_vars
  => StaleInv'
<1> SUFFICES ASSUME Ground, Ground', KindInv, AloneInv, OffsetInv, ShownInv, StaleInv, [Next]_vars, InTime',
                    main'.fresh, Comparing', main'.at \in {"next", "enqueue", "poll"},
                    NEW x \in Elems(events'), x.type \in {"read", "write"}
             PROVE  /\ main'.at = "poll" /\ pending' = None /\ x.id = main'.req.id
                    /\ x.type = "read" => ~main'.req.write /\ x.data = ReadOut(mem, main.req)'
  BY DEF StaleInv
<1>1. /\ InTime /\ OnePending /\ CommandsInv /\ ClientInv /\ RequestsInv /\ IsSeq(events) /\ CallInv
      /\ DOMAIN main = {"at", "cmd", "call", "offset", "data", "req", "region", "result", "fresh"}
  BY InTimeStep DEF Ground, OrderedInv, Ordered
<1>2. ~Starts
  <2>1. Starts => events = << >> /\ events' = << >>
    BY StartFields
  <2> QED BY <2>1, EmptyElems
<1>3. Active /\ main'.cmd = main.cmd /\ main.fresh /\ Comparing /\ main.cmd \notin Connecting
  <2>1. Active'
    BY DEF Active
  <2> QED BY <1>1, <1>2, <2>1, MainKept DEF RequestsInv, Counts, Comparing, Connecting
<1>4. Call \in {"write_region", "read_region"}
  <2>1. main.cmd \in DOMAIN Script /\ main.call \in 1 .. Len(Script[main.cmd])
    BY <1>1, <1>3 DEF ClientInv
  <2> QED BY <1>3, <2>1, DoneCommand DEF Comparing, Call
<1>5. main.at # "drain"
  BY <1>1, <1>4 DEF AloneInv
<1>6. CASE UNCHANGED main
  <2>1. main.at \in {"next", "enqueue", "poll"}
    BY <1>6
  <2>2. CASE x \in Elems(events)
    <3>1. /\ main.at = "poll" /\ pending = None /\ x.id = main.req.id
          /\ x.type = "read" => ~main.req.write /\ x.data = ReadOut(mem, main.req)
      BY <1>1, <1>3, <2>1, <2>2 DEF StaleInv
    <3>2. pending' = None
      <4>1. main'.at # "enqueue" /\ main.at # "wait_reset"
        BY <1>6, <3>1
      <4> QED BY <3>1, <4>1, PendingInTime
    <3>3. Kept
      <4>1. ~Resetting /\ ~Has(commands, "reset")
        BY <1>1, <3>1 DEF OnePending, Resetting
      <4> QED BY <1>1, <3>1, <4>1, World, FirstCommand
    <3>4. ReadOut(mem, main.req)' = ReadOut(mem, main.req)
      BY <1>6, <3>3 DEF Kept, ReadOut
    <3> QED BY <1>6, <3>1, <3>2, <3>4
  <2>3. CASE x \notin Elems(events)
    <3>1. PICK e : events' = Append(events, e)
      <4>1. events' # events /\ ~(events # << >> /\ events' = Tail(events))
        BY <1>1, <2>3, TailElems
      <4> QED BY <4>1, EventSteps DEF Ground, Tells
    <3>2. x = e
      <4>1. Elems(events') = Elems(events) \cup {e}
        BY <1>1, <3>1, AppendElems
      <4> QED BY <2>3, <4>1
    <3>3. pending # None /\ pending' = None /\ main.at # "enqueue" /\ \A r : r = pending => Shows(x, r)'
      BY <3>1, <3>2, Emitted
    <3>4. main.at # "next"
      BY <1>1, <1>3, <3>3 DEF AloneInv
    <3>5. main.at = "poll" /\ pending = main.req /\ Sending
      BY <1>1, <2>1, <3>3, <3>4 DEF AloneInv, Sending
    <3>6. main.req.addr \in Memory
      BY <1>1, <1>4, <3>5, SendingKinds DEF RequestOf
    <3>7. PICK r : r = main.req
      OBVIOUS
    <3>8. Shows(x, r)'
      BY <3>3, <3>5, <3>7
    <3>9. x.id = r.id /\ (x.type = "read" => ~r.write /\ x.data = ReadOut(mem', r))
      BY <3>6, <3>7, <3>8 DEF Shows, ReadOut
    <3> QED BY <1>6, <3>3, <3>5, <3>7, <3>9 DEF ReadOut
  <2> QED BY <2>2, <2>3
<1>7. CASE ~UNCHANGED main /\ Client
  <2>1. ASSUME main.at \in {"next", "enqueue"}, UNCHANGED events
        PROVE  FALSE
    BY <1>1, <1>3, <2>1 DEF StaleInv
  <2>2. CASE Arm /\ Asks("enqueue")
    BY <2>1, <2>2 DEF Arm
  <2>3. CASE AskReset /\ Asks("wait_reset")
    BY <2>1, <2>3 DEF AskReset
  <2>4. CASE Enqueue /\ main.at = "enqueue"
    BY <2>1, <2>4 DEF Enqueue
  <2>5. ASSUME NEW e, Took(e) PROVE FALSE
    <3>1. /\ main.at = "poll" /\ events # << >> /\ e = Head(events) /\ e \in Elems(events)
          /\ events' = Tail(events) /\ e.type \in {"read", "write"}
      BY <2>5 DEF Took, Matches
    <3>2. x \in Elems(events)
      BY <1>1, <3>1, TailElems
    <3>3. x.id = main.req.id /\ e.id = main.req.id
      BY <1>1, <1>3, <3>1, <3>2 DEF StaleInv
    <3>4. main.req.id \in Nat \ {0}
      BY <1>1, <3>1 DEF CallInv, Sending, RequestsInv, Counts
    <3>5. Head(events).id < x.id
      BY <3>1, <3>3, <3>4, HeadAlone DEF Ground
    <3> QED BY <3>1, <3>3, <3>4, <3>5
  <2>6. main' # Finish("refused")
    <3>1. main' = Finish("refused") => main'.at = "idle"
      BY <1>1, PlaceFields
    <3> QED BY <3>1
  <2>7. main'.at \notin {"join", "gone"}
    OBVIOUS
  <2> QED BY <1>2, <1>5, <1>7, <2>2, <2>3, <2>4, <2>5, <2>6, <2>7, ClientInTime
<1>8. CASE ~UNCHANGED main /\ ~Client
  <2>1. ResetDone
    BY <1>8, ThreadInTime
  <2> QED BY <1>4, <2>1 DEF ResetDone
<1> QED BY <1>6, <1>7, <1>8

(***************************************************************************)
(* The end of a command.                                                   *)
(***************************************************************************)
\* A command ends with the last step of its last call.
LEMMA LastCall ==
  ASSUME ClientInv, Active, NEW data, main' = Advance(data), main'.at = "idle"
  PROVE  /\ main'.cmd = main.cmd /\ main'.region = main.region /\ main'.fresh = main.fresh
         /\ main'.data = ReadSoFar(data) /\ main'.result = Outcome(ReadSoFar(data))
         /\ ~(main.offset + Stride < CallLength(Call, main.region))
         /\ main.cmd \in DOMAIN Script /\ main.call = Len(Script[main.cmd])
         /\ main.call \in 1 .. Len(Script[main.cmd])
<1>1. main.cmd \in DOMAIN Script /\ main.call \in 1 .. Len(Script[main.cmd]) /\ Len(Script[main.cmd]) \in Nat
  BY CallKnown DEF ClientInv
<1>2. /\ main'.cmd = main.cmd /\ main'.region = main.region /\ main'.fresh = main.fresh
      /\ main'.data = ReadSoFar(data) /\ main'.result = Outcome(ReadSoFar(data))
      /\ ~(main.offset + Stride < CallLength(Call, main.region)) /\ ~(main.call < Len(Script[main.cmd]))
  BY AdvanceFields
<1> QED BY <1>1, <1>2

\* Its last request is answered.
LEMMA TookAchieves ==
  ASSUME Ground, OffsetInv, ShownInv, StaleInv, ProgressInv, FreshInv', InTime, InTime',
         NEW e, Took(e), main'.at = "idle", main.fresh
  PROVE  main'.result # "failed" /\ (main'.result = "done" => Achieved')
<1>1. ClientInv /\ CallInv /\ Sending /\ Did(main.req) /\ UNCHANGED <<mem, dev, count>> /\ main' = Advance(e.data)
      /\ (main.fresh /\ Comparing /\ ~main.req.write => e.data = ReadOut(mem, main.req))
  BY TookShown DEF Took, Poll
<1>2. Active /\ main.cmd \notin Connecting
  BY <1>1, SendingRequest
<1>3. RequestOf(Call, main.region, main.offset, count.commands, main.req)
  BY <1>1, SendingKinds
<1>4. PICK all : all = ReadSoFar(e.data)
  OBVIOUS
<1>5. /\ main'.cmd = main.cmd /\ main'.region = main.region /\ main'.fresh = main.fresh
      /\ main'.data = all /\ main'.result = Outcome(all)
      /\ ~(main.offset + Stride < CallLength(Call, main.region))
      /\ main.cmd \in DOMAIN Script /\ main.call = Len(Script[main.cmd]) /\ main.call \in 1 .. Len(Script[main.cmd])
  BY <1>1, <1>2, <1>4, LastCall
<1>6. PICK l : l = main.region.len
  OBVIOUS
<1>7. Call \in {"write_region", "read_region"} => l = main.offset + Stride
  <2>1. main.region.len \in Int
    <3>1. main.region \in REGIONS \cup {NoRegion}
      BY <1>1 DEF ClientInv
    <3> QED BY <3>1, Regions
  <2>2. Call \in {"write_region", "read_region"} =>
             Stride \in Nat \ {0} /\ main.offset + Stride <= main.region.len /\ main.offset \in Nat
    BY <1>1, CallShown
  <2> QED BY <1>5, <1>6, <2>1, <2>2 DEF CallLength
<1>8. /\ Call = "write_region" => WrittenTo(l)
      /\ WroteBefore => WrittenTo(l)
      /\ Comparing /\ Call = "read_region" =>
           IsSeq(all) /\ Len(all) = l /\ \A i \in 1 .. l : all[i] = mem[main.region.addr + i - 1]
  <2>1. PICK k : k = main.offset + Stride
    OBVIOUS
  <2>2. /\ Call = "write_region" => WrittenTo(k)
        /\ Comparing /\ Call = "read_region" =>
             IsSeq(all) /\ Len(all) = k /\ \A i \in 1 .. k : all[i] = mem[main.region.addr + i - 1]
    BY <1>1, <1>4, <2>1, CallShown
  <2>3. WroteBefore => WrittenTo(l)
    BY <1>2, <1>6 DEF ProgressInv
  <2> QED BY <1>7, <2>1, <2>2, <2>3
<1>9. /\ main.cmd \in {"loadelf", "loadmem"} => Call = "write_region"
      /\ main.cmd \in {"dumpmem", "memtest"} => Call = "read_region"
      /\ main.cmd \in {"boot", "reload"} => Call = "boot_cpu"
      /\ main.cmd = "reset" => Call = "reset_cpu"
      /\ main.cmd \in {"memtest", "reload"} => WroteBefore
  BY <1>5, DoneCommand DEF Call, WroteBefore
<1>10. Call = "boot_cpu" => main.req.write = TRUE /\ main.req.addr = BOOT
  <2>1. Call = "boot_cpu" => ~(main.offset + 1 < 2)
    BY <1>5 DEF Stride, CallLength
  <2> QED BY <1>3, <2>1 DEF RequestOf
<1>11. Call = "reset_cpu" => main.req.write = TRUE /\ main.req.addr = RESET /\ main.req.value = RESET_CPU
  BY <1>3 DEF RequestOf
<1>12. (Call = "boot_cpu" => ~dev.booting) /\ (Call = "reset_cpu" => dev.booting)
  BY <1>1, <1>10, <1>11 DEF Did
<1>13. WrittenTo(l) => \A a \in main'.region.addr .. main'.region.addr + main'.region.len - 1 : mem'[a] = count'.commands
  BY <1>1, <1>5, <1>6 DEF WrittenTo
<1>14. CASE main.cmd = "memtest"
  <2>1. /\ IsSeq(all) /\ Len(all) = l /\ \A i \in 1 .. l : all[i] = mem[main.region.addr + i - 1]
        /\ WrittenTo(l)
    BY <1>8, <1>9, <1>14 DEF Comparing
  <2>2. DOMAIN all = 1 .. l
    <3>1. all = [i \in 1 .. Len(all) |-> all[i]]
      BY <2>1 DEF IsSeq
    <3>2. DOMAIN all = 1 .. Len(all)
      BY <3>1
    <3> QED BY <2>1, <3>2
  <2>3. \A i \in 1 .. l : all[i] = count.commands
    <3>1. l \in Int /\ main.region.addr \in Int
      <4>1. main.region \in REGIONS \cup {NoRegion}
        BY <1>1 DEF ClientInv
      <4> QED BY <1>6, <4>1, Regions
    <3>2. \A i \in 1 .. l : main.region.addr + i - 1 \in main.region.addr .. main.region.addr + l - 1
      BY <3>1
    <3> QED BY <2>1, <3>2 DEF WrittenTo
  <2>4. Outcome(all) = "done"
    BY <2>2, <2>3 DEF Outcome
  <2> QED BY <1>5, <1>13, <1>14, <2>1, <2>4 DEF Achieved
<1>15. CASE main.cmd = "dumpmem"
  <2>1. Outcome(all) = "done"
    BY <1>15 DEF Outcome
  <2>2. /\ IsSeq(all) /\ Len(all) = l /\ \A i \in 1 .. l : all[i] = mem[main.region.addr + i - 1]
    BY <1>8, <1>9, <1>15 DEF Comparing
  <2>3. all = Contents(mem, main.region)
    BY <1>6, <2>2 DEF IsSeq, Contents
  <2>4. main'.data = Contents(mem, main.region)'
    BY <1>1, <1>5, <2>3 DEF Contents
  <2> QED BY <1>5, <1>15, <2>1, <2>4 DEF Achieved
<1>16. CASE main.cmd \notin {"memtest", "dumpmem"}
  <2>1. Outcome(all) = "done"
    BY <1>16 DEF Outcome
  <2>2. main.cmd \in {"loadelf", "loadmem", "reload"} => WrittenTo(l)
    BY <1>8, <1>9
  <2>3. (main.cmd \in {"boot", "reload"} => ~dev'.booting) /\ (main.cmd = "reset" => dev'.booting)
    BY <1>1, <1>9, <1>12
  <2>4. main.cmd = "hard_reset" => Fresh'
    BY <1>5, <2>1 DEF FreshInv
  <2> QED BY <1>2, <1>5, <1>13, <1>16, <2>1, <2>2, <2>3, <2>4 DEF Achieved, Connecting
<1> QED BY <1>14, <1>15, <1>16

\* The events of the runtime are thrown away after a system reset.
LEMMA DrainAchieves ==
  ASSUME Ground, AloneInv, FreshInv', InTime, InTime', main.at = "drain", main' = Advance(<< >>), main'.at = "idle"
  PROVE  main'.result # "failed" /\ (main'.result = "done" => Achieved')
<1>1. ClientInv /\ Active /\ Call = "reset_system"
  BY DEF Ground, IInv, Active, AloneInv
<1>2. /\ main'.cmd = main.cmd /\ main'.result = Outcome(ReadSoFar(<< >>))
      /\ main.cmd \in DOMAIN Script /\ main.call \in 1 .. Len(Script[main.cmd])
  BY <1>1, LastCall
<1>3. main.cmd = "hard_reset"
  BY <1>1, <1>2, DoneCommand DEF Call
<1>4. main'.result = "done"
  BY <1>2, <1>3 DEF Outcome
<1>5. Fresh'
  BY <1>2, <1>3, <1>4 DEF FreshInv
<1> QED BY <1>2, <1>3, <1>4, <1>5 DEF Achieved

\* A reset that the client waits for is over.
LEMMA ResetAchieves ==
  ASSUME Ground, KindInv, ShownInv, FreshInv', InTime, InTime', OnePending, ResetDone, main'.at = "idle"
  PROVE  main'.result # "failed" /\ (main'.result = "done" => Achieved')
<1>1. ClientInv /\ Active /\ main.at = "wait_reset" /\ ThreadInv /\ LinkInv
  BY DEF Ground, IInv, Active, ResetDone
<1>2. main' = Advance(<< >>)
  BY <1>1, PlaceFields DEF ResetDone
<1>3. /\ main'.cmd = main.cmd /\ main'.result = Outcome(ReadSoFar(<< >>))
      /\ main.cmd \in DOMAIN Script /\ main.call = Len(Script[main.cmd]) /\ main.call \in 1 .. Len(Script[main.cmd])
  BY <1>1, <1>2, LastCall
<1>4. CASE Call \in {"reset_system", "start_system"}
  <2>1. main.cmd \in {"hard_reset", "connect_system"}
    BY <1>3, <1>4, DoneCommand DEF Call
  <2>2. main'.result = "done"
    BY <1>3, <2>1 DEF Outcome
  <2>3. Fresh'
    BY <1>3, <2>1, <2>2 DEF FreshInv
  <2> QED BY <1>3, <2>1, <2>2, <2>3 DEF Achieved
<1>5. CASE Call \in {"reset_cpu", "start_cpu"} /\ Response /\ bg.resetting = "cpu" /\ pending.addr = RESET
  <2>1. main.cmd \in {"reset", "connect_cpu"}
    BY <1>3, <1>5, DoneCommand DEF Call
  <2>2. main'.result = "done"
    BY <1>3, <2>1 DEF Outcome
  <2>3. pending.value = RESET_CPU /\ ~Resetting /\ pending # None /\ Available
    BY <1>5 DEF KindInv, Resetting, Response
  <2>4. PICK r : r = pending
    OBVIOUS
  <2>5. Received.req = r
    BY <1>1, <2>3, <2>4, ReceivedOwn DEF Ground
  <2>6. Shown(Received.req, Received.data)
    BY <2>3 DEF ShownInv, AnswersShown, Received, Available, HasResponse
  <2>7. r.write
    <3>1. CASE ~r.write
      BY <1>1, <1>5, <2>5, <3>1 DEF Response
    <3> QED BY <3>1
  <2>8. dev.booting
    BY <1>5, <2>3, <2>4, <2>5, <2>6, <2>7 DEF Shown, Did
  <2>9. dev' = dev
    BY <1>5 DEF Response
  <2> QED BY <1>3, <2>1, <2>2, <2>8, <2>9 DEF Achieved
<1> QED BY <1>4, <1>5 DEF ResetDone

\* What it has brought about stays until the next one begins.
LEMMA StaysAchieved ==
  ASSUME Ground, AloneInv, CommandsAchieve, FreshInv', [Next]_vars, InTime', UNCHANGED main,
         main.at = "idle", main.fresh
  PROVE  main'.result # "failed" /\ (main'.result = "done" => Achieved')
<1>1. InTime /\ OnePending /\ CommandsInv
  BY InTimeStep
<1>2. main.result # "failed" /\ (main.result = "done" => Achieved)
  BY <1>1 DEF CommandsAchieve
<1> SUFFICES ASSUME main.result = "done" PROVE Achieved'
  BY <1>2
<1>3. CASE main.cmd \in {"read", "write"}
  BY <1>3 DEF Achieved
<1>4. CASE main.cmd \in {"hard_reset", "connect_system"}
  <2>1. Fresh'
    BY <1>4 DEF FreshInv
  <2> QED BY <1>4, <2>1 DEF Achieved
<1>5. CASE main.cmd \notin {"read", "write", "hard_reset", "connect_system"}
  <2>1. pending = None
    BY <1>1, <1>5 DEF AloneInv
  <2>2. ~Resetting /\ ~Has(commands, "reset")
    BY <1>1 DEF OnePending, Resetting
  <2>3. Kept
    BY <1>1, <2>1, <2>2, World, FirstCommand
  <2>4. ~Starts
    <3>1. main.result = "done" /\ UNCHANGED main
      OBVIOUS
    <3> QED BY <3>1, StartFields
  <2>5. count'.commands = count.commands
    BY <2>4, CommandCounted
  <2> QED BY <1>2, <1>5, <2>3, <2>5 DEF Achieved, Kept, Contents
<1> QED BY <1>3, <1>4, <1>5

LEMMA AchieveStep ==
  /\ Ground /\ Ground' /\ KindInv /\ AloneInv /\ OffsetInv /\ ShownInv /\ StaleInv /\ ProgressInv
  /\ FreshInv' /\ CommandsAchieve /\ [Next]_vars
  => CommandsAchieve'
<1> SUFFICES ASSUME Ground, Ground', KindInv, AloneInv, OffsetInv, ShownInv, StaleInv, ProgressInv,
                    FreshInv', CommandsAchieve, [Next]_vars, InTime', main'.fresh, main'.at = "idle"
             PROVE  main'.result # "failed" /\ (main'.result = "done" => Achieved')
  BY DEF CommandsAchieve
<1>1. InTime /\ OnePending /\ ClientInv
      /\ DOMAIN main = {"at", "cmd", "call", "offset", "data", "req", "region", "result", "fresh"}
  BY InTimeStep
<1>2. CASE UNCHANGED main
  BY <1>2, StaysAchieved
<1>3. CASE Starts
  BY <1>3, StartFields
<1>4. CASE ~UNCHANGED main /\ ~Starts /\ Client
  <2>1. CASE main' = Finish("refused")
    BY <1>1, <2>1, FinishFields
  <2>2. CASE main.cmd \in {"read", "write"} /\ main' = Finish("done")
    <3>1. main'.result = "done" /\ main'.cmd = main.cmd
      BY <1>1, <2>2, FinishFields
    <3> QED BY <2>2, <3>1 DEF Achieved
  <2>3. CASE \E e : Took(e)
    <3>1. PICK e : Took(e)
      BY <2>3
    <3>2. main.fresh
      <4>1. main' = Advance(e.data)
        BY <3>1 DEF Took
      <4> QED BY <1>1, <4>1, AdvanceFields
    <3> QED BY <1>1, <3>1, <3>2, TookAchieves
  <2>4. CASE main.at = "drain" /\ main' = Advance(<< >>)
    BY <1>1, <2>4, DrainAchieves
  <2>5. ~Asks("enqueue") /\ ~Asks("wait_reset") /\ main' # [main EXCEPT !.at = "poll"]
    <3>1. Asks("enqueue") \/ Asks("wait_reset") => main'.at \in {"enqueue", "wait_reset"}
      BY <1>1, PlaceFields DEF Asks
    <3>2. main' = [main EXCEPT !.at = "poll"] => main'.at = "poll"
      BY <1>1, PlaceFields
    <3> QED BY <3>1, <3>2
  <2> QED BY <1>4, <2>1, <2>2, <2>3, <2>4, <2>5, ClientInTime
<1>5. CASE ~UNCHANGED main /\ ~Client
  <2>1. ResetDone
    BY <1>5, ThreadInTime
  <2> QED BY <1>1, <2>1, ResetAchieves
<1> QED BY <1>2, <1>3, <1>4, <1>5

(***************************************************************************)
(* The start of a runtime.                                                 *)
(***************************************************************************)
\* It begins with nothing, or with the reset it is connected with.
LEMMA Begins ==
  ASSUME Init
  PROVE  /\ commands = << >> /\ events = << >> /\ direct = NoResponse
         /\ main.result = "none" /\ main.at \in {"idle", "wait_reset"}
         /\ main.at = "wait_reset" => main.cmd \in Connecting
         /\ bg.at \in {"command", "timeout"}
         /\ bg.resetting = "cpu" => Call = "start_cpu" /\ pending.value = RESET_CPU
         /\ Resetting => Call = "start_system" /\ SysReset(handler.outgoing_request) /\ ~handler.tx_started
         /\ handler.outgoing_response = NoResponse
         /\ \A x \in Elems(toHost) : x.type = "host_resp" => x.req = Request(0, FALSE, STATUS, 4, 1, 0)
<1>1. commands = << >> /\ events = << >> /\ direct = NoResponse
  BY DEF Init
<1>2. NewHandler.outgoing_response = NoResponse /\ ~NewHandler.tx_started
      /\ \A r : LET h == SendRequest(NewHandler, r)
                IN  h.outgoing_response = NoResponse /\ h.outgoing_request = r /\ ~h.tx_started
  BY DEF NewHandler, SendRequest
<1>3. Idle.at = "idle" /\ Idle.result = "none"
      /\ \A x, y : LET m == [Idle EXCEPT !.at = "wait_reset", !.cmd = x, !.req = y]
                   IN  m.at = "wait_reset" /\ m.result = "none" /\ m.cmd = x /\ m.call = 1
  BY DEF Idle
<1>4. CASE backend = "sim"
  <2>1. main = Idle /\ handler = NewHandler /\ bg = [at |-> "command", resetting |-> "no"] /\ toHost = << >>
    BY <1>4 DEF Init, Create
  <2>2. bg.at = "command" /\ bg.resetting = "no"
    BY <2>1
  <2> QED BY <1>1, <1>2, <1>3, <2>1, <2>2, EmptyElems DEF Resetting
<1>5. CASE backend # "sim"
  <2>1. PICK startup \in Startups, left \in Leftovers : Connect(startup, left)
    BY <1>5 DEF Init
  <2>2. PICK r : r = RequestAt(Script[startup][1], NoRegion, 0, 1, 0)
    OBVIOUS
  <2>3. /\ main = IF startup = "none" THEN Idle ELSE [Idle EXCEPT !.at = "wait_reset", !.cmd = startup, !.req = r]
        /\ pending = IF startup = "connect_cpu" THEN r ELSE None
        /\ handler = IF startup = "none" THEN NewHandler ELSE SendRequest(NewHandler, r)
        /\ toHost = left.toHost
    BY <2>1, <2>2 DEF Connect
  <2>4. /\ startup = "none" => bg.at = "command" /\ bg.resetting = "no"
        /\ startup = "connect_cpu" => bg.at = "timeout" /\ bg.resetting = "cpu"
        /\ startup = "connect_system" => bg.at = "timeout" /\ bg.resetting = "system"
    BY <2>1 DEF Connect
  <2>5. startup \in {"none", "connect_cpu", "connect_system"} /\ (startup # "none" => startup \in Connecting)
    BY DEF Startups, Connecting
  <2>6. startup = "connect_cpu" => Script[startup][1] = "start_cpu" /\ r.value = RESET_CPU
    <3>1. startup = "connect_cpu" => Script[startup][1] = "start_cpu"
      BY DEF Script, ConnectCpu
    <3> QED BY <2>2, <3>1 DEF RequestAt, Request
  <2>7. startup = "connect_system" => Script[startup][1] = "start_system" /\ SysReset(r)
    <3>1. startup = "connect_system" => Script[startup][1] = "start_system"
      BY DEF Script, ConnectSystem
    <3> QED BY <2>2, <3>1 DEF RequestAt, Request, SysReset
  <2>8. startup # "none" => main.at = "wait_reset" /\ main.cmd = startup /\ Call = Script[startup][1] /\ main.result = "none"
    BY <1>3, <2>3 DEF Call
  <2>9. \A x \in Elems(toHost) : x.type = "host_resp" => x.req = Request(0, FALSE, STATUS, 4, 1, 0)
    BY <2>3, LeftoverPackets
  <2>10. CASE startup = "none"
    BY <1>1, <1>2, <1>3, <2>3, <2>4, <2>9, <2>10 DEF Resetting
  <2>11. CASE startup = "connect_cpu"
    BY <1>1, <1>2, <2>3, <2>4, <2>5, <2>6, <2>8, <2>9, <2>11 DEF Resetting
  <2>12. CASE startup = "connect_system"
    BY <1>1, <1>2, <2>3, <2>4, <2>5, <2>7, <2>8, <2>9, <2>12 DEF Resetting
  <2> QED BY <2>5, <2>10, <2>11, <2>12
<1> QED BY <1>4, <1>5

(***************************************************************************)
(* The inductive invariant.                                                *)
(***************************************************************************)
CommandInv == /\ OffsetInv /\ KindInv /\ AloneInv /\ ShownInv /\ RestartInv /\ FreshInv
              /\ ProgressInv /\ StaleInv /\ CommandsAchieve

LEMMA InitCommand == Init => CommandInv
<1> SUFFICES ASSUME Init PROVE CommandInv
  OBVIOUS
<1>1. /\ commands = << >> /\ events = << >> /\ direct = NoResponse
      /\ main.result = "none" /\ main.at \in {"idle", "wait_reset"}
      /\ main.at = "wait_reset" => main.cmd \in Connecting
      /\ bg.at \in {"command", "timeout"}
      /\ bg.resetting = "cpu" => Call = "start_cpu" /\ pending.value = RESET_CPU
      /\ Resetting => Call = "start_system" /\ SysReset(handler.outgoing_request) /\ ~handler.tx_started
      /\ handler.outgoing_response = NoResponse
      /\ \A x \in Elems(toHost) : x.type = "host_resp" => x.req = Request(0, FALSE, STATUS, 4, 1, 0)
  BY Begins
<1>2. Elems(commands) = {} /\ Elems(events) = {}
  BY <1>1, EmptyElems
<1>3. OffsetInv /\ AloneInv /\ FreshInv /\ StaleInv /\ CommandsAchieve
  BY <1>1 DEF OffsetInv, Sending, AloneInv, FreshInv, StaleInv, CommandsAchieve
<1>4. KindInv
  BY <1>1, <1>2 DEF KindInv
<1>5. ShownInv
  <2>1. \A data, r : r = Request(0, FALSE, STATUS, 4, 1, 0) => Shown(r, data)
    BY DEF Shown, Did, Request, STATUS, Memory
  <2>2. AnswersShown(handler, toHost)
    BY <1>1, <2>1 DEF AnswersShown
  <2> QED BY <1>1, <2>2 DEF ShownInv
<1>6. RestartInv
  BY <1>1 DEF RestartInv, Past
<1>7. ProgressInv
  BY <1>1 DEF ProgressInv, Active
<1> QED BY <1>3, <1>4, <1>5, <1>6, <1>7 DEF CommandInv

LEMMA CommandStep == Ground /\ Ground' /\ CommandInv /\ [Next]_vars => CommandInv'
<1> SUFFICES ASSUME Ground, Ground', CommandInv, [Next]_vars PROVE CommandInv'
  OBVIOUS
<1>1. OffsetInv /\ KindInv /\ AloneInv /\ ShownInv /\ RestartInv /\ FreshInv /\ ProgressInv /\ StaleInv /\ CommandsAchieve
  BY DEF CommandInv
<1>2. OffsetInv' /\ KindInv' /\ AloneInv'
  BY <1>1, OffsetStep, KindStep, AloneStep
<1>3. ShownInv' /\ RestartInv' /\ FreshInv'
  BY <1>1, ShownStep, RestartStep, FreshStep
<1>4. ProgressInv' /\ StaleInv'
  BY <1>1, ProgressStep, StaleStep
<1>5. CommandsAchieve'
  BY <1>1, <1>3, AchieveStep
<1> QED BY <1>2, <1>3, <1>4, <1>5 DEF CommandInv

\* As long as nothing fails and no old event is left over at its start, every command of the
\* client is refused or does what it says, whatever the CPU and the link do meanwhile: loadelf,
\* loadmem and the reload leave their data in every byte, dumpmem returns what memory holds, a
\* memory test passes, and boot and the resets leave the core as they should (lib.rs:398-760
\* carried out by fpga.rs and sim.rs, shell.rs:609-655).
THEOREM CommandsCorrect == Spec => []CommandsAchieve
<1>1. Spec => []CommandInv
  BY InitCommand, CommandStep, Grounded, PTL DEF Spec
<1>2. CommandInv => CommandsAchieve
  BY DEF CommandInv
<1> QED BY <1>1, <1>2, PTL

=============================================================================
