-------------------------- MODULE HostBusInterface --------------------------
(***************************************************************************)
(* rtl/common/io/host_bus_interface.sv: the FPGA's end of the host link.   *)
(* It sends the CPU's accesses to host memory out as request packets,      *)
(* executes the burst requests that the host sends in, and shares one      *)
(* transmitter and one receiver between the two directions.                *)
(*                                                                         *)
(* The model works on beats: a packet is a start beat that carries the     *)
(* metadata and, when it has a payload, the first data word, followed by   *)
(* one beat per further word.  host_bus_rx and host_bus_tx turn beats from *)
(* and into bytes; here only what they do to the flow of beats is kept     *)
(* (one beat of buffering, packet_ready of the transmitter).               *)
(*                                                                         *)
(* Everything on the FPGA side happens at one clock edge: Clock computes   *)
(* the next value of every register from the present ones and the inputs.  *)
(* The host, which sends packets, is an action of its own.                 *)
(***************************************************************************)
EXTENDS Naturals, Sequences

CONSTANTS
  Data,          \* data words
  Words(_),      \* the words that word k (from 0) of a burst may have
  CpuWords,      \* the words that a CPU access may move
  CpuRequest,    \* what the CPU may ask of the host
  HostRequest,   \* the request metadata that the host may send
  ADDR_MOD,      \* addresses are counted modulo this (2^32)
  MAX_LEN        \* number of values of burst_len_m1 (2^16)

\* What is assumed of the parameters; the instances check it.
SizesAssumption == /\ ADDR_MOD \in Nat \ {0}
                   /\ MAX_LEN \in Nat \ {0}
                   /\ 0 \in Data
                   /\ CpuWords \subseteq Data
                   /\ \A k \in 0 .. MAX_LEN - 1 : Words(k) \subseteq Data

(***************************************************************************)
(* Request metadata.  len is burst_len_m1, size the two-bit code of the    *)
(* beat width, sfix and dfix the src_fixed and dst_fixed flags.            *)
(***************************************************************************)
Meta == [we : BOOLEAN, size : 0 .. 2, sfix : BOOLEAN, dfix : BOOLEAN,
         len : 0 .. MAX_LEN - 1, addr : 0 .. ADDR_MOD - 1]

RequestAssumption == /\ HostRequest \subseteq Meta
                     /\ CpuRequest \subseteq Meta
                     /\ \A r \in CpuRequest : r.len = 0 /\ ~r.sfix /\ ~r.dfix

Beat == [start : BOOLEAN, last : BOOLEAN, req : BOOLEAN, meta : Meta, data : Data]

VARIABLES
  cpu,    \* request/response registers of the CPU slave interface
  host,   \* registers of the host transaction engine
  slice,  \* tx_slice: the staged response beat
  rx,     \* host_bus_rx: the beat it offers and the beats still to arrive
  tx,     \* host_bus_tx: what it is doing and how many beats are left
  bus,    \* the system bus: an access of the host master is outstanding
  link    \* the host: its own outstanding request and the CPU's

vars == <<cpu, host, slice, rx, tx, bus, link>>

HostState == {"IDLE", "WRITE_A", "WRITE_D", "WRITE_WAIT", "WRITE_RESP",
              "READ_A", "READ_D", "READ_TX"}

Stride(size) == CASE size = 0 -> 1 [] size = 1 -> 2 [] OTHER -> 4

AddrFixed(m) == IF m.we THEN m.dfix ELSE m.sfix

HasPayload(req, we) == req = we

(***************************************************************************)
(* Transmit arbitration: a write response goes before a CPU request, and a *)
(* staged beat before both.                                                *)
(***************************************************************************)
WriteResponse == [start |-> TRUE, last |-> TRUE, req |-> FALSE,
                  meta |-> host.meta, data |-> 0]

CpuPacket == [start |-> TRUE, last |-> TRUE, req |-> TRUE,
              meta |-> cpu.cap, data |-> cpu.cap_data]

TxIssueValid == host.state = "WRITE_RESP" \/ cpu.req_pending
\* Wrong variant: a CPU request goes before a write response.
TxIssue_CpuFirst == IF cpu.req_pending THEN CpuPacket ELSE WriteResponse

TxIssue == IF host.state = "WRITE_RESP" THEN WriteResponse ELSE CpuPacket

TxPktValid == slice.valid \/ TxIssueValid
TxPkt == IF slice.valid THEN slice.beat ELSE TxIssue

TxPktReady == \/ tx.state = "IDLE" /\ TxPkt.start
              \/ tx.state = "WAIT_BEAT" /\ ~TxPkt.start

TxFire == TxPktValid /\ TxPktReady

(***************************************************************************)
(* Only responses are staged while the transmitter is busy.                *)
(***************************************************************************)
\* Wrong variant: CPU requests are staged too.
StageCapture_AnyBeat == ~slice.valid /\ TxIssueValid /\ ~TxPktReady

StageCapture == ~slice.valid /\ TxIssueValid /\ ~TxPktReady /\ ~TxIssue.req

(***************************************************************************)
(* Which received beat can be taken now.  Nothing else raises rx_pkt_ready.*)
(***************************************************************************)
\* Wrong variant: any received beat is taken for the CPU's response.
AcceptCpuResp_AnyBeat == cpu.wait_resp /\ rx.valid

AcceptCpuResp == cpu.wait_resp /\ rx.valid /\ ~rx.beat.req
AcceptHostStart == host.state = "IDLE" /\ rx.valid /\ rx.beat.req /\ rx.beat.start
AcceptPayload == host.state = "WRITE_WAIT" /\ rx.valid /\ rx.beat.req /\ ~rx.beat.start
RxReady == AcceptCpuResp \/ AcceptHostStart \/ AcceptPayload

(***************************************************************************)
(* The CPU side at a clock edge.  a is the request that the memory mux     *)
(* offers (<< >> when mem_a_valid is low) and d_ready its readiness to     *)
(* take the response.                                                      *)
(***************************************************************************)
MemAReady == ~cpu.req_pending /\ ~cpu.wait_resp /\ ~cpu.resp_valid

\* Wrong variant: any transmitted beat is taken for the CPU's request.
CpuNext_AnyFire(a, d_ready) ==
  LET capture == a # << >> /\ MemAReady
      sent    == cpu.req_pending /\ TxFire
  IN  [cpu EXCEPT
        !.req_pending = ~sent /\ (capture \/ @),
        !.wait_resp   = ~AcceptCpuResp /\ (sent \/ @),
        !.resp_valid  = AcceptCpuResp \/ (@ /\ ~d_ready),
        !.cap         = IF capture THEN a[1] ELSE @,
        !.cap_data    = IF capture THEN a[2] ELSE @,
        !.resp_data   = IF AcceptCpuResp THEN rx.beat.data ELSE @]

CpuNext(a, d_ready) ==
  LET capture == a # << >> /\ MemAReady
      sent    == cpu.req_pending /\ TxFire /\ TxPkt.req
  IN  [req_pending |-> ~sent /\ (capture \/ cpu.req_pending),
       wait_resp   |-> ~AcceptCpuResp /\ (sent \/ cpu.wait_resp),
       resp_valid  |-> AcceptCpuResp \/ (cpu.resp_valid /\ ~d_ready),
       cap         |-> IF capture THEN a[1] ELSE cpu.cap,
       cap_data    |-> IF capture THEN a[2] ELSE cpu.cap_data,
       resp_data   |-> IF AcceptCpuResp THEN rx.beat.data ELSE cpu.resp_data]

(***************************************************************************)
(* The host transaction engine, one operator per state.                    *)
(***************************************************************************)
HostAFire(a_ready) == host.state \in {"WRITE_A", "READ_A"} /\ a_ready
HostDFire(d_valid) == host.state \in {"WRITE_D", "READ_D"} /\ d_valid
\* Wrong variant: the engine ends a burst one beat early.
LastBeat_Early == host.beats <= 2

LastBeat == host.beats = 1

StartRequest ==
  LET m == rx.beat.meta
  IN  [host EXCEPT
        !.meta  = m,
        !.curr  = m.addr,
        !.next  = IF AddrFixed(m) THEN m.addr
                  ELSE (m.addr + Stride(m.size)) % ADDR_MOD,
        !.beats = m.len + 1,
        !.wdata = IF m.we THEN rx.beat.data ELSE host.wdata,
        !.first = IF m.we THEN host.first ELSE TRUE,
        !.state = IF m.we THEN "WRITE_A" ELSE "READ_A"]

\* Wrong variant: the next address is used but not advanced.
NextBeat_Drift(state) ==
  [host EXCEPT !.beats = @ - 1, !.state = state,
               !.curr = IF AddrFixed(host.meta) THEN @ ELSE host.next]

\* Wrong variant: the address counter is a bit too wide.
NextBeat_NoWrap(state) ==
  [host EXCEPT !.beats = @ - 1, !.curr = host.next, !.state = state,
               !.next = @ + Stride(host.meta.size)]

NextBeat(state) ==
  [host EXCEPT
    !.beats = @ - 1,
    !.curr  = IF AddrFixed(host.meta) THEN @ ELSE host.next,
    !.next  = IF AddrFixed(host.meta) THEN @
              ELSE (@ + Stride(host.meta.size)) % ADDR_MOD,
    !.state = state]

HostNext(a_ready, d_valid) ==
  CASE host.state = "IDLE" /\ AcceptHostStart -> StartRequest
    [] host.state = "WRITE_A" /\ a_ready -> [host EXCEPT !.state = "WRITE_D"]
    [] host.state = "WRITE_D" /\ d_valid ->
         IF LastBeat THEN [host EXCEPT !.state = "WRITE_RESP"]
         ELSE NextBeat("WRITE_WAIT")
    [] host.state = "WRITE_WAIT" /\ AcceptPayload ->
         [host EXCEPT !.wdata = rx.beat.data, !.state = "WRITE_A"]
    [] host.state = "WRITE_RESP" /\ TxFire -> [host EXCEPT !.state = "IDLE"]
    [] host.state = "READ_A" /\ a_ready -> [host EXCEPT !.state = "READ_D"]
    [] host.state = "READ_D" /\ d_valid -> [host EXCEPT !.state = "READ_TX"]
    [] host.state = "READ_TX" /\ TxFire ->
         IF LastBeat THEN [host EXCEPT !.first = FALSE, !.state = "IDLE"]
         ELSE [NextBeat("READ_A") EXCEPT !.first = FALSE]
    [] OTHER -> host

\* Wrong variant: every read beat is marked as the start of a packet.
SliceNext_AllStart(d_valid, rdata) ==
  IF host.state = "READ_D" /\ d_valid
  THEN [valid |-> TRUE,
        beat  |-> [start |-> TRUE, last |-> LastBeat, req |-> FALSE,
                   meta |-> host.meta, data |-> rdata]]
  ELSE IF StageCapture THEN [valid |-> TRUE, beat |-> TxIssue]
  ELSE [slice EXCEPT !.valid = @ /\ ~TxPktReady]

(***************************************************************************)
(* The staged beat: a read response word when the bus returns it, a write  *)
(* response that finds the transmitter busy.                               *)
(***************************************************************************)
SliceNext(d_valid, rdata) ==
  IF host.state = "READ_D" /\ d_valid
  THEN [valid |-> TRUE,
        beat  |-> [start |-> host.first, last |-> LastBeat, req |-> FALSE,
                   meta |-> host.meta, data |-> rdata]]
  ELSE IF StageCapture THEN [valid |-> TRUE, beat |-> TxIssue]
  ELSE [slice EXCEPT !.valid = @ /\ ~TxPktReady]

(***************************************************************************)
(* host_bus_tx in beats: it takes a start beat when idle, sends it (done   *)
(* says that its last byte has gone), and waits for the payload's further  *)
(* beats before it is idle again.                                          *)
(***************************************************************************)
TxNext(done) ==
  IF TxFire
  THEN [state   |-> "SEND",
        payload |-> IF TxPkt.start THEN HasPayload(TxPkt.req, TxPkt.meta.we)
                    ELSE tx.payload,
        beats   |-> IF TxPkt.start THEN TxPkt.meta.len + 1 ELSE tx.beats]
  ELSE IF tx.state = "SEND" /\ done
  THEN [tx EXCEPT !.state = IF tx.payload /\ tx.beats # 1 THEN "WAIT_BEAT" ELSE "IDLE",
                  !.beats = IF tx.payload THEN @ - 1 ELSE @]
  ELSE tx

(***************************************************************************)
(* host_bus_rx in beats: one beat is held until it is taken, and no byte   *)
(* of the next one is accepted before.                                     *)
(***************************************************************************)
RxNext(arrive) ==
  IF rx.valid THEN [rx EXCEPT !.valid = ~RxReady]
  ELSE IF arrive /\ rx.coming # << >>
  THEN [valid |-> TRUE, beat |-> Head(rx.coming), coming |-> Tail(rx.coming)]
  ELSE rx

BusNext(a_ready, d_valid) ==
  (bus \/ HostAFire(a_ready)) /\ ~HostDFire(d_valid)

(***************************************************************************)
(* What the host knows: the request it sent (meta, wdata), the words that  *)
(* the bus returned for it (rdata), how many accesses were made for it and *)
(* how many beats of its response the transmitter took, what the           *)
(* transmitter is sending, and the CPU request that it has to answer.  A   *)
(* packet counts as received when its last byte has gone.                  *)
(***************************************************************************)
LinkNext(d_valid, rdata, done) ==
  LET request  == TxFire /\ TxPkt.req
      response == TxFire /\ ~TxPkt.req
      access   == HostDFire(d_valid)
      sent     == tx.state = "SEND" /\ done
  IN  [link EXCEPT
        !.done    = IF access THEN @ + 1 ELSE @,
        !.rdata   = IF access /\ ~host.meta.we THEN Append(@, rdata) ELSE @,
        !.acked   = IF response THEN @ + 1 ELSE @,
        !.ask     = IF request THEN TxPkt.meta ELSE @,
        !.sending = IF request THEN "ask"
                    ELSE IF response THEN (IF TxPkt.last THEN "last" ELSE "beat")
                    ELSE IF sent THEN "none" ELSE @,
        !.active  = @ /\ ~(sent /\ link.sending = "last"),
        !.owed    = @ \/ (sent /\ link.sending = "ask")]

(***************************************************************************)
(* One clock edge.  An input that no register looks at is left low.        *)
(***************************************************************************)
Choice(looked_at) == IF looked_at THEN BOOLEAN ELSE {FALSE}

Offers == IF MemAReady THEN {<< >>} \cup (CpuRequest \X CpuWords) ELSE {<< >>}

ReadWords == IF host.state = "READ_D" THEN Words(link.done) ELSE {0}

Clock(a, d_ready, ha_ready, hd_valid, rdata, done, arrive) ==
  /\ cpu' = CpuNext(a, d_ready)
  /\ host' = HostNext(ha_ready, hd_valid)
  /\ slice' = SliceNext(hd_valid, rdata)
  /\ tx' = TxNext(done)
  /\ rx' = RxNext(arrive)
  /\ bus' = BusNext(ha_ready, hd_valid)
  /\ link' = LinkNext(hd_valid, rdata, done)

Edge == \E a \in Offers,
           d_ready \in Choice(cpu.resp_valid),
           ha_ready \in Choice(host.state \in {"WRITE_A", "READ_A"}),
           hd_valid \in Choice(bus),
           rdata \in ReadWords,
           done \in Choice(tx.state = "SEND"),
           arrive \in Choice(~rx.valid /\ rx.coming # << >>) :
          Clock(a, d_ready, ha_ready, hd_valid, rdata, done, arrive)

(***************************************************************************)
(* The host sends a request of its own when none of its requests is        *)
(* outstanding, and answers a CPU request that it has received whole.      *)
(***************************************************************************)
RequestBeats(m, words) ==
  IF m.we THEN [k \in 1 .. m.len + 1 |->
                 [start |-> k = 1, last |-> k = m.len + 1, req |-> TRUE,
                  meta |-> m, data |-> words[k]]]
  ELSE <<[start |-> TRUE, last |-> TRUE, req |-> TRUE, meta |-> m, data |-> 0]>>

Payloads(m) == IF m.we THEN {w \in [1 .. m.len + 1 -> Data] :
                               \A k \in 1 .. m.len + 1 : w[k] \in Words(k - 1)}
               ELSE {<< >>}

HostSend(m, words) ==
  /\ ~link.active
  /\ rx' = [rx EXCEPT !.coming = @ \o RequestBeats(m, words)]
  /\ link' = [link EXCEPT !.active = TRUE, !.meta = m, !.wdata = words,
                          !.rdata = << >>, !.done = 0, !.acked = 0]
  /\ UNCHANGED <<cpu, host, slice, tx, bus>>

HostAnswer(word) ==
  /\ link.owed
  /\ LET data == IF link.ask.we THEN 0 ELSE word
     IN  /\ rx' = [rx EXCEPT !.coming = Append(@,
                     [start |-> TRUE, last |-> TRUE, req |-> FALSE,
                      meta |-> link.ask, data |-> data])]
         /\ link' = [link EXCEPT !.owed = FALSE, !.answer = data]
  /\ UNCHANGED <<cpu, host, slice, tx, bus>>

(***************************************************************************)
(* The registers are powered up by a reset; those that reset leaves alone  *)
(* hold any value.  A later reset (system reset) finds the host's side     *)
(* cleared too: the runtime forgets its requests and drains the link.      *)
(***************************************************************************)
Init ==
  /\ \E m \in CpuRequest, n \in HostRequest, x \in CpuWords, b \in BOOLEAN :
       LET any == [start |-> b, last |-> b, req |-> ~b, meta |-> n, data |-> x]
       IN  /\ cpu = [req_pending |-> FALSE, wait_resp |-> FALSE,
                     resp_valid |-> FALSE, cap |-> m, cap_data |-> x,
                     resp_data |-> x]
           /\ host = [state |-> "IDLE", meta |-> n, curr |-> n.addr,
                      next |-> n.addr, beats |-> 0, wdata |-> x, first |-> FALSE]
           /\ slice = [valid |-> FALSE, beat |-> any]
           /\ rx = [valid |-> FALSE, beat |-> any, coming |-> << >>]
           /\ link = [active |-> FALSE, meta |-> n, wdata |-> << >>,
                      rdata |-> << >>, done |-> 0, acked |-> 0, ask |-> m,
                      sending |-> "none", owed |-> FALSE, answer |-> x]
  /\ tx = [state |-> "IDLE", payload |-> FALSE, beats |-> 0]
  /\ bus = FALSE

Reset ==
  /\ cpu' = [cpu EXCEPT !.req_pending = FALSE, !.wait_resp = FALSE,
                        !.resp_valid = FALSE]
  /\ host' = [host EXCEPT !.state = "IDLE", !.beats = 0, !.first = FALSE]
  /\ slice' = [slice EXCEPT !.valid = FALSE]
  /\ rx' = [rx EXCEPT !.valid = FALSE, !.coming = << >>]
  /\ tx' = [state |-> "IDLE", payload |-> FALSE, beats |-> 0]
  /\ bus' = FALSE
  /\ link' = [link EXCEPT !.active = FALSE, !.sending = "none", !.owed = FALSE]

Next == \/ Edge
        \/ \E m \in HostRequest : \E words \in Payloads(m) : HostSend(m, words)
        \/ \E word \in CpuWords : HostAnswer(word)
        \/ Reset

Spec == Init /\ [][Next]_vars

(***************************************************************************)
(* The clock runs; the byte link and the bus finish what they have begun;  *)
(* the CPU takes the response it waits for; and the host answers CPU       *)
(* requests (rule 3 of the host-bus plan).  The host owes no requests.     *)
(***************************************************************************)
Progress(d_ready, ha_ready, hd_valid, done, arrive) ==
  \E rdata \in ReadWords :
    Clock(<< >>, d_ready, ha_ready, hd_valid, rdata, done, arrive)

Fairness ==
  /\ WF_vars(Progress(FALSE, FALSE, FALSE, FALSE, FALSE))
  /\ WF_vars(cpu.resp_valid /\ Progress(TRUE, FALSE, FALSE, FALSE, FALSE))
  /\ WF_vars(host.state \in {"WRITE_A", "READ_A"}
               /\ Progress(FALSE, TRUE, FALSE, FALSE, FALSE))
  /\ WF_vars(bus /\ Progress(FALSE, FALSE, TRUE, FALSE, FALSE))
  /\ WF_vars(tx.state = "SEND" /\ Progress(FALSE, FALSE, FALSE, TRUE, FALSE))
  /\ WF_vars(~rx.valid /\ rx.coming # << >>
               /\ Progress(FALSE, FALSE, FALSE, FALSE, TRUE))
  /\ WF_vars(\E word \in CpuWords : HostAnswer(word))

FairSpec == Spec /\ Fairness

(***************************************************************************)
(* Properties                                                              *)
(***************************************************************************)

\* Every register holds a value of its width.
TypeOK ==
  /\ cpu \in [req_pending : BOOLEAN, wait_resp : BOOLEAN, resp_valid : BOOLEAN,
              cap : CpuRequest, cap_data : Data, resp_data : Data]
  /\ host \in [state : HostState, meta : Meta, curr : 0 .. ADDR_MOD - 1,
               next : 0 .. ADDR_MOD - 1, beats : 0 .. MAX_LEN, wdata : Data,
               first : BOOLEAN]
  /\ slice \in [valid : BOOLEAN, beat : Beat]
  /\ rx \in [valid : BOOLEAN, beat : Beat, coming : Seq(Beat)]
  /\ tx \in [state : {"IDLE", "SEND", "WAIT_BEAT"}, payload : BOOLEAN,
             beats : 0 .. MAX_LEN]
  /\ bus \in BOOLEAN
  /\ link \in [active : BOOLEAN, meta : Meta, wdata : Seq(Data),
               rdata : Seq(Data), done : Nat, acked : Nat, ask : Meta,
               sending : {"none", "beat", "last", "ask"}, owed : BOOLEAN,
               answer : Data]

(***************************************************************************)
(* The address of access k (from 0) of a burst.                            *)
(***************************************************************************)
BurstAddr(m, k) == IF AddrFixed(m) THEN m.addr
                   ELSE (m.addr + k * Stride(m.size)) % ADDR_MOD

\* Access k of a burst goes to the k-th address of that burst, wrapping at the
\* top of the address space, and a write carries the k-th payload word: the
\* incremental curr/next/beats registers never drift from the request.
BurstAccess ==
  host.state \in {"WRITE_A", "READ_A"} =>
    /\ link.active
    /\ host.meta = link.meta
    /\ link.done <= link.meta.len
    /\ host.beats = link.meta.len + 1 - link.done
    /\ host.curr = BurstAddr(link.meta, link.done)
    /\ link.meta.we => host.wdata = link.wdata[link.done + 1]

\* Every response beat offered to the transmitter is the next beat of the
\* response to the request the host has outstanding: same metadata, start and
\* last on the right beats, read words in order, none twice and none skipped; a
\* write is acknowledged only after its last word was written.
ResponseStream ==
  (TxPktValid /\ ~TxPkt.req) =>
    /\ link.active
    /\ link.meta.we => link.done = link.meta.len + 1
    /\ link.acked <= link.meta.len
    /\ TxPkt = [start |-> link.acked = 0,
                last  |-> link.meta.we \/ link.acked = link.meta.len,
                req   |-> FALSE,
                meta  |-> link.meta,
                data  |-> IF link.meta.we THEN 0 ELSE link.rdata[link.acked + 1]]

\* The staging register only ever holds a response that its state still owns, so
\* no staged beat is overwritten and a CPU request is never parked in front of a
\* response (the comment at host_bus_interface.sv:194).
SliceOwned ==
  /\ slice.valid => host.state \in {"WRITE_RESP", "READ_TX"} /\ ~slice.beat.req
  /\ host.state = "READ_TX" => slice.valid

\* The transmitter's beat counter and the engine's agree on where the packet
\* ends: the transmitter waits for a payload beat only while the engine still
\* owes it one, so no packet is cut short and none swallows the next header.
FramesAgree ==
  /\ tx.state = "WAIT_BEAT" =>
       /\ host.state \in {"READ_A", "READ_D", "READ_TX"}
       /\ ~host.first
       /\ host.beats = tx.beats
  /\ host.state \in {"READ_A", "READ_D", "READ_TX"} /\ ~host.first =>
       tx.payload /\ tx.state # "IDLE"

\* A CPU request is in one place at a time and its response is the word that the
\* host sent for it.
CpuOneAnswer ==
  /\ ~(cpu.req_pending /\ cpu.wait_resp)
  /\ ~(cpu.req_pending /\ cpu.resp_valid)
  /\ ~(cpu.wait_resp /\ cpu.resp_valid)
  /\ cpu.resp_valid => cpu.resp_data = link.answer

\* The engine, its staging register and the transmitter agree on the packet
\* under way, and the CPU's access is in one place (host_bus_interface.sv:331).
LinkInv == TypeOK /\ SliceOwned /\ FramesAgree /\ CpuOneAnswer

\* A host request is always answered, whatever the CPU does, and a CPU access
\* to host memory always completes, however many requests of its own the host
\* sends meanwhile.
Answered == /\ link.active ~> ~link.active
            /\ ~MemAReady ~> MemAReady
=============================================================================
