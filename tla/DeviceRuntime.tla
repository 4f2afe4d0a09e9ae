---------------------------- MODULE DeviceRuntime ----------------------------
(***************************************************************************)
(* device-runtime: a client's commands, the thread that calls the runtime, *)
(* the background thread that owns the link (fpga.rs) or the simulator     *)
(* (sim.rs, sim/sim_core.rs), the HostBusHandler between them, and the     *)
(* target's host_bus_interface, system controller and CPU behind the link. *)
(*                                                                         *)
(* The threads share pending (a mutex) and two channels.  A pass of the    *)
(* background thread is several steps, since the main thread may act       *)
(* between any two of them.  The two backends differ in the order of the   *)
(* steps, in what a timeout clears, in how a reset is carried out and in   *)
(* who executes a request for the host's own bus.                          *)
(***************************************************************************)
EXTENDS HostCommands, FiniteSets

CONSTANTS BACKENDS,      \* runtimes to start with: "fpga", "sim"
          COMMANDS,      \* what the client may ask for
          BUDGETS        \* how often: commands, faults (timeouts, errors, lost reset packets)
                         \* and accesses of the CPU, in the combinations to try

ASSUME RuntimeAssumption ==
  /\ BACKENDS \subseteq {"fpga", "sim"} /\ COMMANDS \subseteq DOMAIN Script \ Connecting
  /\ \A b \in BUDGETS : b.commands \in Nat /\ b.faults \in Nat /\ b.cpu \in Nat

VARIABLES backend,
          budget,    \* one of BUDGETS
          main,      \* the thread of the client, and the command it carries out
          pending,   \* pending_host_request
          commands,  \* command_tx / command_rx
          events,    \* event_tx / event_rx
          bg,        \* where the background thread is, and the reset it carries out
          handler,   \* HostBusHandler
          direct,    \* the simulator's host_bus_direct_response
          tx,        \* tx_buffer: encoded, not yet written to the port
          toDev,     \* link, host to target
          toHost,    \* link, target to host
          dev,       \* host_bus_interface, the system controller and the CPU
          mem,       \* who wrote each byte of memory last, on either side
          count      \* requests, commands, faults and CPU accesses so far, and whether a
                     \* system reset has failed half-way

client == <<main, commands>>
link == <<tx, toDev, toHost>>
fixed == <<backend, budget>>
vars == <<fixed, client, pending, events, bg, handler, direct, link, dev, mem, count>>

Fault == count' = [count EXCEPT !.faults = @ + 1]
MayFail == count.faults < budget.faults
InTime == count.faults = 0

(***************************************************************************)
(* Memory: a write leaves its command's number in every byte.              *)
(***************************************************************************)
Written(m, r) == [a \in Memory |-> IF a \in Bytes(r) THEN r.value ELSE m[a]]
ReadOut(m, r) == [i \in 1 .. r.size * r.beats |-> m[r.addr + i - 1]]
Contents(m, region) == [i \in 1 .. region.len |-> m[region.addr + i - 1]]

\* reset_all_devices clears the memory of the host's bus.
Cleared(m) == [a \in Memory |-> IF a >= RTL_END THEN 0 ELSE m[a]]

\* A request executed at once in the SystemBus.
Executed(r) == [req |-> r, data |-> IF r.write THEN << >> ELSE ReadOut(mem, r)]

(***************************************************************************)
(* Events.  from is the request whose response is reported.                *)
(***************************************************************************)
Event(type, r, from) ==
  [type |-> type, id |-> r.id, addr |-> r.addr, size |-> from.req.size, data |-> from.data,
   from |-> from.req.id]

Answer(r, resp) == Event(IF resp.req.write THEN "write" ELSE "read", r, resp)
Emit(e) == events' = Append(events, e)

(***************************************************************************)
(* The client.                                                             *)
(***************************************************************************)
NoRegion == [addr |-> 0, len |-> 0]
Idle == [at |-> "idle", cmd |-> "none", call |-> 1, offset |-> 0, data |-> << >>, req |-> None,
         region |-> NoRegion, result |-> "none", fresh |-> TRUE]

Call == Script[main.cmd][main.call]
Finish(result) == [main EXCEPT !.at = "idle", !.req = None, !.result = result]

\* The reset that the runtime starts with: without it there is no runtime, and
\* no thread.
Starting == main.at = "wait_reset" /\ main.cmd \in Connecting

Failed == [Finish("failed") EXCEPT !.at = IF Starting THEN "gone" ELSE @]

\* read_region's data is compared with the pattern at the end of a memory test.
Outcome(data) == IF main.cmd = "memtest" /\ \E i \in DOMAIN data : data[i] # count.commands
                 THEN "failed" ELSE "done"

\* A request, or a reset, has succeeded: the next one of the call, the next
\* call of the command, or its end.
Advance(data) ==
  LET region == Call \in {"write_region", "read_region"}
      offset == main.offset + IF region THEN main.req.size * main.req.beats ELSE 1
      all == IF Call = "read_region" THEN main.data \o data ELSE main.data
  IN  IF offset < CallLength(Call, main.region)
      THEN [main EXCEPT !.at = "next", !.offset = offset, !.data = all]
      ELSE IF main.call < Len(Script[main.cmd])
      THEN [main EXCEPT !.at = "next", !.call = @ + 1, !.offset = 0, !.data = all]
      ELSE [Finish(Outcome(all)) EXCEPT !.data = all]

Regional(cmd) == cmd \notin {"boot", "reset", "hard_reset", "disconnect"}

\* A command of the shell, or the viewer's reload.
Start(cmd, region) ==
  LET m == [Idle EXCEPT !.cmd = cmd, !.region = region, !.fresh = events = << >>]
  IN  /\ main.at = "idle" /\ count.commands < budget.commands
      /\ count' = [count EXCEPT !.commands = @ + 1]
      /\ main' = IF (cmd \in Guarded /\ pending # None) \/ (cmd = "memtest" /\ ~Testable(region))
                 THEN [m EXCEPT !.result = "refused"]
                 ELSE [m EXCEPT !.at = "next"]
      /\ UNCHANGED <<fixed, commands, pending, events, bg, handler, direct, link, dev, mem>>

\* The call goes to the background thread as a command of its own.
ByCommand == Call = "reset_system" \/ (Call = "reset_cpu" /\ backend = "fpga")

NextRequest == RequestAt(Call, main.region, main.offset, count.ids + 1, count.commands)

\* Wrong variant: the lock is taken to set the request but not to test it.
MayArm_Unchecked == TRUE

MayArm == pending = None

\* send_host_request, under the lock: one request may be pending.
Arm ==
  /\ main.at = "next" /\ Call # "drop" /\ ~ByCommand
  /\ IF Route(NextRequest) = "invalid" \/ ~MayArm
     THEN main' = Finish("refused") /\ UNCHANGED <<pending, count>>
     ELSE /\ pending' = NextRequest
          /\ main' = [main EXCEPT !.at = "enqueue", !.req = NextRequest]
          /\ count' = [count EXCEPT !.ids = @ + 1]
  /\ UNCHANGED <<fixed, commands, events, bg, handler, direct, link, dev, mem>>

\* The command follows once the lock is released; without a thread to take
\* it, the request is withdrawn.
Enqueue ==
  /\ main.at = "enqueue"
  /\ IF bg.at = "ended"
     THEN pending' = None /\ main' = Finish("failed") /\ UNCHANGED commands
     ELSE /\ commands' = Append(commands, [type |-> "send", req |-> main.req])
          /\ main' = IF Call \in {"send_read", "send_write"} THEN Finish("done")
                     ELSE [main EXCEPT !.at = "poll"]
          /\ UNCHANGED pending
  /\ UNCHANGED <<fixed, events, bg, handler, direct, link, dev, mem, count>>

\* reset: refused while a request is pending; then waits for the result.
AskReset ==
  /\ main.at = "next" /\ ByCommand
  /\ IF pending # None THEN main' = Finish("refused") /\ UNCHANGED <<commands, count>>
     ELSE IF bg.at = "ended" THEN main' = Finish("failed") /\ UNCHANGED <<commands, count>>
     ELSE /\ commands' = Append(commands, [type |-> "reset", req |-> NextRequest])
          /\ main' = [main EXCEPT !.at = "wait_reset", !.req = NextRequest]
          /\ count' = [count EXCEPT !.ids = @ + 1]
  /\ UNCHANGED <<fixed, pending, events, bg, handler, direct, link, dev, mem>>

\* The loop of a helper takes an event and goes by what it is.  It never meets
\* the closed channel: the fatal event comes first.
Poll ==
  /\ main.at = "poll" /\ events # << >>
  /\ LET e == Head(events)
     IN main' = IF Matches(Call, main.req, e, pending)
                THEN IF Unacceptable(Call, main.req, e) THEN Finish("refused") ELSE Advance(e.data)
                ELSE IF e.type \in {"error", "fatal"} \/ (e.type = "timeout" /\ e.addr = main.req.addr)
                THEN Finish("failed")
                ELSE main
  /\ events' = Tail(events)
  /\ UNCHANGED <<fixed, commands, pending, bg, handler, direct, link, dev, mem, count>>

\* The client's main loop shows an event at a time; a fatal error disconnects.
IdlePoll ==
  /\ main.at = "idle"
  /\ IF events = << >> THEN bg.at = "ended" /\ UNCHANGED events ELSE events' = Tail(events)
  /\ main' = IF events = << >> \/ Head(events).type = "fatal" THEN [main EXCEPT !.at = "join"]
             ELSE main
  /\ UNCHANGED <<fixed, commands, pending, bg, handler, direct, link, dev, mem, count>>

\* Dropping the runtime tells the thread to stop and joins it.
Disconnect ==
  /\ main.at = "next" /\ Call = "drop"
  /\ main' = [main EXCEPT !.at = "join"]
  /\ commands' = Append(commands, [type |-> "shutdown", req |-> None])
  /\ UNCHANGED <<fixed, pending, events, bg, handler, direct, link, dev, mem, count>>

Join ==
  /\ main.at = "join" /\ bg.at = "ended"
  /\ main' = [Finish("done") EXCEPT !.at = "gone"]
  /\ UNCHANGED <<fixed, commands, pending, events, bg, handler, direct, link, dev, mem, count>>

\* After a system reset the FPGA runtime's events are thrown away, up to the
\* first error.
Drain ==
  /\ main.at = "drain"
  /\ IF events = << >> THEN main' = Advance(<< >>) /\ UNCHANGED events
     ELSE /\ events' = Tail(events)
          /\ main' = IF Head(events).type \in {"error", "fatal"} THEN Advance(<< >>) ELSE main
  /\ UNCHANGED <<fixed, commands, pending, bg, handler, direct, link, dev, mem, count>>

\* RESET_COMMAND_TIMEOUT is longer than any request stays pending: by then the
\* loop of handle_reset_command has missed its end, or that of an earlier reset
\* has.  The thread may also have ended, and the channel of the result with it.
GiveUpReset ==
  /\ main.at = "wait_reset"
  /\ bg.at = "ended" \/ (bg.resetting = "cpu" /\ pending = None)
  /\ main' = Failed
  /\ UNCHANGED <<fixed, commands, pending, events, bg, handler, direct, link, dev, mem, count>>

Client == \/ \E cmd \in COMMANDS : \E region \in IF Regional(cmd) THEN REGIONS ELSE {NoRegion} :
               Start(cmd, region)
          \/ Arm \/ Enqueue \/ AskReset \/ Poll \/ IdlePoll
          \/ Disconnect \/ Join \/ Drain \/ GiveUpReset

(***************************************************************************)
(* The background thread.                                                  *)
(***************************************************************************)
Order == [fpga |-> [command |-> "timeout", timeout |-> "link", link |-> "response"],
          sim |-> [command |-> "link", link |-> "timeout", timeout |-> "response",
                   response |-> "command"]]

Proceed == bg' = [bg EXCEPT !.at = Order[backend][@]]

\* A pass of poll_once is over: back to the commands, round the loop of a CPU
\* reset, or on with a system reset.
PassDone == bg' = [bg EXCEPT !.at = CASE bg.resetting = "no" -> "command"
                                      [] bg.resetting = "cpu" -> "timeout"
                                      [] bg.resetting = "system" -> "settle"]

ResetOver(ok) == bg' = [at |-> IF ~Starting THEN "timeout" ELSE IF ok THEN "command" ELSE "ended",
                        resetting |-> "no"]

\* Every reset has a channel for its result: the main thread waits for that of
\* its own, which is not still among the commands left.
Awaited(left) ==
  main.at = "wait_reset" /\ \A i \in DOMAIN left : left[i] # [type |-> "reset", req |-> main.req]

ReportReset(ok, left) ==
  main' = IF ~Awaited(left) THEN main
          ELSE IF ~ok THEN Failed
          ELSE IF Call = "reset_system" /\ backend = "fpga" THEN [main EXCEPT !.at = "drain"]
          ELSE Advance(<< >>)

\* Wrong variant: the request stays pending.
LocalCommand_Keep(r) ==
  /\ backend = "fpga" /\ Route(r) = "local"
  /\ IF pending # None THEN Emit([Answer(pending, Executed(r)) EXCEPT !.addr = r.addr])
                       ELSE UNCHANGED events
  /\ mem' = IF r.write THEN Written(mem, r) ELSE mem
  /\ Proceed
  /\ UNCHANGED <<pending, handler, direct, main>>

\* process_system_bus_request: executed and answered on the spot, unless the
\* request that was pending is gone.
LocalCommand(r) ==
  /\ backend = "fpga" /\ Route(r) = "local"
  /\ pending' = None
  /\ IF pending # None THEN Emit([Answer(pending, Executed(r)) EXCEPT !.addr = r.addr])
                       ELSE UNCHANGED events
  /\ mem' = IF r.write THEN Written(mem, r) ELSE mem
  /\ Proceed
  /\ UNCHANGED <<handler, direct, main>>

\* A request for the target.  What send_request refuses is no longer pending.
RtlCommand(r) ==
  /\ backend = "fpga" /\ Route(r) = "rtl"
  /\ IF Sendable(handler, r)
     THEN handler' = SendRequest(handler, r) /\ UNCHANGED <<pending, events>>
     ELSE /\ pending' = None
          /\ Emit(Event("error", pending, NoResponse))
          /\ UNCHANGED handler
  /\ Proceed
  /\ UNCHANGED <<direct, mem, main>>

\* Simulator::send_bus_request.  A request on its way, on either path, makes
\* it refuse, which is reported as a timeout of the request.
SimCommand(r) ==
  /\ backend = "sim"
  /\ IF handler.outgoing_request # None \/ direct # NoResponse
     THEN /\ IF pending # None THEN Emit(Event("timeout", pending, NoResponse)) ELSE UNCHANGED events
          /\ pending' = None
          /\ UNCHANGED <<handler, direct, mem>>
     ELSE /\ IF Route(r) = "rtl"
             THEN handler' = SendRequest(handler, r) /\ UNCHANGED <<direct, mem>>
             ELSE /\ direct' = Executed(r)
                  /\ mem' = IF r.write THEN Written(mem, r) ELSE mem
                  /\ UNCHANGED handler
          /\ UNCHANGED <<pending, events>>
  /\ Proceed
  /\ UNCHANGED main

\* handle_reset_command makes its request when it begins, however long ago it
\* was asked to.  A CPU reset becomes pending, a system reset does not.
FpgaReset(asked) ==
  LET r == [asked EXCEPT !.id = count.ids + 1]
  IN  /\ backend = "fpga"
      /\ count' = [count EXCEPT !.ids = @ + 1]
      /\ IF Sendable(handler, r)
         THEN /\ handler' = SendRequest(handler, r)
              /\ pending' = IF r.value = RESET_CPU THEN r ELSE pending
              /\ bg' = [at |-> "timeout",
                        resetting |-> IF r.value = RESET_CPU THEN "cpu" ELSE "system"]
              /\ UNCHANGED main
         ELSE /\ pending' = IF r.value = RESET_CPU THEN None ELSE pending
              /\ ReportReset(FALSE, Tail(commands)) /\ ResetOver(FALSE)
              /\ UNCHANGED handler
      /\ UNCHANGED <<events, direct, link, dev, mem>>

Booting == [cpu_wait_resp |-> FALSE, request |-> None, booting |-> TRUE]

\* Simulator::reset: the target, the handler and the host's bus start anew.
SimReset ==
  /\ backend = "sim"
  /\ handler' = NewHandler /\ direct' = NoResponse
  /\ tx' = << >> /\ toDev' = << >> /\ toHost' = << >>
  /\ dev' = Booting /\ mem' = Cleared(mem)
  /\ ReportReset(TRUE, Tail(commands)) /\ Proceed
  /\ UNCHANGED <<pending, events, count>>

Command ==
  /\ bg.at = "command" /\ commands # << >>
  /\ commands' = Tail(commands)
  /\ LET c == Head(commands)
     IN  \/ /\ c.type = "send"
            /\ LocalCommand(c.req) \/ RtlCommand(c.req) \/ SimCommand(c.req)
            /\ UNCHANGED <<link, dev, count>>
         \/ c.type = "reset" /\ (FpgaReset(c.req) \/ SimReset)
         \/ /\ c.type = "shutdown"
            /\ bg' = [bg EXCEPT !.at = "ended"]
            /\ UNCHANGED <<main, pending, events, handler, direct, link, dev, mem, count>>
  /\ UNCHANGED fixed

NoCommand ==
  /\ bg.at = "command" /\ commands = << >>
  /\ Proceed
  /\ UNCHANGED <<fixed, client, pending, events, handler, direct, link, dev, mem, count>>

(***************************************************************************)
(* The pending request is older than its timeout.  A timeout is at least a *)
(* second and the thread comes round for a command every few milliseconds, *)
(* so the command has been taken by then, unless the thread is in the loop *)
(* of a CPU reset.  The FPGA runtime drains the port of what has arrived,  *)
(* which is any number of the packets under way, and resets its handler;   *)
(* the simulator's only forgets the request.                               *)
(***************************************************************************)
Expired == /\ pending # None /\ main.at # "enqueue" /\ MayFail
           /\ commands = << >> \/ bg.resetting = "cpu"

FpgaTimeOut ==
  /\ backend = "fpga" /\ bg.at = "timeout" /\ Expired /\ Fault
  /\ \E arrived \in 0 .. Len(toHost) : toHost' = SubSeq(toHost, arrived + 1, Len(toHost))
  /\ tx' = << >>
  /\ handler' = NewHandler
  /\ pending' = None
  /\ IF bg.resetting = "cpu" /\ pending.addr = RESET
     THEN ReportReset(FALSE, commands) /\ ResetOver(FALSE) /\ UNCHANGED events
     ELSE PassDone /\ Emit(Event("timeout", pending, NoResponse)) /\ UNCHANGED main
  /\ UNCHANGED <<fixed, commands, direct, toDev, dev, mem>>

SimTimeOut ==
  /\ backend = "sim" /\ bg.at = "timeout" /\ Expired /\ Fault
  /\ pending' = None
  /\ Emit(Event("timeout", pending, NoResponse))
  /\ Proceed
  /\ UNCHANGED <<fixed, client, handler, direct, link, dev, mem>>

NoTimeOut ==
  /\ bg.at = "timeout"
  /\ Proceed
  /\ UNCHANGED <<fixed, client, pending, events, handler, direct, link, dev, mem, count>>

\* fill_rx_buffer and drain_rx_buffer_to_handler, a packet at a time.
RxPacket ==
  /\ backend = "fpga" /\ bg.at = "link"
  /\ toHost # << >> /\ CanTake(handler, Head(toHost))
  /\ handler' = FinalizeRx(handler, Head(toHost))
  /\ toHost' = Tail(toHost)
  /\ UNCHANGED <<fixed, client, pending, events, bg, direct, tx, toDev, dev, mem, count>>

\* start_tx_packet, as far as there is something to send.
Encoded(h) == IF HasTx(h) THEN <<StartTx(h)[2]>> ELSE << >>
AfterTx(h) == IF HasTx(h) THEN StartTx(h)[1] ELSE h

\* Nothing more arrives, or finds room.  fill_tx_buffer_from_handler takes what
\* the handler has, an answer to the CPU and a request; drain_tx_buffer: the
\* port takes as much as it likes.  What does not leave of a system reset's
\* packet is lost.
TxPackets ==
  /\ backend = "fpga" /\ bg.at = "link"
  /\ LET answered == AfterTx(handler)
         full == tx \o Encoded(handler) \o Encoded(answered)
     IN  /\ handler' = AfterTx(answered)
         /\ \E n \in 0 .. Len(full) : /\ toDev' = toDev \o SubSeq(full, 1, n)
                                      /\ tx' = SubSeq(full, n + 1, Len(full))
  /\ IF bg.resetting = "system" /\ tx' # << >> THEN MayFail /\ Fault ELSE UNCHANGED count
  /\ Proceed
  /\ UNCHANGED <<fixed, client, pending, events, direct, toHost, dev, mem>>

\* handle_host_bus_interface, as far as it ends a packet: one may arrive and
\* one may leave; then the answer to the CPU is completed if the latency of
\* the memory is over, or a request is accepted and answered, now or later.
SimLink ==
  /\ backend = "sim" /\ bg.at = "link"
  /\ \E take, send, ready \in BOOLEAN :
       /\ take => toHost # << >> /\ CanTake(handler, Head(toHost))
       /\ LET h == IF take THEN FinalizeRx(handler, Head(toHost)) ELSE handler
              sent == IF send THEN AfterTx(h) ELSE h
              accepted == IF HasIncoming(sent) THEN Accept(sent) ELSE sent
          IN  /\ send => HasTx(h)
              /\ ready => Completable(accepted)
              /\ handler' = IF ready THEN Complete(accepted) ELSE accepted
              /\ toHost' = IF take THEN Tail(toHost) ELSE toHost
              /\ toDev' = IF send THEN toDev \o Encoded(h) ELSE toDev
  /\ Proceed
  /\ UNCHANGED <<fixed, client, pending, events, direct, tx, dev, mem, count>>

\* A response for the request that is pending, whichever it answers; in the
\* simulator one of the host's bus goes first.
Available == direct # NoResponse \/ HasResponse(handler)
Received == IF direct # NoResponse THEN direct ELSE handler.outgoing_response

Response ==
  /\ bg.at = "response" /\ pending # None /\ Available
  /\ IF direct # NoResponse THEN direct' = NoResponse /\ UNCHANGED handler
     ELSE handler' = ReceiveResponse(handler) /\ UNCHANGED direct
  /\ pending' = None
  /\ IF bg.resetting = "cpu" /\ pending.addr = RESET /\ Received.req.write
     THEN ReportReset(TRUE, commands) /\ ResetOver(TRUE) /\ UNCHANGED events
     ELSE PassDone /\ Emit(Answer(pending, Received)) /\ UNCHANGED main
  /\ UNCHANGED <<fixed, commands, link, dev, mem, count>>

\* No response.  The FPGA runtime looks for a request of the CPU and answers
\* it: accept_request, process_cpu_request and complete_request in one go.
FpgaCpu ==
  /\ backend = "fpga" /\ bg.at = "response" /\ ~(pending # None /\ Available)
  /\ IF HasIncoming(handler)
     THEN /\ handler' = Complete(Accept(handler))
          /\ Emit(Event("access", None, NoResponse))
     ELSE UNCHANGED <<handler, events>>
  /\ PassDone
  /\ UNCHANGED <<fixed, client, pending, direct, link, dev, mem, count>>

SimNoResponse ==
  /\ backend = "sim" /\ bg.at = "response" /\ ~(pending # None /\ Available)
  /\ Proceed
  /\ UNCHANGED <<fixed, client, pending, events, handler, direct, link, dev, mem, count>>

(***************************************************************************)
(* Failures: an error of the port, before or after the transmit buffer is  *)
(* filled, ends the pass, and a reset under way with an error; one that is *)
(* fatal, like a hang the simulator reports, ends the thread.              *)
(***************************************************************************)
PortError(type) ==
  /\ backend = "fpga" /\ bg.at = "link" /\ MayFail
  /\ \/ UNCHANGED <<handler, tx>>
     \/ HasTx(handler) /\ handler' = AfterTx(handler) /\ tx' = tx \o Encoded(handler)
  /\ count' = [count EXCEPT !.faults = @ + 1, !.botched = @ \/ bg.resetting = "system"]
  /\ IF bg.resetting = "no"
     THEN /\ Emit(Event(type, None, NoResponse))
          /\ bg' = [bg EXCEPT !.at = IF type = "fatal" THEN "ended" ELSE "command"]
          /\ UNCHANGED main
     ELSE ReportReset(FALSE, commands) /\ ResetOver(FALSE) /\ UNCHANGED events
  /\ UNCHANGED <<fixed, commands, pending, direct, toDev, toHost, dev, mem>>

SimulationError ==
  /\ backend = "sim" /\ bg.at = "link" /\ MayFail /\ Fault
  /\ Emit(Event("fatal", None, NoResponse))
  /\ bg' = [bg EXCEPT !.at = "ended"]
  /\ UNCHANGED <<fixed, client, pending, handler, direct, link, dev, mem>>

\* After its one pass a system reset waits for the target, then clears every
\* trace of what went before.
Settle ==
  /\ bg.at = "settle" /\ toDev = << >> /\ dev.request = None
  /\ pending' = None /\ handler' = NewHandler
  /\ tx' = << >> /\ toHost' = << >>
  /\ mem' = Cleared(mem)
  /\ ReportReset(TRUE, commands) /\ ResetOver(TRUE)
  /\ UNCHANGED <<fixed, commands, events, direct, toDev, dev, count>>

Thread == \/ Command \/ NoCommand \/ FpgaTimeOut \/ SimTimeOut \/ NoTimeOut \/ RxPacket \/ TxPackets
          \/ SimLink \/ Response \/ FpgaCpu \/ SimNoResponse \/ Settle

Failure == PortError("error") \/ PortError("fatal") \/ SimulationError

(***************************************************************************)
(* The target: host_bus_interface serves one request of the host at a      *)
(* time, holds one request of the CPU, and takes its packets in order.  A  *)
(* response nobody waits for stops it.                                     *)
(***************************************************************************)
CpuIssue ==
  /\ ~dev.booting /\ ~dev.cpu_wait_resp /\ count.cpu < budget.cpu
  /\ dev' = [dev EXCEPT !.cpu_wait_resp = TRUE]
  /\ toHost' = Append(toHost, Packet("cpu_req", Request(count.cpu + 1, FALSE, RTL_END, 4, 1, 0), << >>))
  /\ count' = [count EXCEPT !.cpu = @ + 1]
  /\ UNCHANGED <<fixed, client, pending, events, bg, handler, direct, tx, toDev, mem>>

DevTake ==
  /\ toDev # << >>
  /\ LET pkt == Head(toDev)
     IN  \/ /\ pkt.type = "cpu_resp" /\ dev.cpu_wait_resp
            /\ dev' = [dev EXCEPT !.cpu_wait_resp = FALSE]
         \/ /\ pkt.type = "host_req" /\ dev.request = None
            /\ dev' = [dev EXCEPT !.request = pkt.req]
  /\ toDev' = Tail(toDev)
  /\ UNCHANGED <<fixed, client, pending, events, bg, handler, direct, tx, toHost, mem, count>>

\* The response to the request in hand.
Serve(data, d) ==
  /\ dev' = [d EXCEPT !.request = None]
  /\ toHost' = Append(toHost, Packet("host_resp", dev.request, data))

\* The write to RESET is answered once the CPU has halted, which an access in
\* progress holds up; a system reset may come before its answer.
DevServe ==
  LET r == dev.request
  IN  /\ r # None
      /\ \/ /\ r.addr = RESET /\ r.value = RESET_CPU /\ ~dev.cpu_wait_resp
            /\ Serve(<< >>, [dev EXCEPT !.booting = TRUE]) /\ UNCHANGED mem
         \/ /\ r.addr = RESET /\ r.value = RESET_SYSTEM
            /\ Serve(<< >>, Booting) \/ (dev' = Booting /\ UNCHANGED toHost)
            /\ UNCHANGED mem
         \/ /\ r.addr = BOOT
            /\ Serve(<< >>, [dev EXCEPT !.booting = FALSE]) /\ UNCHANGED mem
         \/ /\ r.addr = STATUS
            /\ Serve(<<IF dev.booting THEN 1 ELSE 0>>, dev) /\ UNCHANGED mem
         \/ /\ r.addr \in Memory
            /\ Serve(IF r.write THEN << >> ELSE ReadOut(mem, r), dev)
            /\ mem' = IF r.write THEN Written(mem, r) ELSE mem
      /\ UNCHANGED <<fixed, client, pending, events, bg, handler, direct, tx, toDev, count>>

(***************************************************************************)
(* The start of a runtime.  The simulator is new.  The board may have been *)
(* running: an earlier session of the host may have left an access of the  *)
(* CPU it has not answered, its packet lost or still under way, or the     *)
(* response to a request of its own.  The FPGA runtime may begin with a    *)
(* reset, by the code that carries out every other one.                    *)
(***************************************************************************)
Startups == {"none"} \cup Connecting

Left(waiting, sent) == [target |-> [cpu_wait_resp |-> waiting, request |-> None, booting |-> FALSE],
                        toHost |-> sent]
NothingLeft == {[target |-> Booting, toHost |-> << >>], Left(FALSE, << >>)}
Leftovers == NothingLeft \cup
  {Left(TRUE, << >>),
   Left(TRUE, <<Packet("cpu_req", Request(0, FALSE, RTL_END, 4, 1, 0), << >>)>>),
   Left(FALSE, <<Packet("host_resp", Request(0, FALSE, STATUS, 4, 1, 0), <<0>>)>>)}

\* connect and the beginning of run_loop.  Only a system reset makes good what
\* is left over; otherwise it counts as a fault.
Connect(startup, left) ==
  LET r == RequestAt(Script[startup][1], NoRegion, 0, 1, 0)
      none == startup = "none"
      fault == left \notin NothingLeft /\ startup # "connect_system"
  IN  /\ fault => budget.faults > 0
      /\ main = IF none THEN Idle ELSE [Idle EXCEPT !.at = "wait_reset", !.cmd = startup, !.req = r]
      /\ pending = IF startup = "connect_cpu" THEN r ELSE None
      /\ handler = IF none THEN NewHandler ELSE SendRequest(NewHandler, r)
      /\ bg = CASE none -> [at |-> "command", resetting |-> "no"]
                [] startup = "connect_cpu" -> [at |-> "timeout", resetting |-> "cpu"]
                [] startup = "connect_system" -> [at |-> "timeout", resetting |-> "system"]
      /\ dev = left.target /\ toHost = left.toHost
      /\ count = [ids |-> IF none THEN 0 ELSE 1, commands |-> IF none THEN 0 ELSE 1,
                  faults |-> IF fault THEN 1 ELSE 0, botched |-> FALSE, cpu |-> 0]

\* SimDeviceRuntime::new and the beginning of its run_loop.
Create == /\ main = Idle /\ pending = None /\ handler = NewHandler
          /\ bg = [at |-> "command", resetting |-> "no"]
          /\ dev = Booting /\ toHost = << >>
          /\ count = [ids |-> 0, commands |-> 0, faults |-> 0, botched |-> FALSE, cpu |-> 0]

Init == /\ backend \in BACKENDS /\ budget \in BUDGETS
        /\ IF backend = "sim" THEN Create
           ELSE \E startup \in Startups, left \in Leftovers : Connect(startup, left)
        /\ commands = << >> /\ events = << >>
        /\ direct = NoResponse
        /\ tx = << >> /\ toDev = << >>
        /\ mem = [a \in Memory |-> 0]

Next == Client \/ Thread \/ Failure \/ CpuIssue \/ DevTake \/ DevServe

(***************************************************************************)
(* Both threads and the target keep running, and the link moves a packet   *)
(* sooner or later however often it moves none.  The memory of the         *)
(* simulator answers after its latency.  Nothing has to fail, and the      *)
(* client need not ask for anything.                                       *)
(***************************************************************************)
Continue == Arm \/ Enqueue \/ AskReset \/ Poll \/ Disconnect \/ Join \/ Drain \/ GiveUpReset

\* A packet moves, or the simulator's memory answers.
LinkMoves == \/ RxPacket
             \/ TxPackets /\ toDev' # toDev
             \/ SimLink /\ <<handler, toHost, toDev>>' # <<handler, toHost, toDev>>

Fairness == /\ WF_vars(Continue \/ DevTake \/ DevServe)
            /\ WF_vars(Thread)
            /\ SF_vars(LinkMoves)

Spec == Init /\ [][Next]_vars
FairSpec == Spec /\ Fairness

(***************************************************************************)
(* Properties                                                              *)
(***************************************************************************)
Ids == 0 .. count.ids
IsRequest(r) == /\ r.id \in Ids /\ r.write \in BOOLEAN /\ r.size \in {0, 1, 2, 4}
                /\ r.beats \in 0 .. MAX_BURST_BEATS /\ Bytes(r) \subseteq -1 .. ADDR_END - 1

\* Every part of the runtime holds a value of its type, and the link never holds
\* more packets than the protocol allows to be under way, but for those that a
\* failure leaves behind.
TypeOK ==
  /\ main.at \in {"idle", "next", "enqueue", "poll", "wait_reset", "drain", "join", "gone"}
  /\ main.result \in {"none", "done", "refused", "failed"}
  /\ IsRequest(main.req) /\ IsRequest(pending) /\ IsRequest(dev.request)
  /\ IsRequest(handler.outgoing_request) /\ IsRequest(handler.outgoing_response.req)
  /\ bg.at \in {"command", "timeout", "link", "response", "settle", "ended"}
  /\ bg.resetting \in {"no", "cpu", "system"}
  /\ ~count.botched => Len(tx) + Len(toDev) + Len(toHost) <= 3 + count.faults
  /\ mem \in [Memory -> 0 .. budget.commands]

\* A response event carries the data of the request it is reported for: "Fetch
\* a decoded response for a previously transmitted host-initiated request."
\* (host_bus_handler.rs, receive_response.)
AnswersOwn == \A i \in DOMAIN events : events[i].type \in {"read", "write"} => events[i].from = events[i].id

\* As long as nothing fails, no response is taken for that of another request,
\* whatever the CPU asks and answers in between.
InTimeAnswersOwn == InTime => AnswersOwn

\* Requests are concluded once each and in order, and not before they are made.
OneOutcome ==
  /\ \A i, j \in DOMAIN events : i < j /\ events[j].id # 0 => events[i].id < events[j].id
  /\ pending # None => \A i \in DOMAIN events : events[i].id < pending.id

\* The handler never works for a request the runtime has forgotten: what is
\* outgoing is what is pending, or the reset being carried out.
OutgoingIsPending ==
  InTime => /\ handler.outgoing_request # None =>
                 \/ handler.outgoing_request = pending
                 \/ bg.resetting = "system" /\ handler.outgoing_request.value = RESET_SYSTEM
            /\ \A i \in DOMAIN events : events[i].type # "error"

\* A command that waits for its requests returns when none of them is pending;
\* what may be is a reset that the client has given up.
HelpersInStep ==
  main.at = "idle" /\ main.result = "done" /\ main.cmd \notin {"read", "write", "none"}
    => pending = None \/ (backend = "fpga" /\ pending.addr = RESET)

\* The two threads and the handler agree on the one request of the host under
\* way, and conclude it once (fpga.rs:255-436, sim.rs:180-265, lib.rs:440-760).
HandlerInv == TypeOK /\ OneOutcome /\ OutgoingIsPending /\ HelpersInStep

\* The target is never handed a response that its CPU does not wait for, which
\* would block every later packet, unless a system reset has failed with its
\* packet in the handler: that is sent when the CPU is at work again.
NeverUnsolicited ==
  toDev # << >> /\ Head(toDev).type = "cpu_resp" /\ ~count.botched => dev.cpu_wait_resp

\* A packet that arrives finds its buffer free: in the simulator always
\* ("Protocol violation: handler buffer full while FPGA is sending data",
\* sim_core.rs:258, stops the thread), on the FPGA as long as nothing fails
\* (the last byte would be offered again, host_bus_handler.rs:470).
AlwaysRoom ==
  bg.at = "link" /\ toHost # << >> /\ (backend = "sim" \/ InTime) => CanTake(handler, Head(toHost))

\* After a system reset nothing is left of what went before.
Fresh == dev = Booting /\ handler = NewHandler /\ direct = NoResponse /\ link = << << >>, << >>, << >> >>

\* What a command that succeeds has brought about.
Achieved ==
  LET written == \A a \in main.region.addr .. main.region.addr + main.region.len - 1 :
                   mem[a] = count.commands
  IN  CASE main.cmd \in {"loadelf", "loadmem", "memtest"} -> written
        [] main.cmd = "dumpmem" -> main.data = Contents(mem, main.region)
        [] main.cmd = "boot" -> ~dev.booting
        [] main.cmd \in {"reset", "connect_cpu"} -> dev.booting
        [] main.cmd \in {"hard_reset", "connect_system"} -> Fresh
        [] main.cmd = "reload" -> written /\ ~dev.booting
        [] OTHER -> TRUE

\* As long as nothing fails, and no old event is left over at its start, a
\* command either is refused or does what it says (lib.rs:398-760,
\* shell.rs:609-655: what is loaded is in memory, what is dumped is what
\* memory holds, a memory test passes, a booted core runs).
CommandsAchieve ==
  InTime /\ main.fresh /\ main.at = "idle" =>
    /\ main.result # "failed"
    /\ main.result = "done" => Achieved

\* Nothing is waited for: the CPU's access is answered, also while a host request
\* is outstanding (docs/plans/host-initiated-bus-requests.md, Rule 3), the
\* client's request is concluded without help of its timeout, and its command
\* has returned, which for the last one means that the thread has been joined.
Quiet == ~dev.cpu_wait_resp /\ pending = None /\ main.at \in {"idle", "gone"}

\* As long as nothing fails and the runtime is not dropped, whatever the
\* target, the client and the background thread wait for comes; a runtime that
\* is dropped ends, whatever it leaves behind (lib.rs:440-760, fpga.rs:933-940).
InTimeServed == <>[](~InTime \/ Quiet \/ main.at = "gone")
=============================================================================
