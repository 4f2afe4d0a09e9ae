----------------------------- MODULE HostBusMux -----------------------------
(***************************************************************************)
(* rtl/common/io/host_bus_mux.sv: holds one request of the CPU, sends it   *)
(* to the system bus or to the host by its top address bit, and holds the  *)
(* response until the CPU takes it.                                        *)
(*                                                                         *)
(* A request is a record whose field host is addr[31]; a response is the   *)
(* request it answers, so that one can say whose response it is.           *)
(***************************************************************************)

VARIABLE mux

Empty == [kind |-> "none"]

MuxReset == [req |-> Empty, host |-> FALSE, wait |-> FALSE, resp |-> Empty]

\* A free request register is all that is asked for.
MemAReady_ReqOnly == mux.req = Empty

MemAReady == mux.req = Empty /\ ~mux.wait /\ mux.resp = Empty

MemDValid == mux.resp # Empty

\* A response is taken from the path that the request went to.
DReady(host) == mux.wait /\ mux.resp = Empty /\ mux.host = host

(***************************************************************************)
(* One clock edge.  afire, dfire: the CPU-side handshakes, request: what   *)
(* the CPU asks; issued: the a handshake of the selected path; answer: the *)
(* response of the path being waited for, or Empty.                        *)
(***************************************************************************)
MuxNext(afire, request, issued, answer, dfire) ==
  [req  |-> IF afire THEN request ELSE IF issued THEN Empty ELSE mux.req,
   host |-> IF issued THEN mux.req.host ELSE mux.host,
   wait |-> (mux.wait \/ issued) /\ answer = Empty,
   resp |-> IF answer # Empty THEN answer ELSE IF dfire THEN Empty ELSE mux.resp]

\* The reset is rst_internal (top.sv:388); a CPU reset does not reach the mux.
MuxClock(rst, afire, request, issued, answer, dfire) ==
  mux' = IF rst THEN MuxReset ELSE MuxNext(afire, request, issued, answer, dfire)
=============================================================================
