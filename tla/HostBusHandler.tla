--------------------------- MODULE HostBusHandler ---------------------------
(***************************************************************************)
(* bus-shared/src/host_bus_handler.rs: the host's end of the packet link,  *)
(* as operators on the record that holds its buffers.  Packets are the     *)
(* unit; their bytes are not modelled.                                     *)
(***************************************************************************)
EXTENDS Integers, Sequences

CONSTANTS RTL_END,          \* addresses below it are on the target, the others in the host's bus
          ADDR_END,         \* the first address that does not exist
          MAX_BURST_BEATS

ASSUME RegionAssumption ==
  ADDR_END \in Nat /\ RTL_END \in 1 .. ADDR_END /\ MAX_BURST_BEATS \in Nat \ {0}

\* A request: its number (for the properties), the fields that its response
\* repeats, and what it writes.  The fixed flags are always off here.
Request(id, write, addr, size, beats, value) ==
  [id |-> id, write |-> write, addr |-> addr, size |-> size, beats |-> beats, value |-> value]

None == Request(0, FALSE, 0, 0, 0, 0)
NoResponse == [req |-> None, data |-> << >>]

(***************************************************************************)
(* Where a request goes: request_end_addr, classify_request_region and     *)
(* the runtimes' classify_host_request_route.                              *)
(***************************************************************************)
EndAddr(r) == r.addr + (r.size * r.beats) - 1
Bytes(r) == r.addr .. EndAddr(r)

Route(r) == IF EndAddr(r) < RTL_END THEN "rtl"
            ELSE IF r.addr >= RTL_END /\ EndAddr(r) < ADDR_END THEN "local"
            ELSE "invalid"

\* The metadata that finalize_rx_packet compares.
SameMeta(r, s) == /\ r.write = s.write /\ r.size = s.size
                  /\ r.addr = s.addr /\ r.beats = s.beats

(***************************************************************************)
(* Packets                                                                 *)
(***************************************************************************)
Packet(type, req, data) == [type |-> type, req |-> req, data |-> data]
IsResponse(pkt) == pkt.type = "host_resp"

(***************************************************************************)
(* The buffers                                                             *)
(***************************************************************************)
NewHandler == [outgoing_request |-> None, tx_started |-> FALSE, outgoing_response |-> NoResponse,
               incoming_request |-> None, accepted_request |-> None, pending_response |-> FALSE]

\* What send_request refuses: a second request, one of an impossible length,
\* one that does not lie on the target.
Sendable(h, r) == /\ h.outgoing_request = None
                  /\ r.beats \in 1 .. MAX_BURST_BEATS
                  /\ Route(r) = "rtl"

SendRequest(h, r) == [h EXCEPT !.outgoing_request = r]

\* finalize_rx_packet finds the buffer of the packet's kind free.
CanTake(h, pkt) == IF IsResponse(pkt) THEN h.outgoing_response = NoResponse
                   ELSE h.incoming_request = None

\* A response that does not look like the outgoing request is dropped; with no
\* request outgoing every response is kept.
FinalizeRx(h, pkt) ==
  IF ~IsResponse(pkt) THEN [h EXCEPT !.incoming_request = pkt.req]
  ELSE IF h.outgoing_request # None /\ ~SameMeta(h.outgoing_request, pkt.req) THEN h
       ELSE [h EXCEPT !.outgoing_response = [req |-> pkt.req, data |-> pkt.data]]

\* receive_response has something to return.
HasResponse(h) == /\ h.outgoing_response # NoResponse
                  /\ h.outgoing_request # None \/ h.accepted_request # None

\* Wrong variant: the request stays outgoing.
ReceiveResponse_Keep(h) == [h EXCEPT !.outgoing_response = NoResponse]

\* Wrong variant: the response stays in the buffer.
ReceiveResponse_Copy(h) == [h EXCEPT !.outgoing_request = None, !.tx_started = FALSE]

\* Wrong variant: the next request looks sent already.
ReceiveResponse_Started(h) == [h EXCEPT !.outgoing_request = None, !.outgoing_response = NoResponse]

ReceiveResponse(h) == [h EXCEPT !.outgoing_request = None, !.tx_started = FALSE,
                                !.outgoing_response = NoResponse]

\* Wrong variant: a request is not accepted while a host request is outgoing.
HasIncoming_Blocked(h) == /\ h.incoming_request # None /\ h.accepted_request = None
                          /\ h.outgoing_request = None

HasIncoming(h) == h.incoming_request # None /\ h.accepted_request = None

Accept(h) == [h EXCEPT !.accepted_request = h.incoming_request, !.incoming_request = None]

\* complete_request, for a response made from the accepted request.
Completable(h) == h.accepted_request # None /\ ~h.pending_response
Complete(h) == [h EXCEPT !.pending_response = TRUE]

\* start_tx_packet: the answer to the CPU first, then the host's request.
HasTx(h) == \/ h.accepted_request # None /\ h.pending_response
            \/ h.outgoing_request # None /\ ~h.tx_started

\* Wrong variant: the answered request stays accepted.
StartTx_Again(h) ==
  IF h.accepted_request # None /\ h.pending_response
  THEN <<h, Packet("cpu_resp", h.accepted_request, << >>)>>
  ELSE <<[h EXCEPT !.tx_started = TRUE], Packet("host_req", h.outgoing_request, << >>)>>

StartTx(h) ==
  IF h.accepted_request # None /\ h.pending_response
  THEN <<[h EXCEPT !.accepted_request = None, !.pending_response = FALSE],
         Packet("cpu_resp", h.accepted_request, << >>)>>
  ELSE <<[h EXCEPT !.tx_started = TRUE], Packet("host_req", h.outgoing_request, << >>)>>
=============================================================================
