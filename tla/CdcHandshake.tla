---------------------------- MODULE CdcHandshake ----------------------------
(***************************************************************************)
(* rtl/common/primitives/cdc_handshake.sv with the two ff_sync chains it   *)
(* instantiates: a toggle handshake that moves one word from the src_clk   *)
(* domain to the dst_clk domain.                                           *)
(*                                                                         *)
(* src and dst are the registers clocked by the two clocks.  SrcNext and   *)
(* DstNext are the two always_ff blocks; each reads the other domain only  *)
(* through the first register of its synchronizer and through the held     *)
(* payload.  Nothing is assumed of the clocks: an edge of either may come  *)
(* at any time and both may come together (the simulator ticks them so).   *)
(***************************************************************************)
EXTENDS Naturals, Sequences

CONSTANTS Data,          \* the payloads
          SYNC_STAGES    \* registers in each synchronizer

ASSUME StagesAssumption == SYNC_STAGES \in Nat /\ SYNC_STAGES >= 2

VARIABLES src,   \* src_clk registers
          dst,   \* dst_clk registers
          taken  \* what the consumer captured at its last dst_fire

vars == <<src, dst, taken>>

Stages == 1 .. SYNC_STAGES

(***************************************************************************)
(* ff_sync: a shift register that samples din at every edge.               *)
(***************************************************************************)
\* Wrong variant: a chain one register too long.
Shift_Long(sync, din) ==
  [i \in 1 .. SYNC_STAGES + 1 |-> IF i = 1 THEN din ELSE sync[i-1]]

Shift(sync, din) == [i \in Stages |-> IF i = 1 THEN din ELSE sync[i-1]]

SyncReset == [i \in Stages |-> FALSE]

SrcState == [req_toggle : BOOLEAN, pending : BOOLEAN, ready : BOOLEAN,
             data_hold : Data, ack_sync : [Stages -> BOOLEAN]]

DstState == [valid : BOOLEAN, data : Data, ack_toggle : BOOLEAN,
             req_prev : BOOLEAN, req_sync : [Stages -> BOOLEAN]]

(***************************************************************************)
(* The registers after reset; the payload register x is not reset and      *)
(* keeps whatever it held.                                                 *)
(***************************************************************************)
SrcReset(x) == [req_toggle |-> FALSE, pending |-> FALSE, ready |-> TRUE,
                data_hold |-> x, ack_sync |-> SyncReset]

DstReset(x) == [valid |-> FALSE, data |-> x, ack_toggle |-> FALSE,
                req_prev |-> FALSE, req_sync |-> SyncReset]

SrcFire(s, src_valid) == src_valid /\ s.ready
DstFire(d, dst_ready) == dst_ready /\ d.valid

\* Wrong variant: the source takes any pending request for acknowledged.
Acknowledged_NoCompare(s) == s.pending

Acknowledged(s) == s.pending /\ s.ack_sync[SYNC_STAGES] = s.req_toggle

(***************************************************************************)
(* One src_clk edge out of reset.  d is the other domain as sampled there. *)
(***************************************************************************)
SrcNext(s, d, src_valid, src_data) ==
  LET fire == SrcFire(s, src_valid)
  IN  [req_toggle |-> IF fire THEN ~s.req_toggle ELSE s.req_toggle,
       pending    |-> fire \/ (s.pending /\ ~Acknowledged(s)),
       ready      |-> ~fire /\ (s.ready \/ Acknowledged(s)),
       data_hold  |-> IF fire THEN src_data ELSE s.data_hold,
       ack_sync   |-> Shift(s.ack_sync, d.ack_toggle)]

\* Wrong variant: only the rising edge of the toggle is taken for a request.
ReqSeen_Rising(d) == d.req_sync[SYNC_STAGES] /\ ~d.req_prev

ReqSeen(d) == d.req_sync[SYNC_STAGES] # d.req_prev

\* Wrong variant: the word is acknowledged when it is captured, not when consumed.
DstNext_EarlyAck(d, s, dst_ready) ==
  [valid      |-> ReqSeen(d) \/ (d.valid /\ ~DstFire(d, dst_ready)),
   data       |-> IF ReqSeen(d) THEN s.data_hold ELSE d.data,
   ack_toggle |-> d.req_prev,
   req_prev   |-> d.req_sync[SYNC_STAGES],
   req_sync   |-> Shift(d.req_sync, s.req_toggle)]

(***************************************************************************)
(* One dst_clk edge out of reset.                                          *)
(***************************************************************************)
DstNext(d, s, dst_ready) ==
  LET fire == DstFire(d, dst_ready)
  IN  [valid      |-> ReqSeen(d) \/ (d.valid /\ ~fire),
       data       |-> IF ReqSeen(d) THEN s.data_hold ELSE d.data,
       ack_toggle |-> IF fire THEN ~d.ack_toggle ELSE d.ack_toggle,
       req_prev   |-> d.req_sync[SYNC_STAGES],
       req_sync   |-> Shift(d.req_sync, s.req_toggle)]

Init == /\ \E x \in Data : src = SrcReset(x)
        /\ \E x \in Data : dst = DstReset(x)
        /\ taken \in Data

SrcEdge(src_valid, src_data) == src' = SrcNext(src, dst, src_valid, src_data)

DstEdge(dst_ready) ==
  /\ dst' = DstNext(dst, src, dst_ready)
  /\ taken' = IF DstFire(dst, dst_ready) THEN dst.data ELSE taken

(***************************************************************************)
(* An edge of one clock alone, or of both at once.                         *)
(***************************************************************************)
SrcStep(v, x) == SrcEdge(v, x) /\ UNCHANGED <<dst, taken>>
DstStep(r) == DstEdge(r) /\ UNCHANGED src
BothStep(v, x, r) == SrcEdge(v, x) /\ DstEdge(r)

Next == \E v \in BOOLEAN, x \in Data, r \in BOOLEAN :
          SrcStep(v, x) \/ DstStep(r) \/ BothStep(v, x, r)

(***************************************************************************)
(* Both clocks keep running, and a consumer that is offered a word takes   *)
(* it in the end.  The producer owes nothing.                              *)
(***************************************************************************)
Fairness == /\ WF_vars(\E x \in Data : SrcStep(FALSE, x))
            /\ WF_vars(DstStep(FALSE))
            /\ WF_vars(dst.valid /\ DstStep(TRUE))

Spec == Init /\ [][Next]_vars
FairSpec == Spec /\ Fairness

(***************************************************************************)
(* Properties                                                              *)
(***************************************************************************)

\* Every register of cdc_handshake holds a value of its width.
TypeOK == src \in SrcState /\ dst \in DstState /\ taken \in Data

(***************************************************************************)
(* The word in flight: accepted at src_fire and not yet consumed.          *)
(***************************************************************************)
InFlight == IF src.req_toggle # dst.ack_toggle THEN <<src.data_hold>> ELSE << >>

Chan == INSTANCE Channel WITH queue <- InFlight, Capacity <- 1

\* cdc_handshake is a one-place channel: every word accepted at src_fire is
\* consumed at exactly one dst_fire, unaltered, whatever the two clocks do.
IsChannel == Chan!Spec

\* The comment at cdc_handshake.sv:118: when dst_clk samples src_data_hold the
\* payload has been stable since SYNC_STAGES dst_clk edges ago (the whole chain
\* has seen the toggle that announced it) and the source cannot replace it.
StableAtCapture ==
  ReqSeen(dst) => /\ ~src.ready
                  /\ \A i \in Stages : dst.req_sync[i] = src.req_toggle

(***************************************************************************)
(* The bits of the handshake form one chain from req_toggle through        *)
(* req_sync, req_prev, ack_toggle and ack_sync back to the source, and at  *)
(* most one new value travels along it: a bit that differs from req_toggle *)
(* is followed only by bits that differ from it.                           *)
(***************************************************************************)
ChainOrdered ==
  LET R == src.req_toggle
  IN  /\ \A i \in Stages : dst.req_sync[i] # R =>
            (\A j \in Stages : i <= j => dst.req_sync[j] # R) /\ dst.req_prev # R
      /\ dst.req_prev # R => dst.ack_toggle # R
      /\ dst.ack_toggle # R => \A j \in Stages : src.ack_sync[j] # R
      /\ \A i, j \in Stages : src.ack_sync[i] # R /\ i <= j => src.ack_sync[j] # R

\* The inductive invariant behind the channel: the chain is ordered, the source
\* is ready only when the chain has settled, and dst_valid says precisely that a
\* captured word has not been acknowledged, and then dst_data is that word.
HandshakeInv ==
  /\ ChainOrdered
  /\ src.ready = ~src.pending
  /\ src.ready => src.ack_sync[SYNC_STAGES] = src.req_toggle
  /\ dst.valid = (dst.req_prev # dst.ack_toggle)
  /\ dst.valid => dst.data = src.data_hold

\* What every edge of either clock keeps (cdc_handshake.sv:88-132).
Inv == TypeOK /\ HandshakeInv

\* A word the source handed over reaches the consumer.
Delivered == \A x \in Data : (InFlight = <<x>>) ~> (taken = x)
=============================================================================
