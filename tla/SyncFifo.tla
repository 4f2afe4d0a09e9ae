------------------------------ MODULE SyncFifo ------------------------------
(***************************************************************************)
(* rtl/common/primitives/sync_fifo.sv with the sync_dpram inside it.       *)
(*                                                                         *)
(* The head word is kept in an output register.  The others are in a RAM   *)
(* whose read takes two edges, so that after the head is taken the next    *)
(* one is under way for two edges; a word written when nothing else is     *)
(* queued goes past the RAM.  The RAM reads at every edge, whether or not  *)
(* anybody asked.                                                          *)
(***************************************************************************)
EXTENDS Naturals, Sequences

CONSTANTS Data, DEPTH

ASSUME DepthAssumption == DEPTH \in Nat /\ \E k \in 1 .. DEPTH : DEPTH = 2 ^ k

VARIABLES mem,     \* the RAM
          ram,     \* its two read registers, rdata_pipe and rdata
          wr_ptr, rd_ptr, count,
          out,     \* out_valid and out_data
          load,    \* load_pending_stage1 and load_pending_stage2
          taken    \* the word last read

vars == <<mem, ram, wr_ptr, rd_ptr, count, out, load, taken>>

Addr == 0 .. DEPTH - 1

(***************************************************************************)
(* Handshakes of an edge.  wr and rd are wr_valid and rd_ready.            *)
(***************************************************************************)
RdFire(rd) == out.valid /\ rd

\* Wrong variant: a full queue takes one more word.
WrFire_AtFull(wr, rd) == wr /\ count <= DEPTH

WrFire(wr, rd) == wr /\ (count < DEPTH \/ RdFire(rd))

\* Wrong variant: past the RAM only when the queue was empty before.
DirectWrite_Empty(wr, rd) == WrFire(wr, rd) /\ count = 0

\* Nothing else is queued once the read of this edge is counted.
DirectWrite(wr, rd) == WrFire(wr, rd) /\ (IF RdFire(rd) THEN count = 1 ELSE count = 0)

RamWrite(wr, rd) == WrFire(wr, rd) /\ ~DirectWrite(wr, rd)

\* Wrong variant: the word that was just taken counts as one to load.
StartLoad_Any(rd) == RdFire(rd) /\ count >= 1

StartLoad(rd) == RdFire(rd) /\ count > 1

(***************************************************************************)
(* The registers after an edge                                             *)
(***************************************************************************)
Advance(ptr, by) == IF by THEN (ptr + 1) % DEPTH ELSE ptr

CountNext(wr, rd) == ((count + IF WrFire(wr, rd) THEN 1 ELSE 0) - IF RdFire(rd) THEN 1 ELSE 0)
                       % (2 * DEPTH)

OutNext(wr, d, rd) ==
  [valid |-> DirectWrite(wr, rd) \/ (~RdFire(rd) /\ (out.valid \/ load[2])),
   data  |-> IF DirectWrite(wr, rd) THEN d ELSE IF load[2] THEN ram.rdata ELSE out.data]

\* Wrong variant: the RAM is taken to answer after one edge.
LoadNext_OneEdge(wr, rd) == <<FALSE, StartLoad(rd) /\ ~DirectWrite(wr, rd)>>

LoadNext(wr, rd) ==
  IF RdFire(rd) \/ DirectWrite(wr, rd) THEN <<StartLoad(rd) /\ ~DirectWrite(wr, rd), FALSE>>
  ELSE <<FALSE, load[1]>>

Init == /\ mem \in [Addr -> Data] /\ ram \in [pipe : Data, rdata : Data]
        /\ wr_ptr = 0 /\ rd_ptr = 0 /\ count = 0
        /\ out \in [valid : {FALSE}, data : Data]
        /\ load = <<FALSE, FALSE>>
        /\ taken \in Data

RamNext(wr, d, rd) ==
  /\ mem' = IF RamWrite(wr, rd) THEN [mem EXCEPT ![wr_ptr] = d] ELSE mem
  /\ ram' = [pipe |-> mem[rd_ptr], rdata |-> ram.pipe]

Edge(wr, d, rd) ==
  /\ RamNext(wr, d, rd)
  /\ wr_ptr' = Advance(wr_ptr, RamWrite(wr, rd))
  /\ rd_ptr' = Advance(rd_ptr, StartLoad(rd))
  /\ count' = CountNext(wr, rd)
  /\ out' = OutNext(wr, d, rd)
  /\ load' = LoadNext(wr, rd)
  /\ taken' = IF RdFire(rd) THEN out.data ELSE taken

\* rst: the RAM and the data registers keep what they hold, and the RAM writes
\* if wr_valid is up.
Reset(wr, d, rd) ==
  /\ RamNext(wr, d, rd)
  /\ wr_ptr' = 0 /\ rd_ptr' = 0 /\ count' = 0
  /\ out' = [out EXCEPT !.valid = FALSE]
  /\ load' = <<FALSE, FALSE>>
  /\ UNCHANGED taken

Clock == \E wr, rd \in BOOLEAN, d \in Data : Edge(wr, d, rd)
ResetEdge == \E wr, rd \in BOOLEAN, d \in Data : Reset(wr, d, rd)

Next == Clock \/ ResetEdge

\* The clock runs.
Spec == Init /\ [][Next]_vars /\ WF_vars(Clock)

(***************************************************************************)
(* Properties                                                              *)
(***************************************************************************)

\* The registers keep their width, the occupancy stays within the capacity and
\* the head is never loaded twice at once.
TypeOK == /\ mem \in [Addr -> Data] /\ ram \in [pipe : Data, rdata : Data]
          /\ wr_ptr \in Addr /\ rd_ptr \in Addr /\ count \in 0 .. DEPTH
          /\ out \in [valid : BOOLEAN, data : Data]
          /\ load \in {<<FALSE, FALSE>>, <<TRUE, FALSE>>, <<FALSE, TRUE>>}
          /\ taken \in Data

\* Where the queued words are: the head in the output register or on its way
\* out of the RAM, the rest between the pointers.
Head1 == CASE out.valid -> <<out.data>>
           [] load[1]   -> <<ram.pipe>>
           [] load[2]   -> <<ram.rdata>>
           [] OTHER     -> << >>

InRam == (wr_ptr + DEPTH - rd_ptr) % DEPTH
queue == Head1 \o [i \in 1 .. InRam |-> mem[(rd_ptr + i - 1) % DEPTH]]

Chan == INSTANCE Channel WITH Capacity <- DEPTH

\* The queue is a first-in first-out channel of DEPTH words that only a reset
\* empties: no word is lost, repeated or overtaken between the output register,
\* the read registers and the RAM.
IsChannel ==
  Chan!Init /\ [][Chan!Next \/ (ResetEdge /\ queue' = << >>)]_<<queue, taken>>

\* count, which the audio peripheral reports to the program as free space, is
\* the number of words queued.
CountExact == count = Len(queue)

\* The pointers, the head and the reported occupancy agree (sync_fifo.sv:115-163).
FifoInv == TypeOK /\ CountExact

\* A queued word is offered in the end, also when nothing more is written.
Offered == count # 0 ~> (out.valid \/ count = 0)
=============================================================================
