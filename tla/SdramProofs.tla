----------------------------- MODULE SdramProofs -----------------------------
(***************************************************************************)
(* The peripheral and the controller of the SDRAM keep in step whenever    *)
(* refreshes fall, and without refreshes the memory is exactly what the    *)
(* accesses say: for every number of words, every delay of the chip and    *)
(* every value of a byte.                                                  *)
(***************************************************************************)
EXTENDS Sdram, Integers, TLAPS

WaitBusy == {"read_wait_busy", "write_wait_busy"}
WaitDone == {"read_wait_done", "write_wait_done"}
Serving == {"activate", "activate_wait", "read_0", "read_1", "read_wait", "read_recovery",
            "write_0", "write_1", "write_recovery"}
Strobe == p.word_rd \/ p.word_wr

(***************************************************************************)
(* Where a command is: a strobe on its way, a request that waits in the    *)
(* controller, or a request that it works on.  A refresh may come before a *)
(* request that waits, but no second one, and only then may the peripheral *)
(* take the end of a refresh for the end of its command.                   *)
(***************************************************************************)
HandedOver ==
  /\ c.word_busy <=> c.state # "idle"
  /\ p.word_rd => p.state = "read_wait_busy"
  /\ p.word_wr => p.state = "write_wait_busy"
  /\ p.state \in WaitBusy =>
       \/ Strobe /\ ~c.req_pending /\ c.state \in {"idle", "refresh"}
       \/ ~Strobe /\ c.req_pending /\ c.state \in {"idle", "refresh"}
       \/ ~Strobe /\ ~c.req_pending /\ c.state = "activate"
  /\ c.req_pending => \/ p.state \in WaitBusy
                      \/ p.state \in WaitDone /\ c.state = "refresh_wait"
                      \/ p.state \in WaitDone /\ c.state = "idle" /\ ~c.refresh_pending

(***************************************************************************)
(* How far the capture pipeline is: the upper half of the word comes first *)
(* and the lower one right behind it.                                      *)
(***************************************************************************)
Stage == 1 .. STAGES
PipeWith(low, high) ==
  [i \in Stage |-> IF i = low THEN "low" ELSE IF i = high THEN "high" ELSE "none"]

(***************************************************************************)
(* A refresh is due at most once between two: from the moment it falls due *)
(* the longest access and the refresh itself take less than an interval.   *)
(***************************************************************************)
\* Edges until an access that is under way is over, with the low half of a word
\* at stage low of the capture pipeline.
Left(low) ==
  CASE c.state = "activate" -> 2 * WAIT + STAGES + 3
    [] c.state = "activate_wait" -> c.wait + WAIT + STAGES + 3
    [] c.state = "read_0" -> WAIT + STAGES + 2
    [] c.state = "read_1" -> WAIT + STAGES + 1
    [] c.state = "read_wait" -> WAIT + STAGES + 1 - low
    [] c.state = "write_0" -> WAIT + 2
    [] c.state = "write_1" -> WAIT + 1
    [] c.state \in {"read_recovery", "write_recovery"} -> c.wait + 1
    [] OTHER -> 0

InTime(low) ==
  /\ c.refresh_pending /\ c.state \in Serving \cup {"idle"} =>
       c.refresh_counter + Left(low) <= REFRESH_INTERVAL - WAIT - 3
  /\ c.state = "refresh" => c.refresh_counter <= REFRESH_INTERVAL - WAIT - 2
  /\ c.state = "refresh_wait" => ~c.refresh_pending /\ c.refresh_counter + c.wait <= REFRESH_INTERVAL - 2

Timing ==
  /\ REFRESH_INTERVAL = 0 => /\ c.refresh_counter = 0 /\ ~c.refresh_pending
                             /\ c.state \notin {"refresh", "refresh_wait"}
  /\ REFRESH_INTERVAL # 0 => c.refresh_counter < REFRESH_INTERVAL
  /\ \E low \in Stage :
       /\ c.state = "read_wait" => c.pipe = PipeWith(low, low + 1)
       /\ REFRESH_INTERVAL # 0 => InTime(low)
  /\ c.state = "read_1" => c.pipe = PipeWith(0, 1)
  /\ c.state \notin {"read_1", "read_wait"} => c.pipe = PipeWith(0, 0)

Control == TypeOK /\ HandedOver /\ Timing /\ WorksOnLast

(***************************************************************************)
(* Without refreshes the end of a command is the end of that command, and  *)
(* each word that is read or written is the one the access has come to.    *)
(***************************************************************************)
Reading == {"read_cmd", "read_wait_busy", "read_wait_done"}
Writing == {"write_cmd", "write_wait_busy", "write_wait_done"}

InStep ==
  /\ p.state \notin WaitBusy \cup WaitDone => c.state \in {"init", "idle"}
  /\ p.state \in WaitDone => c.state \in Serving \cup {"idle"} /\ ~c.req_pending
  /\ p.state \in WaitBusy \cup WaitDone => p.word_addr = ActiveWord
  /\ p.state \in {"write_wait_busy", "write_wait_done"} => p.word_data = Half(p.write, p.second)
  /\ c.req_pending \/ c.state \in {"activate", "activate_wait"} =>
       (c.req_is_write <=> p.state \in {"write_wait_busy", "write_wait_done"})
  /\ c.state \in {"read_0", "read_1", "read_wait", "read_recovery"} => p.state = "read_wait_done"
  /\ c.state \in {"write_0", "write_1", "write_recovery"} => p.state = "write_wait_done" /\ c.req_is_write

WordMoves ==
  /\ c.state = "read_wait" /\ c.pipe[STAGES] = "low" =>
       \A l \in HighHalf : c.read_high[l] = chip[p.word_addr][l]
  /\ p.state = "read_wait_done" /\ c.state \in {"read_recovery", "idle"} => c.word_q = chip[p.word_addr]
  /\ c.state = "write_1" => \A l \in HighHalf : chip[p.word_addr][l] = p.word_data[l]
  /\ p.state = "write_wait_done" /\ c.state \in {"write_recovery", "idle"} => chip[p.word_addr] = p.word_data

(***************************************************************************)
(* How far an access is, and what the memory holds meanwhile               *)
(***************************************************************************)
Base == p.req.addr \div LANES

\* What software finds in a word, and what the access will leave there.
Gold(a) == [l \in Lane |-> golden[a * LANES + l]]
Target(a) == [l \in Lane |-> IF a = Base /\ l \in Touched(p.req) THEN p.req.wdata[l - Offset(p.req)]
                             ELSE IF a = Base + 1 /\ LANES + l \in Touched(p.req)
                                  THEN p.req.wdata[(LANES + l) - Offset(p.req)]
                                  ELSE chip[a][l]]

Access ==
  /\ p.response_pending <=> p.state = "respond"
  /\ p.state \notin {"idle", "respond"} => InRange(p.req)
  /\ p.state \in Reading /\ p.second => Split(p.req)
  /\ p.state = "read_process" => (p.second <=> Split(p.req))
  /\ p.state \in Writing => p.req.we /\ (p.more <=> Split(p.req)) /\ (p.second => Split(p.req))

ReadSoFar ==
  /\ p.state = "read_process" \/ (p.state \in Reading /\ p.second) =>
       \A l \in Lane : p.read[l] = chip[Base][l]
  /\ p.state = "read_process" /\ Split(p.req) => \A l \in Lane : p.read[LANES + l] = chip[Base + 1][l]

Holds ==
  /\ p.state \in {"idle", "respond"} \/ ~p.req.we => \A a \in WordAddr : chip[a] = Gold(a)
  /\ p.state \in Reading \cup {"read_process"} /\ p.req.we => \A a \in WordAddr : Gold(a) = Target(a)
  /\ p.state \in Writing =>
       /\ \A a \in WordAddr : a # Base /\ ~(Split(p.req) /\ a = Base + 1) => chip[a] = Gold(a)
       /\ Half(p.write, FALSE) = Gold(Base)
       /\ Split(p.req) => Half(p.write, TRUE) = Gold(Base + 1)
       /\ p.second => chip[Base] = Gold(Base)

Data == InStep /\ WordMoves /\ Access /\ ReadSoFar /\ Holds /\ ReadsLatest

IInv == Control /\ (REFRESH_INTERVAL = 0 => Data)

(***************************************************************************)
(* Steps                                                                   *)
(***************************************************************************)
Controllers ==
  [state : CState, wait : 0 .. WAIT - 1, refresh_counter : 0 .. REFRESH_INTERVAL,
   refresh_pending : BOOLEAN, req_pending : BOOLEAN, req_is_write : BOOLEAN,
   req_addr : WordAddr, req_data : Word, pipe : [Stage -> {"none", "high", "low"}],
   read_high : Word, word_q : Word, word_busy : BOOLEAN]

\* The registers that a record of the controller holds (sdram_controller.sv:145-162).
LEMMA ControllerFields ==
  ASSUME NEW x \in Controllers
  PROVE  /\ x.state \in CState /\ x.wait \in 0 .. WAIT - 1 /\ x.refresh_counter \in 0 .. REFRESH_INTERVAL
         /\ x.refresh_pending \in BOOLEAN /\ x.req_pending \in BOOLEAN /\ x.req_is_write \in BOOLEAN
         /\ x.req_addr \in WordAddr /\ x.req_data \in Word /\ x.pipe \in [Stage -> {"none", "high", "low"}]
         /\ x.read_high \in Word /\ x.word_q \in Word /\ x.word_busy \in BOOLEAN
BY DEF Controllers

IsRecord(x) ==
  x = [state |-> x.state, wait |-> x.wait, refresh_counter |-> x.refresh_counter,
       refresh_pending |-> x.refresh_pending, req_pending |-> x.req_pending,
       req_is_write |-> x.req_is_write, req_addr |-> x.req_addr, req_data |-> x.req_data,
       pipe |-> x.pipe, read_high |-> x.read_high, word_q |-> x.word_q, word_busy |-> x.word_busy]

FieldsTyped(x) ==
  /\ x.state \in CState /\ x.wait \in 0 .. WAIT - 1 /\ x.refresh_counter \in 0 .. REFRESH_INTERVAL
  /\ x.refresh_pending \in BOOLEAN /\ x.req_pending \in BOOLEAN /\ x.req_is_write \in BOOLEAN
  /\ x.req_addr \in WordAddr /\ x.req_data \in Word /\ x.pipe \in [Stage -> {"none", "high", "low"}]
  /\ x.read_high \in Word /\ x.word_q \in Word /\ x.word_busy \in BOOLEAN

\* And what makes a record of the controller.
LEMMA ControllerRecord ==
  ASSUME NEW x, IsRecord(x), FieldsTyped(x)
  PROVE  x \in Controllers
<1>1. [state |-> x.state, wait |-> x.wait, refresh_counter |-> x.refresh_counter,
       refresh_pending |-> x.refresh_pending, req_pending |-> x.req_pending,
       req_is_write |-> x.req_is_write, req_addr |-> x.req_addr, req_data |-> x.req_data,
       pipe |-> x.pipe, read_high |-> x.read_high, word_q |-> x.word_q, word_busy |-> x.word_busy]
      \in Controllers
  BY Zenon DEF FieldsTyped, Controllers
<1> QED BY <1>1 DEF IsRecord

Shifted == [i \in Stage |-> IF i = 1 THEN "none" ELSE c.pipe[i - 1]]

\* What every edge does to the controller before the state is looked at, field by
\* field (sdram_controller.sv:222-247).
Ticked(b) ==
  /\ b.state = c.state /\ b.wait = c.wait /\ b.read_high = c.read_high /\ b.word_q = c.word_q
  /\ b.word_busy = c.word_busy
  /\ b.refresh_counter = IF RefreshDue \/ REFRESH_INTERVAL = 0 THEN 0 ELSE c.refresh_counter + 1
  /\ b.refresh_pending <=> c.refresh_pending \/ RefreshDue
  /\ b.req_pending <=> c.req_pending \/ Latch
  /\ b.req_is_write <=> IF Latch THEN p.word_wr ELSE c.req_is_write
  /\ b.req_addr = IF Latch THEN p.word_addr ELSE c.req_addr
  /\ b.req_data = IF Latch THEN p.word_data ELSE c.req_data
  /\ b.pipe = Shifted

\* What the proofs use of the types, spelled out.
Counts == REFRESH_INTERVAL # 0 => c.refresh_counter < REFRESH_INTERVAL

\* The background work keeps the registers in their types.
LEMMA BackgroundStep ==
  ASSUME SdramAssumption, TypeOK, Counts
  PROVE  Background \in Controllers /\ Ticked(Background)
<1>1. c \in Controllers /\ STAGES \in Nat /\ STAGES >= 2
  BY DEF TypeOK, Controllers, Stage, SdramAssumption
<1>2. /\ p.word_rd \in BOOLEAN /\ p.word_wr \in BOOLEAN /\ p.word_addr \in WordAddr /\ p.word_data \in Word
  BY DEF TypeOK
<1>3. PICK due \in BOOLEAN : due <=> RefreshDue
  OBVIOUS
<1>4. PICK latch \in BOOLEAN : latch <=> Latch
  OBVIOUS
<1>5. PICK n : n = IF due \/ REFRESH_INTERVAL = 0 THEN 0 ELSE c.refresh_counter + 1
  OBVIOUS
<1>6. n \in 0 .. REFRESH_INTERVAL
  BY <1>1, <1>3, <1>5, ControllerFields DEF RefreshDue, Counts, SdramAssumption
<1>7. PICK pend \in BOOLEAN : pend <=> c.refresh_pending \/ due
  OBVIOUS
<1>8. PICK req \in BOOLEAN : req <=> c.req_pending \/ latch
  OBVIOUS
<1>9. PICK we : we = IF latch THEN p.word_wr ELSE c.req_is_write
  OBVIOUS
<1>10. PICK a : a = IF latch THEN p.word_addr ELSE c.req_addr
  OBVIOUS
<1>11. PICK d : d = IF latch THEN p.word_data ELSE c.req_data
  OBVIOUS
<1>12. we \in BOOLEAN /\ a \in WordAddr /\ d \in Word
  BY <1>1, <1>2, <1>9, <1>10, <1>11, ControllerFields
<1>13. Shifted \in [Stage -> {"none", "high", "low"}]
  BY <1>1, ControllerFields DEF Shifted, Stage
<1>14. Background = [state |-> c.state, wait |-> c.wait, refresh_counter |-> n, refresh_pending |-> pend,
                     req_pending |-> req, req_is_write |-> we, req_addr |-> a, req_data |-> d,
                     pipe |-> Shifted, read_high |-> c.read_high, word_q |-> c.word_q,
                     word_busy |-> c.word_busy]
  <2>1. DOMAIN c.pipe = Stage
    BY <1>1, ControllerFields
  <2>2. (c.refresh_pending \/ RefreshDue) = pend /\ (c.req_pending \/ Latch) = req
    BY <1>1, <1>3, <1>4, <1>7, <1>8, ControllerFields
  <2>3. Background = [c EXCEPT !.refresh_counter = n, !.refresh_pending = pend, !.req_pending = req,
                               !.req_is_write = we, !.req_addr = a, !.req_data = d, !.pipe = Shifted]
    BY <1>3, <1>4, <1>5, <1>9, <1>10, <1>11, <2>1, <2>2 DEF Background, Shifted
  <2> QED BY <1>1, <2>3 DEF Controllers
<1>15. Background \in Controllers
  <2>1. [state |-> c.state, wait |-> c.wait, refresh_counter |-> n, refresh_pending |-> pend,
         req_pending |-> req, req_is_write |-> we, req_addr |-> a, req_data |-> d,
         pipe |-> Shifted, read_high |-> c.read_high, word_q |-> c.word_q,
         word_busy |-> c.word_busy] \in Controllers
    <3>1. /\ c.state \in CState /\ c.wait \in 0 .. WAIT - 1 /\ c.read_high \in Word /\ c.word_q \in Word
          /\ c.word_busy \in BOOLEAN
      BY <1>1, ControllerFields
    <3> QED BY <3>1, <1>6, <1>12, <1>13, Zenon DEF Controllers
  <2> QED BY <2>1, <1>14
<1> QED BY <1>3, <1>4, <1>5, <1>7, <1>8, <1>9, <1>10, <1>11, <1>14, <1>15 DEF Ticked

\* A timed state, which goes to state after.
Runs(after) == IF c.wait = 0 THEN c'.state = after
               ELSE c'.state = c.state /\ c'.wait = c.wait - 1

\* Where an edge takes the controller, and what it does to the timer.
Goes ==
  /\ c.state \in {"init", "refresh_wait", "read_recovery", "write_recovery"} => Runs("idle")
  /\ c.state = "idle" => c'.state = IF c.refresh_pending THEN "refresh"
                                    ELSE IF c.req_pending THEN "activate" ELSE "idle"
  /\ c.state = "refresh" => c'.state = "refresh_wait" /\ c'.wait = WAIT - 1
  /\ c.state = "activate" => c'.state = "activate_wait" /\ c'.wait = WAIT - 1
  /\ c.state = "activate_wait" => Runs(IF c.req_is_write THEN "write_0" ELSE "read_0")
  /\ c.state = "read_0" => c'.state = "read_1"
  /\ c.state = "read_1" => c'.state = "read_wait"
  /\ c.state = "read_wait" => IF c.pipe[STAGES] = "low" THEN c'.state = "read_recovery" /\ c'.wait = WAIT - 1
                              ELSE c'.state = "read_wait"
  /\ c.state = "write_0" => c'.state = "write_1"
  /\ c.state = "write_1" => c'.state = "write_recovery" /\ c'.wait = WAIT - 1

\* What an edge does to the other registers of the controller.
Ticks ==
  /\ c'.refresh_counter = IF RefreshDue \/ REFRESH_INTERVAL = 0 THEN 0 ELSE c.refresh_counter + 1
  /\ c'.refresh_pending <=> /\ c.refresh_pending \/ RefreshDue
                            /\ c.state # "refresh" /\ ~(c.state = "init" /\ c.wait = 0)
  /\ c'.req_pending <=> /\ c.req_pending \/ Latch
                        /\ ~(c.state = "idle" /\ ~c.refresh_pending /\ c.req_pending)
  /\ c'.req_is_write <=> IF Latch THEN p.word_wr ELSE c.req_is_write
  /\ c'.req_addr = IF Latch THEN p.word_addr ELSE c.req_addr
  /\ c'.req_data = IF Latch THEN p.word_data ELSE c.req_data
  /\ c'.pipe = IF c.state = "read_0" THEN [Shifted EXCEPT ![1] = "high"]
               ELSE IF c.state = "read_1" THEN [Shifted EXCEPT ![1] = "low"] ELSE Shifted
  /\ c'.word_busy <=> c'.state # "idle"
  /\ c'.read_high = IF c.state = "read_wait" /\ c.pipe[STAGES] = "high"
                    THEN Replace(c.read_high, HighHalf, chip[c.req_addr]) ELSE c.read_high
  /\ c'.word_q = IF c.state = "read_wait" /\ c.pipe[STAGES] = "low"
                 THEN Replace(c.read_high, LowHalf, chip[c.req_addr]) ELSE c.word_q

\* One edge of the controller.
LEMMA ControllerStep ==
  ASSUME SdramAssumption, TypeOK, Counts, c.word_busy <=> c.state # "idle", c' = CNext
  PROVE  c' \in Controllers /\ Goes /\ Ticks
<1> DEFINE b == Background
<1>1. /\ b \in Controllers /\ Ticked(b)
  BY BackgroundStep
<1>2. c \in Controllers /\ c.state \in CState /\ c.word_busy \in BOOLEAN /\ c.refresh_pending \in BOOLEAN
      /\ c.req_pending \in BOOLEAN /\ c.wait \in 0 .. WAIT - 1 /\ WAIT - 1 \in 0 .. WAIT - 1
      /\ STAGES \in Stage /\ 1 \in Stage
  BY ControllerFields DEF TypeOK, Controllers, Stage, SdramAssumption
<1>3. c.pipe \in [Stage -> {"none", "high", "low"}] /\ b.pipe \in [Stage -> {"none", "high", "low"}]
  BY <1>1, <1>2, ControllerFields
<1>4. /\ Replace(c.read_high, HighHalf, chip[c.req_addr]) \in Word
      /\ Replace(c.read_high, LowHalf, chip[c.req_addr]) \in Word
  <2>1. c.read_high \in Word /\ c.req_addr \in WordAddr /\ chip[c.req_addr] \in Word
    BY <1>2, ControllerFields DEF TypeOK
  <2> QED BY <2>1 DEF Word, Replace
<1> HIDE DEF b
<1>5. CASE c.state = "init"
  <2>1. c' = IF c.wait = 0 THEN [b EXCEPT !.state = "idle", !.word_busy = FALSE, !.refresh_pending = FALSE]
             ELSE [b EXCEPT !.wait = c.wait - 1, !.word_busy = TRUE]
    BY <1>1, <1>5 DEF CNext, StartUp, Timed, Idle, b, Controllers
  <2>2. c.wait # 0 => c.wait - 1 \in 0 .. WAIT - 1
    BY <1>2 DEF SdramAssumption
  <2>3. c' \in Controllers
    <3>1. CASE c.wait = 0
      <4>1. IsRecord(c')
        BY <1>1, <1>2, <1>5, <2>1, <2>2, <3>1 DEF Controllers, IsRecord
      <4>2. FieldsTyped(c')
        BY <1>1, <1>2, <1>5, <2>1, <2>2, <3>1, ControllerFields DEF Controllers, CState, FieldsTyped
      <4> QED BY <4>1, <4>2, ControllerRecord
    <3>2. CASE c.wait # 0
      <4>1. IsRecord(c')
        BY <1>1, <1>2, <1>5, <2>1, <2>2, <3>2 DEF Controllers, IsRecord
      <4>2. FieldsTyped(c')
        BY <1>1, <1>2, <1>5, <2>1, <2>2, <3>2, ControllerFields DEF Controllers, CState, FieldsTyped
      <4> QED BY <4>1, <4>2, ControllerRecord
    <3> QED BY <2>2, <3>1, <3>2
  <2>4. Goes
    BY <1>1, <1>2, <1>5, <2>1, <2>2 DEF Controllers, Goes, Runs, Ticked
  <2>5. Ticks
    BY <1>1, <1>2, <1>5, <2>1, <2>2 DEF Controllers, Ticks, Ticked
  <2> QED BY <2>3, <2>4, <2>5
<1>6. CASE c.state = "idle"
  <2>1. c' = IF c.refresh_pending THEN [b EXCEPT !.state = "refresh", !.wait = WAIT - 1, !.word_busy = TRUE]
             ELSE IF c.req_pending
                  THEN [b EXCEPT !.state = "activate", !.wait = WAIT - 1, !.word_busy = TRUE, !.req_pending = FALSE]
                  ELSE [b EXCEPT !.word_busy = FALSE]
    BY <1>1, <1>6 DEF CNext, IdleNext, Goto, b, Controllers
  <2>2. c.wait # 0 => c.wait - 1 \in 0 .. WAIT - 1
    BY <1>2 DEF SdramAssumption
  <2>3. c' \in Controllers
    <3>1. CASE c.refresh_pending
      <4>1. IsRecord(c')
        BY <1>1, <1>2, <1>3, <1>6, <2>1, <2>2, <3>1 DEF Controllers, IsRecord
      <4>2. FieldsTyped(c')
        BY <1>1, <1>2, <1>3, <1>6, <2>1, <2>2, <3>1, ControllerFields DEF Controllers, CState, FieldsTyped
      <4> QED BY <4>1, <4>2, ControllerRecord
    <3>2. CASE ~c.refresh_pending /\ c.req_pending
      <4>1. IsRecord(c')
        BY <1>1, <1>2, <1>3, <1>6, <2>1, <2>2, <3>2 DEF Controllers, IsRecord
      <4>2. FieldsTyped(c')
        BY <1>1, <1>2, <1>3, <1>6, <2>1, <2>2, <3>2, ControllerFields DEF Controllers, CState, FieldsTyped
      <4> QED BY <4>1, <4>2, ControllerRecord
    <3>3. CASE ~c.refresh_pending /\ ~c.req_pending
      <4>1. IsRecord(c')
        BY <1>1, <1>2, <1>3, <1>6, <2>1, <2>2, <3>3 DEF Controllers, IsRecord
      <4>2. FieldsTyped(c')
        BY <1>1, <1>2, <1>3, <1>6, <2>1, <2>2, <3>3, ControllerFields DEF Controllers, CState, FieldsTyped
      <4> QED BY <4>1, <4>2, ControllerRecord
    <3> QED BY <2>2, <3>1, <3>2, <3>3
  <2>4. Goes
    BY <1>1, <1>2, <1>3, <1>6, <2>1, <2>2 DEF Controllers, Goes, Runs, Ticked
  <2>5. Ticks
    BY <1>1, <1>2, <1>3, <1>6, <2>1, <2>2 DEF Controllers, Ticks, Ticked
  <2> QED BY <2>3, <2>4, <2>5
<1>7. CASE c.state = "refresh"
  <2>1. c' = [b EXCEPT !.state = "refresh_wait", !.wait = WAIT - 1, !.refresh_pending = FALSE]
    BY <1>1, <1>7 DEF CNext, b, Controllers
  <2>2. c.wait # 0 => c.wait - 1 \in 0 .. WAIT - 1
    BY <1>2 DEF SdramAssumption
  <2>3. c' \in Controllers
    <3>1. IsRecord(c')
      BY <1>1, <1>2, <1>3, <1>7, <2>1, <2>2 DEF Controllers, IsRecord
    <3>2. FieldsTyped(c')
      BY <1>1, <1>2, <1>3, <1>7, <2>1, <2>2, ControllerFields DEF Controllers, CState, FieldsTyped
    <3> QED BY <3>1, <3>2, ControllerRecord
  <2>4. Goes
    BY <1>1, <1>2, <1>3, <1>7, <2>1, <2>2 DEF Controllers, Goes, Runs, Ticked
  <2>5. Ticks
    BY <1>1, <1>2, <1>3, <1>7, <2>1, <2>2 DEF Controllers, Ticks, Ticked
  <2> QED BY <2>3, <2>4, <2>5
<1>8. CASE c.state = "refresh_wait"
  <2>1. c' = IF c.wait = 0 THEN [b EXCEPT !.state = "idle", !.word_busy = FALSE]
             ELSE [b EXCEPT !.wait = c.wait - 1, !.word_busy = TRUE]
    BY <1>1, <1>8 DEF CNext, Timed, Idle, b, Controllers
  <2>2. c.wait # 0 => c.wait - 1 \in 0 .. WAIT - 1
    BY <1>2 DEF SdramAssumption
  <2>3. c' \in Controllers
    <3>1. CASE c.wait = 0
      <4>1. IsRecord(c')
        BY <1>1, <1>2, <1>3, <1>8, <2>1, <2>2, <3>1 DEF Controllers, IsRecord
      <4>2. FieldsTyped(c')
        BY <1>1, <1>2, <1>3, <1>8, <2>1, <2>2, <3>1, ControllerFields DEF Controllers, CState, FieldsTyped
      <4> QED BY <4>1, <4>2, ControllerRecord
    <3>2. CASE c.wait # 0
      <4>1. IsRecord(c')
        BY <1>1, <1>2, <1>3, <1>8, <2>1, <2>2, <3>2 DEF Controllers, IsRecord
      <4>2. FieldsTyped(c')
        BY <1>1, <1>2, <1>3, <1>8, <2>1, <2>2, <3>2, ControllerFields DEF Controllers, CState, FieldsTyped
      <4> QED BY <4>1, <4>2, ControllerRecord
    <3> QED BY <2>2, <3>1, <3>2
  <2>4. Goes
    BY <1>1, <1>2, <1>3, <1>8, <2>1, <2>2 DEF Controllers, Goes, Runs, Ticked
  <2>5. Ticks
    BY <1>1, <1>2, <1>3, <1>8, <2>1, <2>2 DEF Controllers, Ticks, Ticked
  <2> QED BY <2>3, <2>4, <2>5
<1>9. CASE c.state = "activate"
  <2>1. c' = [b EXCEPT !.state = "activate_wait", !.wait = WAIT - 1]
    BY <1>1, <1>9 DEF CNext, b, Controllers
  <2>2. c.wait # 0 => c.wait - 1 \in 0 .. WAIT - 1
    BY <1>2 DEF SdramAssumption
  <2>3. c' \in Controllers
    <3>1. IsRecord(c')
      BY <1>1, <1>2, <1>3, <1>9, <2>1, <2>2 DEF Controllers, IsRecord
    <3>2. FieldsTyped(c')
      BY <1>1, <1>2, <1>3, <1>9, <2>1, <2>2, ControllerFields DEF Controllers, CState, FieldsTyped
    <3> QED BY <3>1, <3>2, ControllerRecord
  <2>4. Goes
    BY <1>1, <1>2, <1>3, <1>9, <2>1, <2>2 DEF Controllers, Goes, Runs, Ticked
  <2>5. Ticks
    BY <1>1, <1>2, <1>3, <1>9, <2>1, <2>2 DEF Controllers, Ticks, Ticked
  <2> QED BY <2>3, <2>4, <2>5
<1>10. CASE c.state = "activate_wait"
  <2>1. c' = IF c.wait = 0
             THEN [b EXCEPT !.state = IF c.req_is_write THEN "write_0" ELSE "read_0", !.wait = WAIT - 1,
                            !.word_busy = TRUE]
             ELSE [b EXCEPT !.wait = c.wait - 1, !.word_busy = TRUE]
    BY <1>1, <1>10 DEF CNext, Timed, Goto, b, Controllers
  <2>2. c.wait # 0 => c.wait - 1 \in 0 .. WAIT - 1
    BY <1>2 DEF SdramAssumption
  <2>3. c' \in Controllers
    <3>1. CASE c.wait = 0
      <4>1. IsRecord(c')
        BY <1>1, <1>2, <1>3, <1>10, <2>1, <2>2, <3>1 DEF Controllers, IsRecord
      <4>2. FieldsTyped(c')
        BY <1>1, <1>2, <1>3, <1>10, <2>1, <2>2, <3>1, ControllerFields DEF Controllers, CState, FieldsTyped
      <4> QED BY <4>1, <4>2, ControllerRecord
    <3>2. CASE c.wait # 0
      <4>1. IsRecord(c')
        BY <1>1, <1>2, <1>3, <1>10, <2>1, <2>2, <3>2 DEF Controllers, IsRecord
      <4>2. FieldsTyped(c')
        BY <1>1, <1>2, <1>3, <1>10, <2>1, <2>2, <3>2, ControllerFields DEF Controllers, CState, FieldsTyped
      <4> QED BY <4>1, <4>2, ControllerRecord
    <3> QED BY <2>2, <3>1, <3>2
  <2>4. Goes
    BY <1>1, <1>2, <1>3, <1>10, <2>1, <2>2 DEF Controllers, Goes, Runs, Ticked
  <2>5. Ticks
    BY <1>1, <1>2, <1>3, <1>10, <2>1, <2>2 DEF Controllers, Ticks, Ticked
  <2> QED BY <2>3, <2>4, <2>5
<1>11. CASE c.state = "read_0"
  <2>1. c' = [b EXCEPT !.state = "read_1", !.wait = WAIT - 1, !.word_busy = TRUE,
                       !.pipe = [b.pipe EXCEPT ![1] = "high"]]
    BY <1>1, <1>11 DEF CNext, Goto, b, Controllers
  <2>2. c.wait # 0 => c.wait - 1 \in 0 .. WAIT - 1
    BY <1>2 DEF SdramAssumption
  <2>3. c' \in Controllers
    <3>1. PICK q : q = b.pipe
      OBVIOUS
    <3>2. [q EXCEPT ![1] = "high"] \in [Stage -> {"none", "high", "low"}]
      BY <1>2, <1>3, <3>1
    <3>3. IsRecord(c')
      BY <1>1, <1>2, <1>3, <1>11, <2>1, <2>2, <3>1, <3>2 DEF Controllers, IsRecord
    <3>4. FieldsTyped(c')
      BY <1>1, <1>2, <1>3, <1>11, <2>1, <2>2, <3>1, <3>2, ControllerFields DEF Controllers, CState, FieldsTyped
    <3> QED BY <3>3, <3>4, ControllerRecord
  <2>4. Goes
    BY <1>1, <1>2, <1>3, <1>11, <2>1, <2>2 DEF Controllers, Goes, Runs, Ticked
  <2>5. Ticks
    BY <1>1, <1>2, <1>3, <1>11, <2>1, <2>2 DEF Controllers, Ticks, Ticked
  <2> QED BY <2>3, <2>4, <2>5
<1>12. CASE c.state = "read_1"
  <2>1. c' = [b EXCEPT !.state = "read_wait", !.wait = WAIT - 1, !.word_busy = TRUE,
                       !.pipe = [b.pipe EXCEPT ![1] = "low"]]
    BY <1>1, <1>12 DEF CNext, Goto, b, Controllers
  <2>2. c.wait # 0 => c.wait - 1 \in 0 .. WAIT - 1
    BY <1>2 DEF SdramAssumption
  <2>3. c' \in Controllers
    <3>1. PICK q : q = b.pipe
      OBVIOUS
    <3>2. [q EXCEPT ![1] = "low"] \in [Stage -> {"none", "high", "low"}]
      BY <1>2, <1>3, <3>1
    <3>3. IsRecord(c')
      BY <1>1, <1>2, <1>3, <1>12, <2>1, <2>2, <3>1, <3>2 DEF Controllers, IsRecord
    <3>4. FieldsTyped(c')
      BY <1>1, <1>2, <1>3, <1>12, <2>1, <2>2, <3>1, <3>2, ControllerFields DEF Controllers, CState, FieldsTyped
    <3> QED BY <3>3, <3>4, ControllerRecord
  <2>4. Goes
    BY <1>1, <1>2, <1>3, <1>12, <2>1, <2>2 DEF Controllers, Goes, Runs, Ticked
  <2>5. Ticks
    BY <1>1, <1>2, <1>3, <1>12, <2>1, <2>2 DEF Controllers, Ticks, Ticked
  <2> QED BY <2>3, <2>4, <2>5
<1>13. CASE c.state = "read_recovery"
  <2>1. c' = IF c.wait = 0 THEN [b EXCEPT !.state = "idle", !.word_busy = FALSE]
             ELSE [b EXCEPT !.wait = c.wait - 1, !.word_busy = TRUE]
    BY <1>1, <1>13 DEF CNext, Timed, Idle, b, Controllers
  <2>2. c.wait # 0 => c.wait - 1 \in 0 .. WAIT - 1
    BY <1>2 DEF SdramAssumption
  <2>3. c' \in Controllers
    <3>1. CASE c.wait = 0
      <4>1. IsRecord(c')
        BY <1>1, <1>2, <1>3, <1>13, <2>1, <2>2, <3>1 DEF Controllers, IsRecord
      <4>2. FieldsTyped(c')
        BY <1>1, <1>2, <1>3, <1>13, <2>1, <2>2, <3>1, ControllerFields DEF Controllers, CState, FieldsTyped
      <4> QED BY <4>1, <4>2, ControllerRecord
    <3>2. CASE c.wait # 0
      <4>1. IsRecord(c')
        BY <1>1, <1>2, <1>3, <1>13, <2>1, <2>2, <3>2 DEF Controllers, IsRecord
      <4>2. FieldsTyped(c')
        BY <1>1, <1>2, <1>3, <1>13, <2>1, <2>2, <3>2, ControllerFields DEF Controllers, CState, FieldsTyped
      <4> QED BY <4>1, <4>2, ControllerRecord
    <3> QED BY <2>2, <3>1, <3>2
  <2>4. Goes
    BY <1>1, <1>2, <1>3, <1>13, <2>1, <2>2 DEF Controllers, Goes, Runs, Ticked
  <2>5. Ticks
    BY <1>1, <1>2, <1>3, <1>13, <2>1, <2>2 DEF Controllers, Ticks, Ticked
  <2> QED BY <2>3, <2>4, <2>5
<1>14. CASE c.state = "write_0"
  <2>1. c' = [b EXCEPT !.state = "write_1", !.wait = WAIT - 1, !.word_busy = TRUE]
    BY <1>1, <1>14 DEF CNext, Goto, b, Controllers
  <2>2. c.wait # 0 => c.wait - 1 \in 0 .. WAIT - 1
    BY <1>2 DEF SdramAssumption
  <2>3. c' \in Controllers
    <3>1. IsRecord(c')
      BY <1>1, <1>2, <1>3, <1>14, <2>1, <2>2 DEF Controllers, IsRecord
    <3>2. FieldsTyped(c')
      BY <1>1, <1>2, <1>3, <1>14, <2>1, <2>2, ControllerFields DEF Controllers, CState, FieldsTyped
    <3> QED BY <3>1, <3>2, ControllerRecord
  <2>4. Goes
    BY <1>1, <1>2, <1>3, <1>14, <2>1, <2>2 DEF Controllers, Goes, Runs, Ticked
  <2>5. Ticks
    BY <1>1, <1>2, <1>3, <1>14, <2>1, <2>2 DEF Controllers, Ticks, Ticked
  <2> QED BY <2>3, <2>4, <2>5
<1>15. CASE c.state = "write_1"
  <2>1. c' = [b EXCEPT !.state = "write_recovery", !.wait = WAIT - 1, !.word_busy = TRUE]
    BY <1>1, <1>15 DEF CNext, Goto, b, Controllers
  <2>2. c.wait # 0 => c.wait - 1 \in 0 .. WAIT - 1
    BY <1>2 DEF SdramAssumption
  <2>3. c' \in Controllers
    <3>1. IsRecord(c')
      BY <1>1, <1>2, <1>3, <1>15, <2>1, <2>2 DEF Controllers, IsRecord
    <3>2. FieldsTyped(c')
      BY <1>1, <1>2, <1>3, <1>15, <2>1, <2>2, ControllerFields DEF Controllers, CState, FieldsTyped
    <3> QED BY <3>1, <3>2, ControllerRecord
  <2>4. Goes
    BY <1>1, <1>2, <1>3, <1>15, <2>1, <2>2 DEF Controllers, Goes, Runs, Ticked
  <2>5. Ticks
    BY <1>1, <1>2, <1>3, <1>15, <2>1, <2>2 DEF Controllers, Ticks, Ticked
  <2> QED BY <2>3, <2>4, <2>5
<1>16. CASE c.state = "write_recovery"
  <2>1. c' = IF c.wait = 0 THEN [b EXCEPT !.state = "idle", !.word_busy = FALSE]
             ELSE [b EXCEPT !.wait = c.wait - 1, !.word_busy = TRUE]
    BY <1>1, <1>16 DEF CNext, Timed, Idle, b, Controllers
  <2>2. c.wait # 0 => c.wait - 1 \in 0 .. WAIT - 1
    BY <1>2 DEF SdramAssumption
  <2>3. c' \in Controllers
    <3>1. CASE c.wait = 0
      <4>1. IsRecord(c')
        BY <1>1, <1>2, <1>3, <1>16, <2>1, <2>2, <3>1 DEF Controllers, IsRecord
      <4>2. FieldsTyped(c')
        BY <1>1, <1>2, <1>3, <1>16, <2>1, <2>2, <3>1, ControllerFields DEF Controllers, CState, FieldsTyped
      <4> QED BY <4>1, <4>2, ControllerRecord
    <3>2. CASE c.wait # 0
      <4>1. IsRecord(c')
        BY <1>1, <1>2, <1>3, <1>16, <2>1, <2>2, <3>2 DEF Controllers, IsRecord
      <4>2. FieldsTyped(c')
        BY <1>1, <1>2, <1>3, <1>16, <2>1, <2>2, <3>2, ControllerFields DEF Controllers, CState, FieldsTyped
      <4> QED BY <4>1, <4>2, ControllerRecord
    <3> QED BY <2>2, <3>1, <3>2
  <2>4. Goes
    BY <1>1, <1>2, <1>3, <1>16, <2>1, <2>2 DEF Controllers, Goes, Runs, Ticked
  <2>5. Ticks
    BY <1>1, <1>2, <1>3, <1>16, <2>1, <2>2 DEF Controllers, Ticks, Ticked
  <2> QED BY <2>3, <2>4, <2>5
<1>17. CASE c.state = "read_wait"
  <2>1. c' = CASE c.pipe[STAGES] = "high" ->
                    [b EXCEPT !.read_high = Replace(b.read_high, HighHalf, chip[c.req_addr]), !.word_busy = TRUE]
               [] c.pipe[STAGES] = "low" ->
                    [b EXCEPT !.state = "read_recovery", !.wait = WAIT - 1, !.word_busy = TRUE,
                              !.word_q = Replace(c.read_high, LowHalf, chip[c.req_addr])]
               [] c.pipe[STAGES] = "none" -> [b EXCEPT !.word_busy = TRUE]
    BY <1>1, <1>17 DEF CNext, Capture, Goto, b, Controllers
  <2>2. c.pipe[STAGES] \in {"none", "high", "low"}
    BY <1>2, <1>3
  <2>3. c' \in Controllers
    <3>1. CASE c.pipe[STAGES] = "high"
      <4>0. PICK w \in Word : /\ w = Replace(c.read_high, HighHalf, chip[c.req_addr])
                              /\ c' = [b EXCEPT !.read_high = w, !.word_busy = TRUE]
        BY <1>1, <1>2, <1>4, <1>17, <2>1, <3>1 DEF Ticked
      <4>1. IsRecord(c')
        BY <1>1, <1>2, <1>3, <1>4, <1>17, <2>1, <2>2, <3>1 DEF Controllers, IsRecord
      <4>2. FieldsTyped(c')
        BY <1>1, <1>2, <1>3, <1>4, <2>2, <4>0, <3>1, ControllerFields DEF Controllers, CState, FieldsTyped
      <4> QED BY <4>1, <4>2, ControllerRecord
    <3>2. CASE c.pipe[STAGES] = "low"
      <4>0. PICK w \in Word : /\ w = Replace(c.read_high, LowHalf, chip[c.req_addr])
                              /\ c' = [b EXCEPT !.state = "read_recovery", !.wait = WAIT - 1,
                                                !.word_busy = TRUE, !.word_q = w]
        BY <1>1, <1>2, <1>4, <1>17, <2>1, <3>2 DEF Ticked
      <4>1. IsRecord(c')
        BY <1>1, <1>2, <1>3, <1>4, <1>17, <2>1, <2>2, <3>2 DEF Controllers, IsRecord
      <4>2. FieldsTyped(c')
        BY <1>1, <1>2, <1>3, <1>4, <2>2, <4>0, <3>2, ControllerFields DEF Controllers, CState, FieldsTyped
      <4> QED BY <4>1, <4>2, ControllerRecord
    <3>3. CASE c.pipe[STAGES] = "none"
      <4>0. c' = [b EXCEPT !.word_busy = TRUE]
        BY <2>1, <3>3
      <4>1. IsRecord(c')
        BY <1>1, <4>0 DEF Controllers, IsRecord
      <4>2. FieldsTyped(c')
        BY <1>1, <4>0, ControllerFields DEF Controllers, FieldsTyped
      <4> QED BY <4>1, <4>2, ControllerRecord
    <3> QED BY <2>2, <3>1, <3>2, <3>3
  <2>4. Goes
    BY <1>1, <1>2, <1>3, <1>4, <1>17, <2>1, <2>2 DEF Controllers, Goes, Runs, Ticked
  <2>5. Ticks
    BY <1>1, <1>2, <1>3, <1>4, <1>17, <2>1, <2>2 DEF Controllers, Ticks, Ticked
  <2> QED BY <2>3, <2>4, <2>5
<1> QED BY <1>2, <1>5, <1>6, <1>7, <1>8, <1>9, <1>10, <1>11, <1>12, <1>13, <1>14, <1>15, <1>16, <1>17 DEF CState

Peripherals ==
  [state : PState, req : Request, second : BOOLEAN, more : BOOLEAN, read : Pair, write : Pair,
   word_rd : BOOLEAN, word_wr : BOOLEAN, word_addr : WordAddr, word_data : Word, response : Word,
   response_pending : BOOLEAN]

\* The registers that a record of the peripheral holds (sdram_peripheral.sv:66-94).
LEMMA PeripheralFields ==
  ASSUME NEW x \in Peripherals
  PROVE  /\ x.state \in PState /\ x.req \in Request /\ x.second \in BOOLEAN /\ x.more \in BOOLEAN
         /\ x.read \in Pair /\ x.write \in Pair /\ x.word_rd \in BOOLEAN /\ x.word_wr \in BOOLEAN
         /\ x.word_addr \in WordAddr /\ x.word_data \in Word /\ x.response \in Word
         /\ x.response_pending \in BOOLEAN
BY DEF Peripherals

IsPeripheral(x) ==
  x = [state |-> x.state, req |-> x.req, second |-> x.second, more |-> x.more, read |-> x.read,
       write |-> x.write, word_rd |-> x.word_rd, word_wr |-> x.word_wr, word_addr |-> x.word_addr,
       word_data |-> x.word_data, response |-> x.response, response_pending |-> x.response_pending]

PeripheralTyped(x) ==
  /\ x.state \in PState /\ x.req \in Request /\ x.second \in BOOLEAN /\ x.more \in BOOLEAN
  /\ x.read \in Pair /\ x.write \in Pair /\ x.word_rd \in BOOLEAN /\ x.word_wr \in BOOLEAN
  /\ x.word_addr \in WordAddr /\ x.word_data \in Word /\ x.response \in Word
  /\ x.response_pending \in BOOLEAN

\* And what makes a record of the peripheral.
LEMMA PeripheralRecord ==
  ASSUME NEW x, IsPeripheral(x), PeripheralTyped(x)
  PROVE  x \in Peripherals
<1>1. [state |-> x.state, req |-> x.req, second |-> x.second, more |-> x.more, read |-> x.read,
       write |-> x.write, word_rd |-> x.word_rd, word_wr |-> x.word_wr, word_addr |-> x.word_addr,
       word_data |-> x.word_data, response |-> x.response, response_pending |-> x.response_pending]
      \in Peripherals
  BY Zenon DEF PeripheralTyped, Peripherals
<1> QED BY <1>1 DEF IsPeripheral

\* The parts of a request.
LEMMA RequestFields ==
  ASSUME SdramAssumption, NEW r \in Request
  PROVE  /\ r.addr \in Nat /\ r.addr <= WORDS * LANES /\ r.wdata \in Word /\ r.we \in BOOLEAN
         /\ r.bytes \in Nat /\ r.bytes <= LANES /\ Offset(r) \in Lane
<1>1. r.addr \in 0 .. WORDS * LANES /\ r.wdata \in Word /\ r.we \in BOOLEAN /\ r.bytes \in AccessBytes
  BY DEF Request
<1>2. LANES \in {2, 4} /\ WORDS \in Nat
  BY DEF SdramAssumption
<1>3. CASE LANES = 2
  BY <1>1, <1>2, <1>3 DEF AccessBytes, Offset, Lane
<1>4. CASE LANES = 4
  BY <1>1, <1>2, <1>4 DEF AccessBytes, Offset, Lane
<1> QED BY <1>2, <1>3, <1>4

\* What the sizes are.
LEMMA Sizes ==
  ASSUME SdramAssumption
  PROVE  /\ LANES \in {2, 4} /\ WORDS \in Nat /\ WORDS > 0 /\ 0 \in Byte
         /\ Zero \in Word /\ ZeroPair \in Pair
BY DEF SdramAssumption, Zero, ZeroPair, Word, Pair, Lane

\* What an access takes from a pair of words, and what it leaves there
\* (extract_access_data and merge_access_data).
LEMMA AccessTypes ==
  ASSUME SdramAssumption, NEW r \in Request, NEW pair \in Pair
  PROVE  Extract(pair, r) \in Word /\ Merge(pair, r) \in Pair
<1>1. /\ r.bytes \in Nat /\ r.bytes <= LANES /\ Offset(r) \in Lane /\ r.wdata \in Word
      /\ LANES \in {2, 4} /\ 0 \in Byte
  BY RequestFields, Sizes
<1>2. Extract(pair, r) \in Word
  BY <1>1 DEF Extract, Word, Pair, Lane
<1>3. Merge(pair, r) \in Pair
  BY <1>1 DEF Merge, Touched, Word, Pair, Lane
<1> QED BY <1>2, <1>3

\* The words of a pair (active_write_word_data).
LEMMA HalfType ==
  ASSUME SdramAssumption, NEW pair \in Pair
  PROVE  \A second \in BOOLEAN : Half(pair, second) \in Word
BY Sizes DEF Half, Word, Pair, Lane

\* A word put into the lower half of the pair, and one into the upper half.
LEMMA JoinTypes ==
  ASSUME SdramAssumption, NEW w \in Word
  PROVE  /\ [l \in DOMAIN ZeroPair |-> IF l < LANES THEN w[l] ELSE 0] \in Pair
         /\ \A pair \in Pair : \A second \in BOOLEAN :
              [l \in DOMAIN pair |-> IF l >= LANES THEN IF second THEN w[l - LANES] ELSE 0
                                     ELSE IF second THEN pair[l] ELSE w[l]] \in Pair
<1>1. [l \in DOMAIN ZeroPair |-> IF l < LANES THEN w[l] ELSE 0] \in Pair
  BY Sizes DEF ZeroPair, Word, Pair, Lane
<1>2. ASSUME NEW pair \in Pair, NEW second \in BOOLEAN
      PROVE  [l \in DOMAIN pair |-> IF l >= LANES THEN IF second THEN w[l - LANES] ELSE 0
                                    ELSE IF second THEN pair[l] ELSE w[l]] \in Pair
  BY Sizes DEF Word, Pair, Lane
<1> QED BY <1>1, <1>2

\* The word an access has come to is one of the window.
LEMMA ActiveInWindow ==
  ASSUME SdramAssumption, NEW r \in Request
  PROVE  /\ BaseWord(r) \in WordAddr
         /\ (BaseWord(r) + 0) % WORDS \in WordAddr /\ (BaseWord(r) + 1) % WORDS \in WordAddr
<1>1. r.addr \in Nat /\ LANES \in Nat /\ LANES > 0 /\ WORDS \in Nat /\ WORDS > 0
  BY RequestFields DEF SdramAssumption
<1>2. r.addr \div LANES \in Nat
  BY <1>1
<1>3. \A n \in Nat : n % WORDS \in 0 .. WORDS - 1
  BY <1>1
<1> QED BY <1>2, <1>3 DEF BaseWord, WordAddr

(***************************************************************************)
(* What an edge does to the peripheral, field by field.                    *)
(***************************************************************************)
KeepsAccess == /\ p'.req = p.req /\ p'.second = p.second /\ p'.more = p.more
               /\ p'.read = p.read /\ p'.write = p.write
KeepsCommand == p'.word_addr = p.word_addr /\ p'.word_data = p.word_data
NoStrobe == ~p'.word_rd /\ ~p'.word_wr
Silent(d_ready) == p'.response = p.response /\ (p'.response_pending <=> p.response_pending /\ ~d_ready)
Answers(v) == p'.response = v /\ p'.response_pending /\ p'.state = "respond"

\* Nothing but the state moves.
Passes(next, d_ready) ==
  p'.state = next /\ KeepsAccess /\ KeepsCommand /\ NoStrobe /\ Silent(d_ready)

Accepts(r) ==
  /\ p'.req = r /\ ~p'.second /\ ~p'.more /\ p'.read = p.read /\ KeepsCommand /\ NoStrobe
  /\ IF ~InRange(r) THEN p'.write = p.write /\ Answers(Zero)
     ELSE /\ p'.response = p.response /\ ~p'.response_pending
          /\ IF r.we /\ WholeWord(r)
             THEN /\ p'.state = "write_cmd"
                  /\ p'.write = [l \in DOMAIN ZeroPair |-> IF l < LANES THEN r.wdata[l] ELSE 0]
             ELSE p'.state = "read_cmd" /\ p'.write = p.write

Commands(d_ready, wr) ==
  /\ KeepsAccess /\ Silent(d_ready)
  /\ (p'.word_wr <=> wr) /\ (p'.word_rd <=> ~wr) /\ p'.word_addr = ActiveWord
  /\ p'.word_data = IF wr THEN Half(p.write, p.second) ELSE p.word_data
  /\ p'.state = IF wr THEN "write_wait_busy" ELSE "read_wait_busy"

TakesWord(d_ready) ==
  /\ p'.req = p.req /\ p'.more = p.more /\ p'.write = p.write /\ KeepsCommand /\ NoStrobe /\ Silent(d_ready)
  /\ p'.read = [l \in DOMAIN p.read |-> IF l >= LANES THEN IF p.second THEN c.word_q[l - LANES] ELSE 0
                                        ELSE IF p.second THEN p.read[l] ELSE c.word_q[l]]
  /\ p'.second <=> p.second \/ Split(p.req)
  /\ p'.state = IF ~p.second /\ Split(p.req) THEN "read_cmd" ELSE "read_process"

Merges(d_ready) ==
  /\ p'.req = p.req /\ p'.read = p.read /\ KeepsCommand /\ NoStrobe /\ Silent(d_ready)
  /\ p'.write = Merge(p.read, p.req) /\ (p'.more <=> Split(p.req)) /\ ~p'.second /\ p'.state = "write_cmd"

GoesOn(d_ready) ==
  /\ p'.req = p.req /\ p'.read = p.read /\ p'.write = p.write /\ p'.more = p.more
  /\ KeepsCommand /\ NoStrobe /\ Silent(d_ready) /\ p'.second /\ p'.state = "write_cmd"

Ends(v) == KeepsAccess /\ KeepsCommand /\ NoStrobe /\ Answers(v)

Serves(offered, r, d_ready) ==
  /\ p.state = "idle" =>
       IF offered /\ AReady THEN Accepts(r) ELSE Passes("idle", d_ready)
  /\ p.state = "read_cmd" =>
       IF c.word_busy THEN Passes("read_cmd", d_ready) ELSE Commands(d_ready, FALSE)
  /\ p.state = "write_cmd" =>
       IF c.word_busy THEN Passes("write_cmd", d_ready) ELSE Commands(d_ready, TRUE)
  /\ p.state = "read_wait_busy" =>
       Passes(IF c.word_busy THEN "read_wait_done" ELSE "read_wait_busy", d_ready)
  /\ p.state = "write_wait_busy" =>
       Passes(IF c.word_busy THEN "write_wait_done" ELSE "write_wait_busy", d_ready)
  /\ p.state = "read_wait_done" =>
       IF c.word_busy THEN Passes("read_wait_done", d_ready) ELSE TakesWord(d_ready)
  /\ p.state = "read_process" =>
       IF p.req.we THEN Merges(d_ready) ELSE Ends(Extract(p.read, p.req))
  /\ p.state = "write_wait_done" =>
       IF c.word_busy THEN Passes("write_wait_done", d_ready)
       ELSE IF ~p.second /\ p.more THEN GoesOn(d_ready) ELSE Ends(Zero)
  /\ p.state = "respond" =>
       Passes(IF p.response_pending /\ d_ready THEN "idle" ELSE "respond", d_ready)

\* One edge of the peripheral.
LEMMA PeripheralStep ==
  ASSUME SdramAssumption, TypeOK, NEW offered \in BOOLEAN, NEW r \in Request, NEW d_ready \in BOOLEAN,
         p' = PNext(offered, r, d_ready)
  PROVE  p' \in Peripherals /\ Serves(offered, r, d_ready)
<1>1. PICK pend \in BOOLEAN : pend <=> p.response_pending /\ ~d_ready
  OBVIOUS
<1>2. p \in Peripherals /\ c.word_q \in Word /\ c.word_busy \in BOOLEAN
  BY DEF TypeOK, Peripherals
<1>3. /\ p.state \in PState /\ p.req \in Request /\ p.second \in BOOLEAN /\ p.more \in BOOLEAN
      /\ p.read \in Pair /\ p.write \in Pair /\ p.word_rd \in BOOLEAN /\ p.word_wr \in BOOLEAN
      /\ p.word_addr \in WordAddr /\ p.word_data \in Word /\ p.response \in Word
      /\ p.response_pending \in BOOLEAN
  BY <1>2, PeripheralFields
<1>4. p = [state |-> p.state, req |-> p.req, second |-> p.second, more |-> p.more, read |-> p.read,
           write |-> p.write, word_rd |-> p.word_rd, word_wr |-> p.word_wr, word_addr |-> p.word_addr,
           word_data |-> p.word_data, response |-> p.response, response_pending |-> p.response_pending]
  BY <1>2 DEF Peripherals
<1>5. Quiet(d_ready) = [state |-> p.state, req |-> p.req, second |-> p.second, more |-> p.more, read |-> p.read,
           write |-> p.write, word_rd |-> FALSE, word_wr |-> FALSE, word_addr |-> p.word_addr,
           word_data |-> p.word_data, response |-> p.response, response_pending |-> pend]
  <2>1. (p.response_pending /\ ~d_ready) = pend
    BY <1>1, <1>3
  <2>2. Quiet(d_ready) = [p EXCEPT !.word_rd = FALSE, !.word_wr = FALSE, !.response_pending = pend]
    BY <2>1 DEF Quiet
  <2> QED BY <1>4, <2>2
<1> DEFINE q == Quiet(d_ready)
<1>6. Half(p.write, p.second) \in Word
  BY <1>3, HalfType
<1>7. ActiveWord \in WordAddr
  BY <1>3, ActiveInWindow DEF ActiveWord
<1>8. Merge(p.read, p.req) \in Pair /\ Extract(p.read, p.req) \in Word /\ Zero \in Word
  BY <1>3, AccessTypes, Sizes
<1> HIDE DEF q
<1>9. CASE p.state = "idle"
  <2>1. p' = IF ~(offered /\ AReady) THEN q
             ELSE IF ~InRange(r)
                  THEN [q EXCEPT !.req = r, !.second = FALSE, !.more = FALSE, !.response = Zero,
                                 !.response_pending = TRUE, !.state = "respond"]
                  ELSE IF r.we /\ WholeWord(r)
                       THEN [q EXCEPT !.req = r, !.second = FALSE, !.more = FALSE,
                                      !.write = [l \in DOMAIN ZeroPair |-> IF l < LANES THEN r.wdata[l] ELSE 0],
                                      !.state = "write_cmd"]
                       ELSE [q EXCEPT !.req = r, !.second = FALSE, !.more = FALSE, !.state = "read_cmd"]
    BY <1>5, <1>9 DEF PNext, Accept, Respond, q
  <2>2. PICK w \in Pair : w = [l \in DOMAIN ZeroPair |-> IF l < LANES THEN r.wdata[l] ELSE 0]
    BY JoinTypes, RequestFields
  <2>3. Serves(offered, r, d_ready)
    BY <1>1, <1>5, <1>9, <2>1, <2>2
       DEF q, Serves, Passes, Accepts, Answers, KeepsAccess, KeepsCommand, NoStrobe, Silent, AReady
  <2>4. IsPeripheral(p')
    BY <1>5, <2>1, <2>2 DEF q, IsPeripheral
  <2>5. PeripheralTyped(p')
    <3>1. CASE ~(offered /\ AReady)
      BY <1>1, <1>3, <1>5, <1>8, <2>1, <2>2, <3>1 DEF q, PeripheralTyped, PState
    <3>2. CASE offered /\ AReady /\ ~InRange(r)
      BY <1>1, <1>3, <1>5, <1>8, <2>1, <2>2, <3>2 DEF q, PeripheralTyped, PState
    <3>3. CASE offered /\ AReady /\ InRange(r) /\ r.we /\ WholeWord(r)
      BY <1>1, <1>3, <1>5, <1>8, <2>1, <2>2, <3>3 DEF q, PeripheralTyped, PState
    <3>4. CASE offered /\ AReady /\ InRange(r) /\ ~(r.we /\ WholeWord(r))
      BY <1>1, <1>3, <1>5, <1>8, <2>1, <2>2, <3>4 DEF q, PeripheralTyped, PState
    <3> QED BY <3>1, <3>2, <3>3, <3>4
  <2> QED BY <2>3, <2>4, <2>5, PeripheralRecord
<1>10. CASE p.state = "read_cmd"
  <2>1. p' = IF c.word_busy THEN q
             ELSE [q EXCEPT !.word_rd = TRUE, !.word_addr = ActiveWord, !.state = "read_wait_busy"]
    BY <1>5, <1>10 DEF PNext, ReadCmd, q
  <2>3. Serves(offered, r, d_ready)
    BY <1>1, <1>5, <1>10, <2>1
       DEF q, Serves, Passes, Commands, KeepsAccess, KeepsCommand, NoStrobe, Silent
  <2>4. IsPeripheral(p')
    BY <1>5, <2>1 DEF q, IsPeripheral
  <2>5. PeripheralTyped(p')
    BY <1>1, <1>3, <1>5, <1>6, <1>7, <1>8, <2>1 DEF q, PeripheralTyped, PState
  <2> QED BY <2>3, <2>4, <2>5, PeripheralRecord
<1>11. CASE p.state = "write_cmd"
  <2>1. p' = IF c.word_busy THEN q
             ELSE [q EXCEPT !.word_wr = TRUE, !.word_addr = ActiveWord,
                            !.word_data = Half(p.write, p.second), !.state = "write_wait_busy"]
    BY <1>5, <1>11 DEF PNext, WriteCmd, q
  <2>3. Serves(offered, r, d_ready)
    BY <1>1, <1>5, <1>11, <2>1
       DEF q, Serves, Passes, Commands, KeepsAccess, KeepsCommand, NoStrobe, Silent
  <2>4. IsPeripheral(p')
    BY <1>5, <2>1 DEF q, IsPeripheral
  <2>5. PeripheralTyped(p')
    BY <1>1, <1>3, <1>5, <1>6, <1>7, <1>8, <2>1 DEF q, PeripheralTyped, PState
  <2> QED BY <2>3, <2>4, <2>5, PeripheralRecord
<1>12. CASE p.state = "read_wait_busy"
  <2>1. p' = IF c.word_busy THEN [q EXCEPT !.state = "read_wait_done"] ELSE q
    BY <1>5, <1>12 DEF PNext, AwaitBusy, q
  <2>3. Serves(offered, r, d_ready)
    BY <1>1, <1>5, <1>12, <2>1
       DEF q, Serves, Passes, KeepsAccess, KeepsCommand, NoStrobe, Silent
  <2>4. IsPeripheral(p')
    BY <1>5, <2>1 DEF q, IsPeripheral
  <2>5. PeripheralTyped(p')
    BY <1>1, <1>3, <1>5, <1>6, <1>7, <1>8, <2>1 DEF q, PeripheralTyped, PState
  <2> QED BY <2>3, <2>4, <2>5, PeripheralRecord
<1>13. CASE p.state = "write_wait_busy"
  <2>1. p' = IF c.word_busy THEN [q EXCEPT !.state = "write_wait_done"] ELSE q
    BY <1>5, <1>13 DEF PNext, AwaitBusy, q
  <2>3. Serves(offered, r, d_ready)
    BY <1>1, <1>5, <1>13, <2>1
       DEF q, Serves, Passes, KeepsAccess, KeepsCommand, NoStrobe, Silent
  <2>4. IsPeripheral(p')
    BY <1>5, <2>1 DEF q, IsPeripheral
  <2>5. PeripheralTyped(p')
    BY <1>1, <1>3, <1>5, <1>6, <1>7, <1>8, <2>1 DEF q, PeripheralTyped, PState
  <2> QED BY <2>3, <2>4, <2>5, PeripheralRecord
<1>14. CASE p.state = "read_wait_done"
  <2>a. PICK w \in Pair :
          w = [l \in DOMAIN p.read |-> IF l >= LANES THEN IF p.second THEN c.word_q[l - LANES] ELSE 0
                                       ELSE IF p.second THEN p.read[l] ELSE c.word_q[l]]
    BY <1>2, <1>3, JoinTypes, ZenonT(60)
  <2>b. PICK second \in BOOLEAN : second <=> p.second \/ Split(p.req)
    OBVIOUS
  <2>c. second = (p.second \/ Split(p.req))
    BY <1>3, <2>b
  <2>1. p' = IF c.word_busy THEN q
             ELSE [q EXCEPT !.read = w, !.second = second,
                            !.state = IF ~p.second /\ Split(p.req) THEN "read_cmd" ELSE "read_process"]
    BY <1>5, <1>14, <2>a, <2>c DEF PNext, ReadDone, q
  <2>3. Serves(offered, r, d_ready)
    BY <1>1, <1>5, <1>14, <2>1, <2>a, <2>b
       DEF q, Serves, Passes, TakesWord, KeepsAccess, KeepsCommand, NoStrobe, Silent
  <2>4. IsPeripheral(p')
    BY <1>5, <2>1, <2>a, <2>b DEF q, IsPeripheral
  <2>5. PeripheralTyped(p')
    BY <1>1, <1>3, <1>5, <1>6, <1>7, <1>8, <2>1, <2>a, <2>b DEF q, PeripheralTyped, PState
  <2> QED BY <2>3, <2>4, <2>5, PeripheralRecord
<1>15. CASE p.state = "read_process"
  <2>a. PICK split \in BOOLEAN : split <=> Split(p.req)
    OBVIOUS
  <2>b. split = Split(p.req)
    BY <2>a DEF Split
  <2>1. p' = IF p.req.we THEN [q EXCEPT !.write = Merge(p.read, p.req), !.more = split, !.second = FALSE,
                                        !.state = "write_cmd"]
             ELSE [q EXCEPT !.response = Extract(p.read, p.req), !.response_pending = TRUE, !.state = "respond"]
    BY <1>5, <1>15, <2>b DEF PNext, ReadProcess, Respond, q
  <2>3. Serves(offered, r, d_ready)
    BY <1>1, <1>5, <1>15, <2>1, <2>a
       DEF q, Serves, Merges, Ends, Answers, KeepsAccess, KeepsCommand, NoStrobe, Silent
  <2>4. IsPeripheral(p')
    BY <1>5, <2>1, <2>a DEF q, IsPeripheral
  <2>5. PeripheralTyped(p')
    <3>1. CASE p.req.we
      BY <1>1, <1>3, <1>5, <1>6, <1>7, <1>8, <2>1, <2>a, <3>1 DEF q, PeripheralTyped, PState
    <3>2. CASE ~p.req.we
      BY <1>1, <1>3, <1>5, <1>6, <1>7, <1>8, <2>1, <2>a, <3>2 DEF q, PeripheralTyped, PState
    <3> QED BY <3>1, <3>2
  <2> QED BY <2>3, <2>4, <2>5, PeripheralRecord
<1>16. CASE p.state = "write_wait_done"
  <2>1. p' = IF c.word_busy THEN q
             ELSE IF ~p.second /\ p.more THEN [q EXCEPT !.second = TRUE, !.state = "write_cmd"]
             ELSE [q EXCEPT !.response = Zero, !.response_pending = TRUE, !.state = "respond"]
    BY <1>5, <1>16 DEF PNext, WriteDone, Respond, q
  <2>3. Serves(offered, r, d_ready)
    <3>1. CASE c.word_busy
      BY <1>1, <1>5, <1>16, <2>1, <3>1
         DEF q, Serves, Passes, GoesOn, Ends, Answers, KeepsAccess, KeepsCommand, NoStrobe, Silent
    <3>2. CASE ~c.word_busy /\ ~p.second /\ p.more
      BY <1>1, <1>5, <1>16, <2>1, <3>2
         DEF q, Serves, Passes, GoesOn, Ends, Answers, KeepsAccess, KeepsCommand, NoStrobe, Silent
    <3>3. CASE ~c.word_busy /\ ~(~p.second /\ p.more)
      <4>1. p' = [q EXCEPT !.response = Zero, !.response_pending = TRUE, !.state = "respond"]
        BY <2>1, <3>3
      <4> QED BY <1>1, <1>5, <1>16, <4>1, <3>3
         DEF q, Serves, Passes, GoesOn, Ends, Answers, KeepsAccess, KeepsCommand, NoStrobe, Silent
    <3> QED BY <3>1, <3>2, <3>3
  <2>4. IsPeripheral(p')
    BY <1>5, <2>1 DEF q, IsPeripheral
  <2>5. PeripheralTyped(p')
    <3>1. CASE c.word_busy
      BY <1>1, <1>3, <1>5, <1>6, <1>7, <1>8, <2>1, <3>1 DEF q, PeripheralTyped, PState
    <3>2. CASE ~c.word_busy /\ ~p.second /\ p.more
      BY <1>1, <1>3, <1>5, <1>6, <1>7, <1>8, <2>1, <3>2 DEF q, PeripheralTyped, PState
    <3>3. CASE ~c.word_busy /\ ~(~p.second /\ p.more)
      <4>1. p' = [q EXCEPT !.response = Zero, !.response_pending = TRUE, !.state = "respond"]
        BY <2>1, <3>3
      <4> QED BY <1>1, <1>3, <1>5, <1>6, <1>7, <1>8, <4>1, <3>3 DEF q, PeripheralTyped, PState
    <3> QED BY <3>1, <3>2, <3>3
  <2> QED BY <2>3, <2>4, <2>5, PeripheralRecord
<1>17. CASE p.state = "respond"
  <2>1. p' = IF p.response_pending /\ d_ready THEN [q EXCEPT !.state = "idle"] ELSE q
    BY <1>5, <1>17 DEF PNext, q
  <2>3. Serves(offered, r, d_ready)
    BY <1>1, <1>5, <1>17, <2>1
       DEF q, Serves, Passes, KeepsAccess, KeepsCommand, NoStrobe, Silent
  <2>4. IsPeripheral(p')
    BY <1>5, <2>1 DEF q, IsPeripheral
  <2>5. PeripheralTyped(p')
    BY <1>1, <1>3, <1>5, <1>6, <1>7, <1>8, <2>1 DEF q, PeripheralTyped, PState
  <2> QED BY <2>3, <2>4, <2>5, PeripheralRecord
<1> QED BY <1>3, <1>9, <1>10, <1>11, <1>12, <1>13, <1>14, <1>15, <1>16, <1>17 DEF PState

(***************************************************************************)
(* The two keep in step                                                    *)
(***************************************************************************)

\* An edge, field by field.
Stepped(offered, r, d_ready) ==
  /\ p' \in Peripherals /\ Serves(offered, r, d_ready)
  /\ c' \in Controllers /\ Goes /\ Ticks

\* Both sides of an edge.
LEMMA EdgeStep ==
  ASSUME SdramAssumption, Control, NEW offered \in BOOLEAN, NEW r \in Request, NEW d_ready \in BOOLEAN,
         Edge(offered, r, d_ready)
  PROVE  Stepped(offered, r, d_ready)
<1>1. p' \in Peripherals /\ Serves(offered, r, d_ready)
  BY PeripheralStep DEF Edge, Control
<1>2. Counts /\ (c.word_busy <=> c.state # "idle")
  BY DEF Control, Timing, Counts, HandedOver
<1>3. c' \in Controllers /\ Goes /\ Ticks
  BY <1>2, ControllerStep DEF Edge, Control
<1> QED BY <1>1, <1>3 DEF Stepped

\* The types that the registers have, spelled out for one edge.
Typed == /\ p.state \in PState /\ c.state \in CState /\ p.word_rd \in BOOLEAN /\ p.word_wr \in BOOLEAN
         /\ c.wait \in 0 .. WAIT - 1 /\ c.refresh_counter \in 0 .. REFRESH_INTERVAL
         /\ c.refresh_pending \in BOOLEAN /\ c.req_pending \in BOOLEAN /\ c.req_is_write \in BOOLEAN
         /\ c.word_busy \in BOOLEAN /\ p.second \in BOOLEAN /\ p.more \in BOOLEAN

\* They follow from the type invariant.
LEMMA TypesSpelled ==
  ASSUME TypeOK
  PROVE  Typed
BY DEF TypeOK, Typed

\* The handover of commands survives an edge (word_rd, word_wr and word_busy).
LEMMA HandedOverStep ==
  ASSUME SdramAssumption, Control, NEW offered \in BOOLEAN, NEW r \in Request, NEW d_ready \in BOOLEAN,
         Stepped(offered, r, d_ready), SlowRefresh
  PROVE  HandedOver'
<1>1. Typed /\ WAIT \in Nat /\ WAIT > 0 /\ STAGES \in Nat /\ STAGES > 0 /\ REFRESH_INTERVAL \in Nat
  BY TypesSpelled DEF Control, SdramAssumption
<1>2. HandedOver
  BY DEF Control
<1>3. c'.word_busy <=> c'.state # "idle"
  BY DEF Stepped, Ticks
<1>4. p'.word_rd => p'.state = "read_wait_busy"
  BY <1>1
     DEF Stepped, Serves, Passes, Accepts, Commands, TakesWord, Merges, GoesOn, Ends, NoStrobe, Typed, PState
<1>5. p'.word_wr => p'.state = "write_wait_busy"
  BY <1>1
     DEF Stepped, Serves, Passes, Accepts, Commands, TakesWord, Merges, GoesOn, Ends, NoStrobe, Typed, PState
<1>6. Latch <=> ~c.req_pending /\ Strobe
  BY DEF Latch, Strobe
<1>7. ASSUME p'.state \in WaitBusy
      PROVE  \/ Strobe' /\ ~c'.req_pending /\ c'.state \in {"idle", "refresh"}
             \/ ~Strobe' /\ c'.req_pending /\ c'.state \in {"idle", "refresh"}
             \/ ~Strobe' /\ ~c'.req_pending /\ c'.state = "activate"
  <2>1. CASE p.state \in {"read_cmd", "write_cmd"}
    <3>1. c.state = "idle" /\ ~c.req_pending /\ ~Strobe
      BY <1>1, <1>2, <1>7, <2>1 DEF HandedOver, Stepped, Serves, Passes, WaitBusy, WaitDone, Strobe
    <3>2. Strobe'
      BY <1>1, <1>7, <2>1 DEF Stepped, Serves, Passes, Commands, WaitBusy, Strobe
    <3>3. ~c'.req_pending /\ c'.state \in {"idle", "refresh"}
      BY <1>6, <3>1 DEF Stepped, Goes, Ticks
    <3> QED BY <3>2, <3>3
  <2>2. CASE p.state \in WaitBusy
    <3>1. c.state = "idle" /\ ~Strobe'
      BY <1>1, <1>2, <1>7, <2>2 DEF HandedOver, Stepped, Serves, Passes, WaitBusy, Strobe, NoStrobe
    <3>2. (Strobe /\ ~c.req_pending) \/ (~Strobe /\ c.req_pending)
      BY <1>2, <2>2, <3>1 DEF HandedOver
    <3> QED BY <1>1, <1>6, <3>1, <3>2 DEF Stepped, Goes, Ticks
  <2>3. CASE p.state \notin {"read_cmd", "write_cmd"} \cup WaitBusy
    BY <1>1, <1>7, <2>3
       DEF Stepped, Serves, Passes, Accepts, TakesWord, Merges, GoesOn, Ends, Answers, WaitBusy, Typed, PState
  <2> QED BY <2>1, <2>2, <2>3
<1>8. ASSUME c'.req_pending
      PROVE  \/ p'.state \in WaitBusy
             \/ p'.state \in WaitDone /\ c'.state = "refresh_wait"
             \/ p'.state \in WaitDone /\ c'.state = "idle" /\ ~c'.refresh_pending
  <2>1. c.req_pending \/ Strobe
    BY <1>6, <1>8 DEF Stepped, Ticks
  <2>2. CASE p.state \in WaitBusy /\ c.state = "idle"
    BY <1>1, <1>2, <2>2 DEF HandedOver, Stepped, Serves, Passes, WaitBusy
  <2>3. CASE p.state \in WaitBusy /\ c.state = "refresh"
    BY <1>1, <1>2, <2>3 DEF HandedOver, Stepped, Serves, Passes, Goes, WaitBusy, WaitDone
  <2>4. CASE p.state \in WaitDone /\ c.state = "refresh_wait"
    <3>1. REFRESH_INTERVAL # 0 /\ ~c.refresh_pending /\ c.refresh_counter + c.wait <= REFRESH_INTERVAL - 2
      BY <1>1, <2>4 DEF Control, Timing, InTime
    <3>2. ~c'.refresh_pending
      <4>1. ~RefreshDue
        BY <1>1, <3>1 DEF Typed, RefreshDue
      <4> QED BY <3>1, <4>1 DEF Stepped, Ticks
    <3>3. p'.state \in WaitDone
      BY <1>1, <1>2, <2>4 DEF HandedOver, Stepped, Serves, Passes, WaitDone
    <3>4. c'.state \in {"refresh_wait", "idle"}
      BY <1>1, <2>4 DEF Stepped, Goes, Runs
    <3> QED BY <3>2, <3>3, <3>4
  <2>5. CASE p.state \in WaitDone /\ c.state = "idle" /\ ~c.refresh_pending
    BY <1>1, <1>2, <1>8, <2>1, <2>5 DEF HandedOver, Stepped, Ticks, Strobe, WaitDone
  <2> QED BY <1>1, <1>2, <2>1, <2>2, <2>3, <2>4, <2>5 DEF HandedOver, Strobe, WaitBusy, WaitDone
<1> QED BY <1>3, <1>4, <1>5, <1>7, <1>8 DEF HandedOver

\* What the controller works on stays the command given last (req_word_addr).
LEMMA WorksOnLastStep ==
  ASSUME SdramAssumption, Control, NEW offered \in BOOLEAN, NEW r \in Request, NEW d_ready \in BOOLEAN,
         Stepped(offered, r, d_ready), HandedOver'
  PROVE  WorksOnLast'
<1> DEFINE Carrying(s) == s \in {"activate", "activate_wait", "read_0", "read_1", "read_wait",
                              "write_0", "write_1"}
<1>1. Typed
  BY TypesSpelled DEF Control
<1>2. HandedOver /\ WorksOnLast
  BY DEF Control
<1>3. Latch <=> ~c.req_pending /\ Strobe
  BY DEF Latch, Strobe
<1>4. SUFFICES ASSUME c'.req_pending \/ Carrying(c'.state)
               PROVE  /\ c'.req_addr = p'.word_addr
                      /\ c'.req_is_write => c'.req_data = p'.word_data
  BY DEF WorksOnLast
<1>5. c.req_pending \/ Strobe \/ Carrying(c.state)
  BY <1>1, <1>3, <1>4 DEF Stepped, Goes, Ticks, Runs, Typed, CState
<1>6. KeepsCommand
  <2>1. CASE p.state \in {"read_cmd", "write_cmd"}
    <3>1. ~c.req_pending /\ ~Strobe
      BY <1>1, <1>2, <2>1 DEF HandedOver, WaitBusy, WaitDone, Strobe
    <3>2. c.word_busy
      BY <1>2, <1>5, <3>1 DEF HandedOver
    <3> QED BY <2>1, <3>2 DEF Stepped, Serves, Passes
  <2>2. CASE p.state \notin {"read_cmd", "write_cmd"}
    BY <1>1, <2>2
       DEF Stepped, Serves, Passes, Accepts, TakesWord, Merges, GoesOn, Ends, Typed, PState
  <2> QED BY <2>1, <2>2
<1>7. CASE Latch
  BY <1>6, <1>7 DEF Stepped, Ticks, KeepsCommand
<1>8. CASE ~Latch
  <2>1. c.req_pending \/ Carrying(c.state)
    BY <1>3, <1>5, <1>8
  <2>2. /\ c.req_addr = p.word_addr
        /\ c.req_is_write => c.req_data = p.word_data
    BY <1>2, <2>1 DEF WorksOnLast
  <2> QED BY <1>6, <1>8, <2>2 DEF Stepped, Ticks, KeepsCommand
<1> QED BY <1>7, <1>8

\* The capture pipeline moves its entries on by one stage (read_capture_valid_pipe).
LEMMA PipeStep ==
  ASSUME SdramAssumption
  PROVE  /\ c.pipe = PipeWith(0, 0) => /\ Shifted = PipeWith(0, 0)
                                       /\ [Shifted EXCEPT ![1] = "high"] = PipeWith(0, 1)
         /\ c.pipe = PipeWith(0, 1) => [Shifted EXCEPT ![1] = "low"] = PipeWith(1, 2)
         /\ \A low \in Stage : c.pipe = PipeWith(low, low + 1) =>
              /\ c.pipe[STAGES] = "low" => low = STAGES /\ Shifted = PipeWith(0, 0)
              /\ c.pipe[STAGES] # "low" => low + 1 \in Stage /\ Shifted = PipeWith(low + 1, low + 2)
<1>1. STAGES \in Nat /\ STAGES >= 2
  BY DEF SdramAssumption
<1>2. ASSUME c.pipe = PipeWith(0, 0)
      PROVE  /\ Shifted = PipeWith(0, 0)
             /\ [Shifted EXCEPT ![1] = "high"] = PipeWith(0, 1)
  BY <1>1, <1>2 DEF Shifted, PipeWith, Stage
<1>3. ASSUME c.pipe = PipeWith(0, 1)
      PROVE  [Shifted EXCEPT ![1] = "low"] = PipeWith(1, 2)
  <2>1. Shifted = PipeWith(0, 2)
    BY <1>1, <1>3 DEF Shifted, PipeWith, Stage
  <2> QED BY <1>1, <2>1 DEF PipeWith, Stage
<1>4. ASSUME NEW low \in Stage, c.pipe = PipeWith(low, low + 1)
      PROVE  /\ c.pipe[STAGES] = "low" => low = STAGES /\ Shifted = PipeWith(0, 0)
             /\ c.pipe[STAGES] # "low" => low + 1 \in Stage /\ Shifted = PipeWith(low + 1, low + 2)
  BY <1>1, <1>4 DEF Shifted, PipeWith, Stage
<1> QED BY <1>2, <1>3, <1>4

\* The timer of the refreshes: an access and a refresh are over in time
\* (REFRESH_SLIP_CYCLES).
LEMMA TimingStep ==
  ASSUME SdramAssumption, Control, NEW offered \in BOOLEAN, NEW r \in Request, NEW d_ready \in BOOLEAN,
         Stepped(offered, r, d_ready), SlowRefresh
  PROVE  Timing'
<1>1. Typed /\ WAIT \in Nat /\ WAIT > 0 /\ STAGES \in Nat /\ STAGES > 1 /\ REFRESH_INTERVAL \in Nat
  BY TypesSpelled DEF Control, SdramAssumption
<1>2. Timing /\ Goes /\ Ticks
  BY DEF Control, Stepped
<1>3. c' \in Controllers /\ c'.wait \in 0 .. WAIT - 1 /\ c'.refresh_counter \in 0 .. REFRESH_INTERVAL
  BY ControllerFields DEF Stepped
<1>4. REFRESH_INTERVAL = 0 => /\ c'.refresh_counter = 0 /\ ~c'.refresh_pending
                              /\ c'.state \notin {"refresh", "refresh_wait"}
  BY <1>1, <1>2 DEF Timing, Ticks, RefreshDue, Goes, Runs, Typed, CState
<1>5. REFRESH_INTERVAL # 0 => c'.refresh_counter < REFRESH_INTERVAL
  BY <1>1, <1>2 DEF Timing, Ticks, RefreshDue, Typed
<1>6. c'.state = "read_1" => c'.pipe = PipeWith(0, 1)
  BY <1>1, <1>2, PipeStep DEF Timing, Ticks, Goes, Runs, Typed, CState
<1>7. c'.state \notin {"read_1", "read_wait"} => c'.pipe = PipeWith(0, 0)
  BY <1>1, <1>2, PipeStep DEF Timing, Ticks, Goes, Runs, Typed, CState
<1>8. PICK low \in Stage : /\ c.state = "read_wait" => c.pipe = PipeWith(low, low + 1)
                           /\ REFRESH_INTERVAL # 0 => InTime(low)
  BY <1>2 DEF Timing
<1>9. PICK next \in Stage :
         /\ c.state = "read_1" => next = 1
         /\ c.state = "read_wait" /\ c.pipe[STAGES] # "low" => next = low + 1
  <2>1. 1 \in Stage
    BY <1>1 DEF Stage
  <2> QED BY <1>8, <2>1, PipeStep
<1>10. c'.state = "read_wait" => c'.pipe = PipeWith(next, next + 1)
  <2>1. CASE c.state = "read_1"
    BY <1>1, <1>2, <1>9, <2>1, PipeStep DEF Timing, Ticks
  <2>2. CASE c.state = "read_wait"
    BY <1>1, <1>2, <1>8, <1>9, <2>2, PipeStep DEF Ticks, Goes, Stage
  <2> QED BY <1>1, <1>2, <2>1, <2>2 DEF Goes, Runs, Typed, CState
<1>11. ASSUME REFRESH_INTERVAL # 0
       PROVE  InTime(next)'
  <2>1. REFRESH_INTERVAL >= 3 * WAIT + STAGES + 6
    BY <1>11 DEF SlowRefresh
  <2>2. c'.refresh_counter = IF RefreshDue THEN 0 ELSE c.refresh_counter + 1
    BY <1>2, <1>11 DEF Ticks
  <2>3. c'.refresh_pending => c'.refresh_counter = 0 \/ (c.refresh_pending /\ c'.refresh_counter = c.refresh_counter + 1)
    BY <1>2, <2>2 DEF Ticks
  <2>4. low \in Nat /\ next \in Nat /\ low <= STAGES /\ next <= STAGES /\ low > 0 /\ next > 0
    BY <1>1 DEF Stage
  <2>5. ASSUME NEW m \in Nat, NEW n \in Nat, m = Left(low), n = Left(next)',
               c.state \in Serving \cup {"idle"}, c'.state \in Serving \cup {"idle"},
               n <= 2 * WAIT + STAGES + 3, c.refresh_pending => n + 1 <= m
        PROVE  InTime(next)'
    <3>1. c'.state \notin {"refresh", "refresh_wait"}
      BY <2>5 DEF Serving
    <3>2. c.refresh_pending => c.refresh_counter + m <= REFRESH_INTERVAL - WAIT - 3
      BY <1>8, <1>11, <2>5 DEF InTime
    <3>3. c'.refresh_pending => c'.refresh_counter + n <= REFRESH_INTERVAL - WAIT - 3
      BY <1>1, <1>3, <2>1, <2>3, <2>5, <3>2 DEF Typed
    <3> QED BY <2>5, <3>1, <3>3 DEF InTime
  <2>6. CASE c.state \in {"init", "refresh_wait"}
    <3>1. c'.state \in {c.state, "idle"} /\ (c'.state = "refresh_wait" => c.wait # 0 /\ c'.wait = c.wait - 1)
      BY <1>2, <2>6 DEF Goes, Runs
    <3>2. c.state = "refresh_wait" => ~c.refresh_pending /\ c.refresh_counter + c.wait <= REFRESH_INTERVAL - 2
      BY <1>8, <1>11 DEF InTime
    <3>3. c.state = "refresh_wait" => ~RefreshDue
      BY <1>1, <3>2 DEF RefreshDue, Typed
    <3>4. c.state = "init" /\ c'.state = "idle" => c.wait = 0
      BY <1>2 DEF Goes, Runs
    <3>5. c'.state = "idle" => ~c'.refresh_pending
      BY <1>2, <2>6, <3>2, <3>3, <3>4 DEF Ticks
    <3>6. c'.state = "refresh_wait" => /\ c.state = "refresh_wait" /\ ~c'.refresh_pending
                                       /\ c'.refresh_counter + c'.wait <= REFRESH_INTERVAL - 2
      <4>1. SUFFICES ASSUME c'.state = "refresh_wait"
                     PROVE  /\ c.state = "refresh_wait" /\ ~c'.refresh_pending
                            /\ c'.refresh_counter + c'.wait <= REFRESH_INTERVAL - 2
        OBVIOUS
      <4>2. c.state = "refresh_wait"
        BY <2>6, <3>1, <4>1
      <4>3. ~c'.refresh_pending /\ c'.refresh_counter = c.refresh_counter + 1
        BY <1>2, <2>2, <3>2, <3>3, <4>2 DEF Ticks
      <4> QED BY <1>1, <3>1, <3>2, <4>1, <4>2, <4>3 DEF Typed
    <3> QED BY <2>6, <3>1, <3>5, <3>6 DEF InTime, Serving
  <2>7. CASE c.state = "idle"
    <3>1. CASE c.refresh_pending
      <4>1. Left(low) = 0
        BY <2>7 DEF Left
      <4>2. c.refresh_counter <= REFRESH_INTERVAL - WAIT - 3
        BY <1>1, <1>8, <1>11, <2>7, <3>1, <4>1 DEF InTime, Typed
      <4>3. c'.state = "refresh"
        BY <1>2, <2>7, <3>1 DEF Goes
      <4>4. c'.refresh_counter <= REFRESH_INTERVAL - WAIT - 2
        BY <1>1, <2>1, <2>2, <4>2 DEF Typed
      <4> QED BY <4>3, <4>4 DEF InTime, Serving
    <3>2. CASE ~c.refresh_pending
      <4>1. c'.state \in {"idle", "activate"}
        BY <1>2, <2>7, <3>2 DEF Goes
      <4>2. Left(low) = 0 /\ Left(next)' = IF c'.state = "idle" THEN 0 ELSE 2 * WAIT + STAGES + 3
        BY <2>7, <4>1 DEF Left
      <4> QED BY <1>1, <2>5, <2>7, <3>2, <4>1, <4>2 DEF Serving
    <3> QED BY <3>1, <3>2
  <2>8. CASE c.state = "refresh"
    <3>1. c'.state = "refresh_wait" /\ c'.wait = WAIT - 1 /\ ~c'.refresh_pending
      BY <1>2, <2>8 DEF Goes, Ticks
    <3>2. c.refresh_counter <= REFRESH_INTERVAL - WAIT - 2
      BY <1>8, <1>11, <2>8 DEF InTime
    <3>3. c'.refresh_counter + c'.wait <= REFRESH_INTERVAL - 2
      BY <1>1, <2>1, <2>2, <3>1, <3>2 DEF Typed
    <3> QED BY <3>1, <3>3 DEF InTime, Serving
  <2>9. CASE c.state = "activate"
    <3>1. c'.state = "activate_wait" /\ c'.wait = WAIT - 1
      BY <1>1, <1>2, <2>9 DEF Goes
    <3>2. Left(low) = 2 * WAIT + STAGES + 3 /\ Left(next)' = WAIT - 1 + WAIT + STAGES + 3
      BY <1>1, <2>9, <3>1 DEF Left
    <3> QED BY <1>1, <2>4, <2>5, <2>9, <3>1, <3>2 DEF Serving
  <2>10. CASE c.state = "activate_wait"
    <3>1. CASE c.wait = 0
      <4>1. c'.state \in {"write_0", "read_0"}
        BY <1>2, <2>10, <3>1 DEF Goes, Runs
      <4>2. Left(low) = c.wait + WAIT + STAGES + 3
            /\ Left(next)' = IF c'.state = "write_0" THEN WAIT + 2 ELSE WAIT + STAGES + 2
        BY <2>10, <4>1 DEF Left
      <4> QED BY <1>1, <2>5, <2>10, <3>1, <4>1, <4>2 DEF Serving
    <3>2. CASE c.wait # 0
      <4>1. c'.state = "activate_wait" /\ c'.wait = c.wait - 1
        BY <1>2, <2>10, <3>2 DEF Goes, Runs
      <4>2. Left(low) = c.wait + WAIT + STAGES + 3 /\ Left(next)' = c.wait - 1 + WAIT + STAGES + 3
        BY <2>10, <4>1 DEF Left
      <4> QED BY <1>1, <2>5, <2>10, <3>2, <4>1, <4>2 DEF Serving, Typed
    <3> QED BY <3>1, <3>2
  <2>11. CASE c.state \in {"read_recovery", "write_recovery"}
    <3>1. CASE c.wait = 0
      <4>1. c'.state = "idle"
        BY <1>2, <2>11, <3>1 DEF Goes, Runs
      <4>2. Left(low) = c.wait + 1 /\ Left(next)' = 0
        BY <2>11, <4>1 DEF Left
      <4> QED BY <1>1, <2>5, <2>11, <3>1, <4>1, <4>2 DEF Serving
    <3>2. CASE c.wait # 0
      <4>1. c'.state = c.state /\ c'.wait = c.wait - 1
        BY <1>2, <2>11, <3>2 DEF Goes, Runs
      <4>2. Left(low) = c.wait + 1 /\ Left(next)' = c.wait - 1 + 1
        BY <2>11, <4>1 DEF Left
      <4> QED BY <1>1, <2>5, <2>11, <3>2, <4>1, <4>2 DEF Serving, Typed
    <3> QED BY <3>1, <3>2
  <2>12. CASE c.state = "read_0"
    <3>1. c'.state = "read_1"
      BY <1>1, <1>2, <2>12 DEF Goes
    <3>2. Left(low) = WAIT + STAGES + 2 /\ Left(next)' = WAIT + STAGES + 1
      BY <1>1, <2>12, <3>1 DEF Left
    <3> QED BY <1>1, <2>4, <2>5, <2>12, <3>1, <3>2 DEF Serving
  <2>13. CASE c.state = "read_1"
    <3>1. c'.state = "read_wait" /\ next = 1
      BY <1>1, <1>2, <2>13, <1>9 DEF Goes
    <3>2. Left(low) = WAIT + STAGES + 1 /\ Left(next)' = WAIT + STAGES + 1 - next
      BY <1>1, <2>13, <3>1 DEF Left
    <3> QED BY <1>1, <2>4, <2>5, <2>13, <3>1, <3>2 DEF Serving
  <2>14. CASE c.state = "write_0"
    <3>1. c'.state = "write_1"
      BY <1>1, <1>2, <2>14 DEF Goes
    <3>2. Left(low) = WAIT + 2 /\ Left(next)' = WAIT + 1
      BY <1>1, <2>14, <3>1 DEF Left
    <3> QED BY <1>1, <2>4, <2>5, <2>14, <3>1, <3>2 DEF Serving
  <2>15. CASE c.state = "write_1"
    <3>1. c'.state = "write_recovery" /\ c'.wait = WAIT - 1
      BY <1>1, <1>2, <2>15 DEF Goes
    <3>2. Left(low) = WAIT + 1 /\ Left(next)' = WAIT - 1 + 1
      BY <1>1, <2>15, <3>1 DEF Left
    <3> QED BY <1>1, <2>4, <2>5, <2>15, <3>1, <3>2 DEF Serving
  <2>16. CASE c.state = "read_wait"
    <3>1. Left(low) = WAIT + STAGES + 1 - low
      BY <2>16 DEF Left
    <3>2. CASE c.pipe[STAGES] = "low"
      <4>1. c'.state = "read_recovery" /\ c'.wait = WAIT - 1 /\ low = STAGES
        BY <1>2, <1>8, <2>16, <3>2, PipeStep DEF Goes
      <4>2. Left(next)' = WAIT - 1 + 1
        BY <4>1 DEF Left
      <4> QED BY <1>1, <2>4, <2>5, <2>16, <3>1, <4>1, <4>2 DEF Serving
    <3>3. CASE c.pipe[STAGES] # "low"
      <4>1. c'.state = "read_wait" /\ next = low + 1
        BY <1>2, <1>9, <2>16, <3>3 DEF Goes
      <4>2. Left(next)' = WAIT + STAGES + 1 - next
        BY <4>1 DEF Left
      <4> QED BY <1>1, <2>4, <2>5, <2>16, <3>1, <4>1, <4>2 DEF Serving
    <3> QED BY <3>2, <3>3
  <2> QED BY <1>1, <2>6, <2>7, <2>8, <2>9, <2>10, <2>11, <2>12, <2>13, <2>14, <2>15, <2>16 DEF Typed, CState
<1> QED BY <1>4, <1>5, <1>6, <1>7, <1>9, <1>10, <1>11 DEF Timing

\* A request applied to the bytes of the window leaves bytes there.
LEMMA ApplyType ==
  ASSUME SdramAssumption, NEW m \in [0 .. WORDS * LANES - 1 -> Byte], NEW r \in Request
  PROVE  Apply(m, r) \in [0 .. WORDS * LANES - 1 -> Byte]
<1>1. r.addr \in Nat /\ r.bytes \in Nat /\ r.bytes <= LANES /\ r.wdata \in Word
      /\ LANES \in Nat /\ WORDS * LANES \in Nat
  BY RequestFields, Sizes
<1>2. ASSUME NEW a \in r.addr .. (r.addr + r.bytes - 1)
      PROVE  r.wdata[a - r.addr] \in Byte
  BY <1>1, <1>2 DEF Word, Lane
<1> QED BY <1>2 DEF Apply

\* The chip holds words (ST_WRITE_CMD_0 and ST_WRITE_CMD_1).
LEMMA ChipType ==
  ASSUME TypeOK, chip' = ChipNext
  PROVE  chip' \in [WordAddr -> Word]
<1>1. /\ chip \in [WordAddr -> Word] /\ c.req_addr \in WordAddr /\ c.req_data \in Word
      /\ chip[c.req_addr] \in Word
  BY DEF TypeOK
<1>2. /\ Replace(chip[c.req_addr], HighHalf, c.req_data) \in Word
      /\ Replace(chip[c.req_addr], LowHalf, c.req_data) \in Word
  BY <1>1 DEF Replace, Word
<1> QED BY <1>1, <1>2 DEF ChipNext

\* Every register keeps its type at an edge.
LEMMA TypesStep ==
  ASSUME SdramAssumption, TypeOK, NEW offered \in BOOLEAN, NEW r \in Request, NEW d_ready \in BOOLEAN,
         Edge(offered, r, d_ready), Stepped(offered, r, d_ready)
  PROVE  TypeOK'
<1>1. chip' \in [WordAddr -> Word]
  BY ChipType DEF Edge
<1>2. golden' \in [0 .. WORDS * LANES - 1 -> Byte]
  BY ApplyType DEF Edge, TypeOK
<1>3. p' \in Peripherals /\ c' \in Controllers
  BY DEF Stepped
<1> QED BY <1>1, <1>2, <1>3 DEF TypeOK, Peripherals, Controllers, Stage

\* A step is an edge.
LEMMA NextIsEdge ==
  ASSUME SdramAssumption, Next
  PROVE  \E offered \in BOOLEAN, r \in Request, d_ready \in BOOLEAN : Edge(offered, r, d_ready)
<1>1. NoReq \in Request
  BY Sizes DEF NoReq, Request, AccessBytes
<1> QED BY <1>1 DEF Next, Run, Start

\* Whatever is in step stays in step.
LEMMA ControlStep ==
  ASSUME SdramAssumption, SlowRefresh, Control, [Next]_vars
  PROVE  Control'
<1>1. CASE Next
  <2>1. PICK offered \in BOOLEAN, r \in Request, d_ready \in BOOLEAN : Edge(offered, r, d_ready)
    BY <1>1, NextIsEdge
  <2>2. Stepped(offered, r, d_ready)
    BY <2>1, EdgeStep
  <2>3. TypeOK'
    BY <2>1, <2>2, TypesStep DEF Control
  <2>4. HandedOver'
    BY <2>2, HandedOverStep
  <2>5. Timing'
    BY <2>2, TimingStep
  <2>6. WorksOnLast'
    BY <2>2, <2>4, WorksOnLastStep
  <2> QED BY <2>3, <2>4, <2>5, <2>6 DEF Control
<1>2. CASE UNCHANGED vars
  BY <1>2 DEF Control, TypeOK, HandedOver, Strobe, Timing, InTime, Left, WorksOnLast, vars
<1> QED BY <1>1, <1>2

\* After the reset nothing is under way.
LEMMA ControlInit ==
  ASSUME SdramAssumption, Init
  PROVE  Control
<1>1. WAIT \in Nat /\ WAIT > 0 /\ STAGES \in Nat /\ STAGES > 1 /\ REFRESH_INTERVAL \in Nat
      /\ 0 \in WordAddr /\ Zero \in Word /\ ZeroPair \in Pair
  BY Sizes DEF SdramAssumption, WordAddr
<1>2. TypeOK
  <2>1. p \in Peripherals
    <3>1. NoReq \in Request
      BY Sizes DEF NoReq, Request, AccessBytes
    <3>2. IsPeripheral(p) /\ PeripheralTyped(p)
      BY <1>1, <3>1 DEF Init, PInit, IsPeripheral, PeripheralTyped, PState
    <3> QED BY <3>2, PeripheralRecord
  <2>2. c \in Controllers
    BY <1>1 DEF Init, CInit, Controllers, CState, Stage
  <2>3. chip \in [WordAddr -> Word] /\ golden \in [0 .. WORDS * LANES - 1 -> Byte]
    BY <1>1, Sizes DEF Init
  <2> QED BY <2>1, <2>2, <2>3 DEF TypeOK, Peripherals, Controllers, Stage
<1>3. p.state = "idle" /\ ~p.word_rd /\ ~p.word_wr
  BY DEF Init, PInit
<1>4. c.state = "init" /\ c.word_busy /\ ~c.req_pending /\ ~c.refresh_pending /\ c.refresh_counter = 0
      /\ c.pipe = PipeWith(0, 0)
  BY <1>1 DEF Init, CInit, PipeWith, Stage
<1>5. HandedOver /\ WorksOnLast
  BY <1>3, <1>4 DEF HandedOver, WorksOnLast, WaitBusy
<1>6. Timing
  <2>1. 1 \in Stage
    BY <1>1 DEF Stage
  <2>2. InTime(1)
    BY <1>4 DEF InTime, Serving
  <2> QED BY <1>1, <1>4, <2>1, <2>2 DEF Timing
<1> QED BY <1>2, <1>5, <1>6 DEF Control

\* What keeps in step gives what the runs check.
LEMMA ControlImplies ==
  ASSUME Control
  PROVE  ControlInv
<1>1. p.word_rd \/ p.word_wr => p.state \in WaitBusy /\ ~(p.word_rd /\ p.word_wr)
  BY DEF Control, HandedOver, WaitBusy
<1>2. StrobeLatched
  BY <1>1 DEF Control, HandedOver, Strobe, StrobeLatched
<1> QED BY <1>2 DEF Control, ControlInv

\* Wherever refreshes fall, no strobe of the peripheral is dropped, and the
\* controller carries out what the peripheral asked for last: for every number
\* of words, every delay, and every interval between refreshes that an access
\* and a refresh fit into (sdram_peripheral.sv:327, sdram_controller.sv:242).
THEOREM ControlSafe ==
  ASSUME SdramAssumption, SlowRefresh
  PROVE  Spec => []ControlInv
<1>1. Init => Control
  BY ControlInit
<1>2. Control /\ [Next]_vars => Control'
  BY ControlStep
<1>3. Control => ControlInv
  BY ControlImplies
<1> QED BY <1>1, <1>2, <1>3, PTL DEF Spec

(***************************************************************************)
(* Without refreshes                                                       *)
(***************************************************************************)

\* Outside of its commands the peripheral has the controller to itself, and a
\* command is either waiting to be seen or being carried out.
LEMMA Phases ==
  ASSUME Control, InStep, REFRESH_INTERVAL = 0
  PROVE  /\ c.state \notin {"refresh", "refresh_wait"} /\ ~c.refresh_pending
         /\ p.state \notin WaitBusy \cup WaitDone =>
              c.state \in {"init", "idle"} /\ ~c.req_pending /\ ~Latch
         /\ p.state \in WaitBusy =>
              \/ c.state = "idle" /\ ~c.word_busy /\ (Latch \/ c.req_pending)
              \/ c.state = "activate" /\ c.word_busy /\ ~c.req_pending /\ ~Latch
         /\ p.state \in WaitDone =>
              c.state \in Serving \cup {"idle"} /\ ~c.req_pending /\ ~Latch
         /\ c.word_busy <=> c.state # "idle"
<1>1. Typed /\ HandedOver /\ Timing
  BY TypesSpelled DEF Control
<1>2. c.state \notin {"refresh", "refresh_wait"} /\ ~c.refresh_pending
  BY <1>1 DEF Timing
<1>3. Latch => p.state \in WaitBusy
  BY <1>1 DEF HandedOver, Latch, WaitBusy
<1>4. Latch <=> ~c.req_pending /\ Strobe
  BY DEF Latch, Strobe
<1>5. p.state \notin WaitBusy \cup WaitDone =>
        c.state \in {"init", "idle"} /\ ~c.req_pending /\ ~Latch
  BY <1>1, <1>3 DEF HandedOver, InStep
<1>6. p.state \in WaitBusy =>
        \/ c.state = "idle" /\ ~c.word_busy /\ (Latch \/ c.req_pending)
        \/ c.state = "activate" /\ c.word_busy /\ ~c.req_pending /\ ~Latch
  BY <1>1, <1>2, <1>4 DEF HandedOver
<1>7. p.state \in WaitDone => c.state \in Serving \cup {"idle"} /\ ~c.req_pending /\ ~Latch
  BY <1>3 DEF InStep, WaitBusy, WaitDone
<1> QED BY <1>1, <1>2, <1>5, <1>6, <1>7 DEF HandedOver

\* The peripheral and the controller go through a command together.
LEMMA InStepStep ==
  ASSUME SdramAssumption, REFRESH_INTERVAL = 0, Control, InStep,
         NEW offered \in BOOLEAN, NEW r \in Request, NEW d_ready \in BOOLEAN,
         Stepped(offered, r, d_ready)
  PROVE  InStep'
<1>1. Typed /\ InStep
  BY TypesSpelled DEF Control
<1>2. /\ c.state \notin {"refresh", "refresh_wait"} /\ ~c.refresh_pending
      /\ Goes /\ Ticks /\ Serves(offered, r, d_ready)
  BY Phases DEF Stepped
<1>3. CASE p.state \notin WaitBusy \cup WaitDone
  <2>1. c.state \in {"init", "idle"} /\ ~c.req_pending /\ ~Latch /\ (c.word_busy <=> c.state # "idle")
    BY <1>3, Phases
  <2>2. c'.state \in {"init", "idle"} /\ ~c'.req_pending
    BY <1>2, <2>1 DEF Goes, Runs, Ticks
  <2>3. CASE p'.state \in WaitBusy \cup WaitDone
    <3>1. PICK wr \in BOOLEAN : Commands(d_ready, wr) /\ ~c.word_busy
      BY <1>1, <1>2, <1>3, <2>3
         DEF Serves, Passes, Accepts, Merges, Ends, Answers, WaitBusy, WaitDone, Typed, PState
    <3>2. c'.state = "idle"
      BY <1>2, <2>1, <3>1 DEF Goes
    <3>3. p'.word_addr = ActiveWord'
      BY <3>1 DEF Commands, KeepsAccess, ActiveWord
    <3>4. p'.state = "write_wait_busy" => p'.word_data = Half(p'.write, p'.second)
      BY <3>1 DEF Commands, KeepsAccess
    <3> QED BY <2>2, <3>1, <3>2, <3>3, <3>4 DEF InStep, Commands, WaitBusy, WaitDone
  <2>4. CASE p'.state \notin WaitBusy \cup WaitDone
    BY <2>2, <2>4 DEF InStep, WaitBusy, WaitDone
  <2> QED BY <2>3, <2>4
<1>4. CASE p.state \in WaitBusy
  <2>1. /\ p'.state = IF c.word_busy THEN IF p.state = "read_wait_busy" THEN "read_wait_done" ELSE "write_wait_done"
                      ELSE p.state
        /\ KeepsAccess /\ KeepsCommand
    BY <1>2, <1>4 DEF Serves, Passes, WaitBusy
  <2>2. /\ p'.word_addr = ActiveWord'
        /\ p'.state \in {"write_wait_busy", "write_wait_done"} => p'.word_data = Half(p'.write, p'.second)
    BY <1>1, <1>4, <2>1 DEF InStep, KeepsAccess, KeepsCommand, ActiveWord, WaitBusy
  <2>3. CASE c.state = "idle" /\ ~c.word_busy /\ (Latch \/ c.req_pending)
    <3>1. Latch => (p.word_wr <=> p.state = "write_wait_busy")
      BY <1>4 DEF Control, HandedOver, Latch, WaitBusy
    <3>2. c'.req_is_write <=> p'.state = "write_wait_busy"
      BY <1>1, <1>2, <1>4, <2>1, <2>3, <3>1 DEF Ticks, InStep, WaitBusy, Latch
    <3>3. c'.state \in {"idle", "activate"}
      BY <1>2, <2>3 DEF Goes
    <3> QED BY <1>4, <2>1, <2>2, <2>3, <3>2, <3>3 DEF InStep, WaitBusy, WaitDone
  <2>4. CASE c.state = "activate" /\ c.word_busy /\ ~c.req_pending /\ ~Latch
    <3>1. c'.state = "activate_wait" /\ ~c'.req_pending /\ (c'.req_is_write <=> c.req_is_write)
      BY <1>2, <2>4 DEF Goes, Ticks
    <3> QED BY <1>1, <1>4, <2>1, <2>2, <2>4, <3>1 DEF InStep, WaitBusy, WaitDone, Serving
  <2> QED BY <1>4, <2>3, <2>4, Phases
<1>5. CASE p.state \in WaitDone
  <2>1. /\ c.state \in Serving \cup {"idle"} /\ ~c.req_pending /\ ~Latch /\ (c.word_busy <=> c.state # "idle")
    BY <1>5, Phases
  <2>2. ~c'.req_pending /\ (c'.req_is_write <=> c.req_is_write)
    BY <1>2, <2>1 DEF Ticks
  <2>3. CASE c.state = "idle"
    <3>1. c'.state = "idle"
      BY <1>2, <2>1, <2>3 DEF Goes
    <3>2. p'.state \notin WaitBusy \cup WaitDone
      BY <1>2, <1>5, <2>1, <2>3 DEF Serves, TakesWord, GoesOn, Ends, Answers, WaitBusy, WaitDone
    <3> QED BY <2>2, <3>1, <3>2 DEF InStep, WaitBusy, WaitDone
  <2>4. CASE c.state # "idle"
    <3>1. p'.state = p.state /\ KeepsAccess /\ KeepsCommand
      BY <1>2, <1>5, <2>1, <2>4 DEF Serves, Passes, WaitDone
    <3>2. /\ p'.word_addr = ActiveWord'
          /\ p'.state = "write_wait_done" => p'.word_data = Half(p'.write, p'.second)
      BY <1>1, <1>5, <3>1 DEF InStep, KeepsAccess, KeepsCommand, ActiveWord, WaitDone
    <3>3. c'.state \in Serving \cup {"idle"}
      BY <1>2, <2>1, <2>4 DEF Goes, Runs, Serving
    <3>4. /\ c'.state \in {"activate", "activate_wait"} => (c'.req_is_write <=> p'.state = "write_wait_done")
          /\ c'.state \in {"read_0", "read_1", "read_wait", "read_recovery"} => p'.state = "read_wait_done"
          /\ c'.state \in {"write_0", "write_1", "write_recovery"} => p'.state = "write_wait_done" /\ c'.req_is_write
      BY <1>1, <1>2, <1>5, <2>1, <2>2, <2>4, <3>1 DEF InStep, Goes, Runs, WaitDone, Serving
    <3> QED BY <1>5, <2>2, <3>1, <3>2, <3>3, <3>4 DEF InStep, WaitBusy, WaitDone
  <2> QED BY <2>3, <2>4
<1> QED BY <1>3, <1>4, <1>5

\* A word of which the upper half is right is right once the lower half is.
LEMMA BothHalves ==
  ASSUME NEW w \in Word, NEW v \in Word, \A l \in HighHalf : w[l] = v[l]
  PROVE  Replace(w, LowHalf, v) = v
<1>1. \A l \in Lane : Replace(w, LowHalf, v)[l] = v[l]
  BY DEF Replace, HighHalf
<1> QED BY <1>1 DEF Replace, Word

\* Only the word that a write has come to changes (ST_WRITE_CMD_0, ST_WRITE_CMD_1).
LEMMA ChipKeeps ==
  ASSUME TypeOK, chip' = ChipNext
  PROVE  /\ c.state \notin {"write_0", "write_1"} => chip' = chip
         /\ \A a \in WordAddr : a # c.req_addr => chip'[a] = chip[a]
         /\ c.state = "write_0" => chip'[c.req_addr] = Replace(chip[c.req_addr], HighHalf, c.req_data)
         /\ c.state = "write_1" => chip'[c.req_addr] = Replace(chip[c.req_addr], LowHalf, c.req_data)
BY DEF ChipNext, TypeOK

\* What a command moves arrives: the upper half, then the lower half.
LEMMA WordMovesStep ==
  ASSUME SdramAssumption, REFRESH_INTERVAL = 0, Control, InStep, WordMoves, InStep',
         NEW offered \in BOOLEAN, NEW r \in Request, NEW d_ready \in BOOLEAN,
         Edge(offered, r, d_ready), Stepped(offered, r, d_ready)
  PROVE  WordMoves'
<1>1. Typed /\ TypeOK /\ Timing /\ WorksOnLast /\ STAGES \in Nat /\ STAGES > 1
  BY TypesSpelled DEF Control, SdramAssumption
<1>2. Goes /\ Ticks /\ Serves(offered, r, d_ready)
  BY DEF Stepped
<1>3. chip' = ChipNext /\ chip \in [WordAddr -> Word] /\ p.word_addr \in WordAddr
      /\ chip[p.word_addr] \in Word /\ p.word_data \in Word /\ c.read_high \in Word
  BY <1>1 DEF Edge, TypeOK
<1>4. ASSUME p.state \in WaitDone, c.state \in Serving
      PROVE  p'.state = p.state /\ p'.word_addr = p.word_addr /\ p'.word_data = p.word_data
  BY <1>2, <1>4, Phases DEF Serves, Passes, KeepsCommand, WaitDone, Serving
<1>5. ASSUME c'.state = "read_wait", c'.pipe[STAGES] = "low"
      PROVE  \A l \in HighHalf : c'.read_high[l] = chip'[p'.word_addr][l]
  <2>1. c.state \in {"read_1", "read_wait"}
    BY <1>1, <1>2, <1>5 DEF Goes, Runs, Typed, CState
  <2>2. c.state = "read_wait"
    <3>1. SUFFICES ASSUME c.state = "read_1"
                   PROVE  FALSE
      BY <2>1
    <3>2. c'.pipe = PipeWith(1, 2)
      BY <1>1, <1>2, <3>1, PipeStep DEF Ticks, Timing
    <3> QED BY <1>1, <1>5, <3>2 DEF PipeWith, Stage
  <2>3. PICK low \in Stage : c.pipe = PipeWith(low, low + 1)
    BY <1>1, <2>2 DEF Timing
  <2>4. c.pipe[STAGES] # "low"
    BY <1>2, <1>5, <2>2 DEF Goes
  <2>5. c'.pipe = PipeWith(low + 1, low + 2) /\ low + 1 \in Stage
    BY <1>2, <2>2, <2>3, <2>4, PipeStep DEF Ticks
  <2>6. low + 1 = STAGES
    BY <1>1, <1>5, <2>5 DEF PipeWith, Stage
  <2>7. c.pipe[STAGES] = "high"
    BY <1>1, <2>3, <2>6 DEF PipeWith, Stage
  <2>8. c'.read_high = Replace(c.read_high, HighHalf, chip[c.req_addr])
    BY <1>2, <2>2, <2>7 DEF Ticks
  <2>9. p.state = "read_wait_done" /\ c.req_addr = p.word_addr
    BY <1>1, <2>2 DEF InStep, WorksOnLast
  <2>10. p'.word_addr = p.word_addr /\ chip' = chip
    BY <1>1, <1>3, <1>4, <2>2, <2>9, ChipKeeps DEF WaitDone, Serving
  <2> QED BY <2>8, <2>9, <2>10 DEF Replace, HighHalf
<1>6. ASSUME p'.state = "read_wait_done", c'.state \in {"read_recovery", "idle"}
      PROVE  c'.word_q = chip'[p'.word_addr]
  <2>1. p.state = "read_wait_done" /\ c.word_busy
    <3>1. p.state \in {"read_wait_busy", "read_wait_done"} /\ c.word_busy
      BY <1>1, <1>2, <1>6
         DEF Serves, Passes, Accepts, Commands, TakesWord, Merges, GoesOn, Ends, Answers, Typed, PState
    <3>2. p.state # "read_wait_busy"
      BY <1>2, <1>6, <3>1, Phases DEF Goes, WaitBusy
    <3> QED BY <3>1, <3>2
  <2>2. c.state \in Serving /\ c.state \notin {"write_0", "write_1", "write_recovery"}
    BY <2>1, Phases DEF WaitDone, InStep
  <2>3. p'.word_addr = p.word_addr /\ chip' = chip
    BY <1>1, <1>3, <1>4, <2>1, <2>2, ChipKeeps DEF WaitDone
  <2>4. CASE c.state = "read_wait"
    <3>1. c.pipe[STAGES] = "low"
      BY <1>2, <1>6, <2>4 DEF Goes
    <3>2. c'.word_q = Replace(c.read_high, LowHalf, chip[c.req_addr])
      BY <1>2, <2>4, <3>1 DEF Ticks
    <3>3. c.req_addr = p.word_addr
      BY <1>1, <2>4 DEF WorksOnLast
    <3>4. \A l \in HighHalf : c.read_high[l] = chip[p.word_addr][l]
      BY <2>4, <3>1 DEF WordMoves
    <3> QED BY <1>3, <2>3, <3>2, <3>3, <3>4, BothHalves
  <2>5. CASE c.state = "read_recovery"
    <3>1. c.word_q = chip[p.word_addr]
      BY <2>1, <2>5 DEF WordMoves
    <3> QED BY <1>2, <2>3, <2>5, <3>1 DEF Ticks
  <2> QED BY <1>1, <1>2, <1>6, <2>2, <2>4, <2>5 DEF Goes, Runs, Serving
<1>7. ASSUME c'.state = "write_1"
      PROVE  \A l \in HighHalf : chip'[p'.word_addr][l] = p'.word_data[l]
  <2>1. c.state = "write_0"
    BY <1>1, <1>2, <1>7 DEF Goes, Runs, Typed, CState
  <2>2. p.state = "write_wait_done" /\ c.req_addr = p.word_addr /\ c.req_data = p.word_data
    BY <1>1, <2>1 DEF InStep, WorksOnLast
  <2>3. p'.word_addr = p.word_addr /\ p'.word_data = p.word_data
    BY <1>4, <2>1, <2>2 DEF WaitDone, Serving
  <2>4. chip'[p.word_addr] = Replace(chip[p.word_addr], HighHalf, p.word_data)
    BY <1>1, <1>3, <2>1, <2>2, ChipKeeps
  <2> QED BY <2>3, <2>4 DEF Replace, HighHalf
<1>8. ASSUME p'.state = "write_wait_done", c'.state \in {"write_recovery", "idle"}
      PROVE  chip'[p'.word_addr] = p'.word_data
  <2>1. p.state = "write_wait_done" /\ c.word_busy
    <3>1. p.state \in {"write_wait_busy", "write_wait_done"} /\ c.word_busy
      BY <1>1, <1>2, <1>8
         DEF Serves, Passes, Accepts, Commands, TakesWord, Merges, GoesOn, Ends, Answers, Typed, PState
    <3>2. p.state # "write_wait_busy"
      BY <1>2, <1>8, <3>1, Phases DEF Goes, WaitBusy
    <3> QED BY <3>1, <3>2
  <2>2. c.state \in Serving /\ c.state \notin {"read_0", "read_1", "read_wait", "read_recovery"}
    BY <2>1, Phases DEF WaitDone, InStep
  <2>3. p'.word_addr = p.word_addr /\ p'.word_data = p.word_data
    BY <1>4, <2>1, <2>2 DEF WaitDone
  <2>4. CASE c.state = "write_1"
    <3>1. c.req_addr = p.word_addr /\ c.req_data = p.word_data
      BY <1>1, <2>4 DEF InStep, WorksOnLast
    <3>2. \A l \in HighHalf : chip[p.word_addr][l] = p.word_data[l]
      BY <2>4 DEF WordMoves
    <3>3. chip'[p.word_addr] = Replace(chip[p.word_addr], LowHalf, p.word_data)
      BY <1>1, <1>3, <2>4, <3>1, ChipKeeps
    <3> QED BY <1>3, <2>3, <3>2, <3>3, BothHalves
  <2>5. CASE c.state = "write_recovery"
    <3>1. chip[p.word_addr] = p.word_data
      BY <2>1, <2>5 DEF WordMoves
    <3> QED BY <1>1, <1>3, <2>3, <2>5, <3>1, ChipKeeps
  <2> QED BY <1>1, <1>2, <1>8, <2>2, <2>4, <2>5 DEF Goes, Runs, Serving
<1> QED BY <1>5, <1>6, <1>7, <1>8 DEF WordMoves

\* Bytes of the window and lanes of its words.
LEMMA Bytes ==
  ASSUME SdramAssumption
  PROVE  /\ \A a \in WordAddr, l \in Lane : /\ a * LANES + l \in 0 .. WORDS * LANES - 1
                                            /\ (a * LANES + l) \div LANES = a /\ (a * LANES + l) % LANES = l
         /\ \A x \in 0 .. WORDS * LANES - 1 : /\ x \div LANES \in WordAddr /\ x % LANES \in Lane
                                              /\ x = (x \div LANES) * LANES + (x % LANES)
<1>1. CASE LANES = 2
  BY <1>1, Sizes DEF WordAddr, Lane
<1>2. CASE LANES = 4
  BY <1>2, Sizes DEF WordAddr, Lane
<1> QED BY <1>1, <1>2, Sizes

\* Where an access in the window lies (req_word_base_addr, in_req_split).
LEMMA Place ==
  ASSUME SdramAssumption, NEW r \in Request, InRange(r), NEW b, b = r.addr \div LANES
  PROVE  /\ b \in WordAddr /\ BaseWord(r) = b /\ (BaseWord(r) + 0) % WORDS = b
         /\ r.addr = b * LANES + Offset(r) /\ Offset(r) \in Lane
         /\ r.bytes \in Nat /\ r.bytes > 0 /\ r.bytes <= LANES
         /\ Split(r) => b + 1 \in WordAddr /\ (BaseWord(r) + 1) % WORDS = b + 1
<1>1. /\ r.addr \in Nat /\ r.bytes \in Nat /\ r.bytes > 0 /\ r.bytes <= LANES /\ Offset(r) \in Lane
      /\ r.addr + r.bytes <= WORDS * LANES
  BY RequestFields, Sizes DEF InRange
<1>2. /\ b \in Nat /\ r.addr = b * LANES + Offset(r) /\ b < WORDS
      /\ Split(r) => b + 1 < WORDS
  <2>1. PICK n \in Nat, o \in Nat, k \in Nat, w \in Nat : n = r.addr /\ o = Offset(r) /\ k = r.bytes /\ w = WORDS
    BY <1>1, Sizes DEF Lane
  <2>2. CASE LANES = 2
    <3>1. n + k <= 2 * w /\ b = n \div 2 /\ o = n % 2 /\ k > 0
      BY <1>1, <2>1, <2>2 DEF Offset
    <3>2. b \in Nat /\ n = 2 * b + o /\ o \in 0 .. 1
      BY <3>1
    <3>3. b < w /\ (o + k > 2 => b + 1 < w)
      BY <3>1, <3>2
    <3>4. b * LANES = 2 * b
      BY <2>2, <3>2
    <3> QED BY <2>1, <2>2, <3>2, <3>3, <3>4 DEF Split
  <2>3. CASE LANES = 4
    <3>1. n + k <= 4 * w /\ b = n \div 4 /\ o = n % 4 /\ k > 0
      BY <1>1, <2>1, <2>3 DEF Offset
    <3>2. b \in Nat /\ n = 4 * b + o /\ o \in 0 .. 3
      BY <3>1
    <3>3. b < w /\ (o + k > 4 => b + 1 < w)
      BY <3>1, <3>2
    <3>4. b * LANES = 4 * b
      BY <2>3, <3>2
    <3> QED BY <2>1, <2>3, <3>2, <3>3, <3>4 DEF Split
  <2> QED BY <2>2, <2>3, Sizes
<1>3. \A n \in Nat : n < WORDS => n % WORDS = n
  BY Sizes
<1>4. BaseWord(r) = b /\ (BaseWord(r) + 0) % WORDS = b
  BY <1>2, <1>3 DEF BaseWord
<1>5. Split(r) => b + 1 \in WordAddr /\ (BaseWord(r) + 1) % WORDS = b + 1
  <2>1. PICK k \in Nat : k = b + 1
    BY <1>2
  <2>2. Split(r) => k < WORDS /\ k % WORDS = k
    BY <1>2, <1>3, <2>1
  <2>3. Split(r) => k \in WordAddr
    BY <2>2, Sizes DEF WordAddr
  <2> QED BY <1>4, <2>1, <2>2, <2>3
<1>6. b \in WordAddr
  BY <1>2, Sizes DEF WordAddr
<1> QED BY <1>1, <1>2, <1>4, <1>5, <1>6

\* Lane l of word a is the byte i of an access at lane o of word b when it is byte
\* l - o of word b, or that of the word behind it.
LEMMA SameByte ==
  ASSUME SdramAssumption
  PROVE  \A a, b, k \in Nat, l, o \in Lane : k <= LANES =>
           /\ a * LANES + l \in (b * LANES + o) .. (b * LANES + o + k - 1) <=>
                (a = b /\ l \in o .. (o + k - 1)) \/ (a = b + 1 /\ LANES + l \in o .. (o + k - 1))
           /\ a = b => (a * LANES + l) - (b * LANES + o) = l - o
           /\ a = b + 1 => (a * LANES + l) - (b * LANES + o) = (LANES + l) - o
<1>1. CASE LANES = 2
  BY <1>1 DEF Lane
<1>2. CASE LANES = 4
  BY <1>2 DEF Lane
<1> QED BY <1>1, <1>2, Sizes

\* What an accepted write makes of one byte of the window.
LEMMA ApplyByte ==
  ASSUME SdramAssumption, NEW m \in [0 .. WORDS * LANES - 1 -> Byte], NEW r \in Request, InRange(r), r.we,
         NEW a \in WordAddr, NEW l \in Lane, NEW b, b = r.addr \div LANES
  PROVE  Apply(m, r)[a * LANES + l] =
           IF a = b /\ l \in Touched(r) THEN r.wdata[l - Offset(r)]
           ELSE IF a = b + 1 /\ LANES + l \in Touched(r) THEN r.wdata[(LANES + l) - Offset(r)]
                ELSE m[a * LANES + l]
<1>1. a * LANES + l \in 0 .. WORDS * LANES - 1
  BY Bytes
<1>2. /\ b \in WordAddr /\ r.addr = b * LANES + Offset(r) /\ Offset(r) \in Lane
      /\ r.bytes \in Nat /\ r.bytes > 0 /\ r.bytes <= LANES
  BY Place
<1>3. PICK x \in 0 .. WORDS * LANES - 1 : x = a * LANES + l
  BY <1>1
<1>4. Apply(m, r)[x] = IF x \in r.addr .. (r.addr + r.bytes - 1) THEN r.wdata[x - r.addr] ELSE m[x]
  BY DEF Apply
<1>5. /\ x \in r.addr .. (r.addr + r.bytes - 1) <=>
           (a = b /\ l \in Touched(r)) \/ (a = b + 1 /\ LANES + l \in Touched(r))
      /\ a = b => x - r.addr = l - Offset(r)
      /\ a = b + 1 => x - r.addr = (LANES + l) - Offset(r)
  <2>1. a \in Nat /\ b \in Nat /\ r.bytes \in Nat /\ r.bytes <= LANES /\ l \in Lane /\ Offset(r) \in Lane
    BY <1>2 DEF WordAddr
  <2>2. /\ a * LANES + l \in (b * LANES + Offset(r)) .. (b * LANES + Offset(r) + r.bytes - 1) <=>
             (a = b /\ l \in Offset(r) .. (Offset(r) + r.bytes - 1))
             \/ (a = b + 1 /\ LANES + l \in Offset(r) .. (Offset(r) + r.bytes - 1))
        /\ a = b => (a * LANES + l) - (b * LANES + Offset(r)) = l - Offset(r)
        /\ a = b + 1 => (a * LANES + l) - (b * LANES + Offset(r)) = (LANES + l) - Offset(r)
    BY <2>1, SameByte
  <2>3. /\ x \in (b * LANES + Offset(r)) .. (b * LANES + Offset(r) + r.bytes - 1) <=>
             (a = b /\ l \in Touched(r)) \/ (a = b + 1 /\ LANES + l \in Touched(r))
        /\ a = b => x - (b * LANES + Offset(r)) = l - Offset(r)
        /\ a = b + 1 => x - (b * LANES + Offset(r)) = (LANES + l) - Offset(r)
    BY <1>3, <2>2, Zenon DEF Touched
  <2> QED BY <1>2, <2>3, Zenon
<1>6. b # b + 1
  BY <1>2 DEF WordAddr
<1> QED BY <1>3, <1>4, <1>5, <1>6

\* The progress of an access through its words (req_second_word, req_more).
LEMMA AccessStep ==
  ASSUME SdramAssumption, Control, Access, NEW offered \in BOOLEAN, NEW r \in Request, NEW d_ready \in BOOLEAN,
         Stepped(offered, r, d_ready)
  PROVE  Access'
<1>1. Typed /\ Serves(offered, r, d_ready) /\ Access
  BY TypesSpelled DEF Control, Stepped
<1>2. r.we /\ WholeWord(r) => ~Split(r)
  BY RequestFields, Sizes DEF WholeWord, Split
<1>3. CASE p.state = "idle"
  BY <1>1, <1>2, <1>3
     DEF Serves, Passes, Accepts, Answers, Access, KeepsAccess, Silent, AReady, Reading, Writing
<1>4. CASE p.state \in {"read_cmd", "write_cmd"}
  BY <1>1, <1>4 DEF Serves, Passes, Commands, Access, KeepsAccess, Silent, Reading, Writing
<1>5. CASE p.state \in WaitBusy
  BY <1>1, <1>5 DEF Serves, Passes, Access, KeepsAccess, Silent, Reading, Writing, WaitBusy
<1>6. CASE p.state = "read_wait_done"
  BY <1>1, <1>6 DEF Serves, Passes, TakesWord, Access, KeepsAccess, Silent, Reading, Writing
<1>7. CASE p.state = "read_process"
  BY <1>1, <1>7 DEF Serves, Merges, Ends, Answers, Access, KeepsAccess, Silent, Reading, Writing
<1>8. CASE p.state = "write_wait_done"
  BY <1>1, <1>8 DEF Serves, Passes, GoesOn, Ends, Answers, Access, KeepsAccess, Silent, Reading, Writing
<1>9. CASE p.state = "respond"
  BY <1>1, <1>9 DEF Serves, Passes, Access, KeepsAccess, Silent, Reading, Writing
<1> QED BY <1>1, <1>3, <1>4, <1>5, <1>6, <1>7, <1>8, <1>9 DEF Typed, PState, WaitBusy

\* The word that an access has come to (active_read_word_addr, active_write_word_addr).
LEMMA ActiveIs ==
  ASSUME SdramAssumption, TypeOK, Access, p.state \in Reading \cup Writing
  PROVE  /\ InRange(p.req) /\ p.req \in Request /\ Base \in WordAddr
         /\ ActiveWord = IF p.second THEN Base + 1 ELSE Base
         /\ p.second => Split(p.req)
         /\ Split(p.req) => Base + 1 \in WordAddr
         /\ Base # Base + 1
<1>1. InRange(p.req) /\ p.req \in Request /\ (p.second => Split(p.req)) /\ p.second \in BOOLEAN
  BY DEF Access, TypeOK, Reading, Writing
<1>2. /\ Base \in WordAddr /\ (BaseWord(p.req) + 0) % WORDS = Base
      /\ Split(p.req) => Base + 1 \in WordAddr /\ (BaseWord(p.req) + 1) % WORDS = Base + 1
  BY <1>1, Place DEF Base
<1>3. ActiveWord = IF p.second THEN Base + 1 ELSE Base
  BY <1>1, <1>2 DEF ActiveWord
<1>4. Base # Base + 1
  BY <1>2 DEF WordAddr
<1> QED BY <1>1, <1>2, <1>3, <1>4

\* Memory changes while a word is written, and what it should be when a request
\* is accepted.
LEMMA Still ==
  ASSUME TypeOK, InStep, NEW offered \in BOOLEAN, NEW r \in Request, NEW d_ready \in BOOLEAN,
         Edge(offered, r, d_ready)
  PROVE  /\ p.state # "write_wait_done" => chip' = chip
         /\ c.state = "idle" => chip' = chip
         /\ p.state # "idle" => golden' = golden
<1>1. c.state \in {"write_0", "write_1"} => p.state = "write_wait_done"
  BY DEF InStep
<1> QED BY <1>1, ChipKeeps DEF Edge, AReady

\* What has been read of an access is what the memory holds (read_concat_reg).
LEMMA ReadSoFarStep ==
  ASSUME SdramAssumption, REFRESH_INTERVAL = 0, Control, Data,
         NEW offered \in BOOLEAN, NEW r \in Request, NEW d_ready \in BOOLEAN,
         Edge(offered, r, d_ready), Stepped(offered, r, d_ready)
  PROVE  ReadSoFar'
<1>1. Typed /\ TypeOK /\ Serves(offered, r, d_ready) /\ InStep /\ WordMoves /\ Access /\ ReadSoFar
  BY TypesSpelled DEF Control, Stepped, Data
<1>2. p.read \in Pair /\ LANES \in {2, 4}
  BY <1>1, Sizes DEF TypeOK
<1>3. CASE p.state \notin Reading
  <2>1. /\ p'.state # "read_process"
        /\ p'.state \in Reading => ~p'.second
    BY <1>1, <1>3
       DEF Serves, Passes, Accepts, Commands, Merges, GoesOn, Ends, Answers, Reading, Typed, PState
  <2> QED BY <2>1 DEF ReadSoFar
<1>4. CASE p.state \in Reading /\ ~(p.state = "read_wait_done" /\ ~c.word_busy)
  <2>1. p'.state \in Reading /\ KeepsAccess
    BY <1>1, <1>4 DEF Serves, Passes, Commands, Reading
  <2>2. chip' = chip
    BY <1>1, <1>4, Still DEF Reading
  <2> QED BY <1>1, <1>4, <2>1, <2>2 DEF ReadSoFar, KeepsAccess, Base, Reading
<1>5. CASE p.state = "read_wait_done" /\ ~c.word_busy
  <2>1. TakesWord(d_ready)
    BY <1>1, <1>5 DEF Serves
  <2>2. chip' = chip /\ c.state = "idle"
    BY <1>1, <1>5, Still, Phases
  <2>3. c.word_q = chip[p.word_addr] /\ p.word_addr = ActiveWord
    BY <1>1, <1>5, <2>2 DEF WordMoves, InStep, WaitDone
  <2>4. /\ ActiveWord = IF p.second THEN Base + 1 ELSE Base
        /\ p.second => Split(p.req)
    BY <1>1, <1>5, ActiveIs DEF Reading
  <2>5. ASSUME NEW l \in Lane
        PROVE  /\ p'.read[l] = IF p.second THEN p.read[l] ELSE c.word_q[l]
               /\ p'.read[LANES + l] = IF p.second THEN c.word_q[l] ELSE 0
    BY <1>2, <2>1 DEF TakesWord, Pair, Lane
  <2>6. \A l \in Lane : p.second => p.read[l] = chip[Base][l]
    BY <1>1, <1>5 DEF ReadSoFar, Reading
  <2>7. \A l \in Lane : p'.read[l] = chip[Base][l]
    BY <2>3, <2>4, <2>5, <2>6
  <2>8. p'.state = "read_process" /\ Split(p.req) => \A l \in Lane : p'.read[LANES + l] = chip[Base + 1][l]
    <3>1. p'.state = "read_process" /\ Split(p.req) => p.second
      BY <1>1, <2>1 DEF TakesWord, Typed
    <3> QED BY <2>3, <2>4, <2>5, <3>1
  <2>9. Base' = Base /\ p'.req = p.req
    BY <2>1 DEF TakesWord, Base
  <2> QED BY <2>2, <2>7, <2>8, <2>9 DEF ReadSoFar
<1> QED BY <1>3, <1>4, <1>5 DEF Reading

\* What the memory holds as a word, byte by byte.
LEMMA WordOfBytes ==
  ASSUME SdramAssumption, TypeOK, NEW a \in WordAddr
  PROVE  /\ chip[a] \in Word /\ Gold(a) \in Word
         /\ chip[a] = Gold(a) <=> \A l \in Lane : chip[a][l] = golden[a * LANES + l]
<1>1. chip[a] \in Word /\ \A l \in Lane : golden[a * LANES + l] \in Byte
  BY Bytes DEF TypeOK
<1> QED BY <1>1 DEF Gold, Word

\* An accepted write leaves in each word what it had besides the bytes of the
\* request, and the chip is still to follow.
LEMMA AcceptedWord ==
  ASSUME SdramAssumption, TypeOK, NEW r \in Request, InRange(r), r.we, NEW a \in WordAddr, chip[a] = Gold(a),
         p'.req = r, golden' = Apply(golden, r), chip' = chip
  PROVE  Gold(a)' = Target(a)'
<1>1. PICK b : b = r.addr \div LANES
  OBVIOUS
<1>2. Base' = b
  BY <1>1 DEF Base
<1>3. ASSUME NEW l \in Lane
      PROVE  golden'[a * LANES + l] =
               IF a = b /\ l \in Touched(r) THEN r.wdata[l - Offset(r)]
               ELSE IF a = b + 1 /\ LANES + l \in Touched(r) THEN r.wdata[(LANES + l) - Offset(r)]
                    ELSE chip'[a][l]
  <2>1. golden \in [0 .. WORDS * LANES - 1 -> Byte]
    BY DEF TypeOK
  <2>2. Apply(golden, r)[a * LANES + l] =
          IF a = b /\ l \in Touched(r) THEN r.wdata[l - Offset(r)]
          ELSE IF a = b + 1 /\ LANES + l \in Touched(r) THEN r.wdata[(LANES + l) - Offset(r)]
               ELSE golden[a * LANES + l]
    <3>1. ASSUME NEW m \in [0 .. WORDS * LANES - 1 -> Byte]
          PROVE  Apply(m, r)[a * LANES + l] =
                   IF a = b /\ l \in Touched(r) THEN r.wdata[l - Offset(r)]
                   ELSE IF a = b + 1 /\ LANES + l \in Touched(r) THEN r.wdata[(LANES + l) - Offset(r)]
                        ELSE m[a * LANES + l]
      <4>1. \A d : d = r.addr \div LANES =>
                Apply(m, r)[a * LANES + l] =
                  IF a = d /\ l \in Touched(r) THEN r.wdata[l - Offset(r)]
                  ELSE IF a = d + 1 /\ LANES + l \in Touched(r) THEN r.wdata[(LANES + l) - Offset(r)]
                       ELSE m[a * LANES + l]
        BY ApplyByte
      <4> QED BY <1>1, <4>1, Zenon
    <3> QED BY <2>1, <3>1, Zenon
  <2>3. golden[a * LANES + l] = chip[a][l]
    BY WordOfBytes
  <2> QED BY <2>2, <2>3, Zenon
<1> QED BY <1>2, <1>3, Zenon DEF Gold, Target

\* What the write of a whole word writes.
LEMMA WholeWordHalf ==
  ASSUME SdramAssumption, NEW r \in Request, WholeWord(r)
  PROVE  /\ Half([l \in DOMAIN ZeroPair |-> IF l < LANES THEN r.wdata[l] ELSE 0], FALSE) = r.wdata
         /\ ~Split(r) /\ \A l \in Lane : l \in Touched(r) /\ LANES + l \notin Touched(r)
         /\ Offset(r) = 0
<1>1. r.wdata \in Word /\ Offset(r) = 0 /\ r.bytes = LANES /\ LANES \in {2, 4}
  BY RequestFields, Sizes DEF WholeWord
<1>2. Half([l \in DOMAIN ZeroPair |-> IF l < LANES THEN r.wdata[l] ELSE 0], FALSE) = r.wdata
  <2>1. PICK w \in Word : w = r.wdata
    BY <1>1
  <2>2. ASSUME NEW l \in Lane
        PROVE  [m \in DOMAIN ZeroPair |-> IF m < LANES THEN w[m] ELSE 0][l] = w[l]
    BY <1>1 DEF ZeroPair, Lane
  <2>3. Half([l \in DOMAIN ZeroPair |-> IF l < LANES THEN w[l] ELSE 0], FALSE) = [l \in Lane |-> w[l]]
    BY <2>2, Zenon DEF Half
  <2> QED BY <2>1, <2>3 DEF Word
<1>3. ~Split(r)
  BY <1>1 DEF Split
<1>4. \A l \in Lane : l \in Touched(r) /\ LANES + l \notin Touched(r)
  BY <1>1 DEF Touched, Lane
<1> QED BY <1>1, <1>2, <1>3, <1>4

\* An access that is accepted: nothing is left undone from the one before.
LEMMA HoldsAccepted ==
  ASSUME SdramAssumption, REFRESH_INTERVAL = 0, Control, Data,
         NEW offered \in BOOLEAN, NEW r \in Request, NEW d_ready \in BOOLEAN,
         Edge(offered, r, d_ready), Accepts(r), p.state = "idle", offered, AReady
  PROVE  Holds'
<1>1. TypeOK /\ chip' = chip /\ golden' = Apply(golden, r) /\ p'.req = r
  BY Still DEF Edge, Control, Data, Accepts
<1>2. \A a \in WordAddr : chip[a] = Gold(a)
  BY DEF Data, Holds
<1>3. CASE ~InRange(r) \/ ~r.we
  <2>1. golden' = golden /\ p'.state \notin Writing /\ (p'.state \in {"idle", "respond"} \/ ~p'.req.we)
    BY <1>1, <1>3 DEF Apply, Accepts, Answers, Writing
  <2>2. \A a \in WordAddr : chip'[a] = Gold(a)'
    BY <1>1, <1>2, <2>1 DEF Gold
  <2>3. ~(p'.state \in Reading \cup {"read_process"} /\ p'.req.we)
    BY <2>1 DEF Reading
  <2> QED BY <2>1, <2>2, <2>3 DEF Holds
<1>4. CASE InRange(r) /\ r.we
  <2>1. \A a \in WordAddr : Gold(a)' = Target(a)'
    BY <1>1, <1>2, <1>4, AcceptedWord
  <2>2. CASE ~WholeWord(r)
    BY <1>1, <1>4, <2>1, <2>2 DEF Holds, Accepts, Writing
  <2>3. CASE WholeWord(r)
    <3>1. p'.state = "write_cmd" /\ ~p'.second
          /\ p'.write = [l \in DOMAIN ZeroPair |-> IF l < LANES THEN r.wdata[l] ELSE 0]
      BY <1>4, <2>3 DEF Accepts
    <3>2. PICK b : b = r.addr \div LANES
      OBVIOUS
    <3>3. Base' = b
      BY <1>1, <3>2 DEF Base
    <3>4. b \in WordAddr /\ b # b + 1
      <4>1. b \in WordAddr
        BY <1>4, <3>2, Place
      <4> QED BY <4>1 DEF WordAddr
    <3>5. /\ Half(p'.write, FALSE) = r.wdata /\ ~Split(r) /\ Offset(r) = 0 /\ r.wdata \in Word
          /\ \A l \in Lane : l \in Touched(r) /\ LANES + l \notin Touched(r)
      BY <2>3, <3>1, WholeWordHalf, RequestFields
    <3>6. \A a \in WordAddr : a # b => chip'[a] = Gold(a)'
      <4>1. SUFFICES ASSUME NEW a \in WordAddr, a # b
                     PROVE  chip'[a] = Target(a)'
        BY <2>1
      <4>2. chip[a] = [l \in Lane |-> chip[a][l]]
        BY <1>1 DEF TypeOK, Word
      <4>3. \A l \in Lane : Target(a)'[l] = chip[a][l]
        BY <1>1, <3>3, <3>5, <4>1 DEF Target
      <4> QED BY <1>1, <4>2, <4>3 DEF Target
    <3>7. Half(p'.write, FALSE) = Gold(b)'
      <4>1. \A l \in Lane : Target(b)'[l] = r.wdata[l - 0]
        BY <1>1, <3>3, <3>5 DEF Target
      <4>2. \A l \in Lane : l - 0 = l
        BY DEF Lane
      <4>3. Target(b)' = r.wdata
        BY <3>5, <4>1, <4>2 DEF Target, Word
      <4> QED BY <2>1, <3>4, <3>5, <4>3
    <3>8. Gold(Base)' = Gold(b)'
      BY <3>3 DEF Gold
    <3>9. /\ \A a \in WordAddr : a # Base' /\ ~(Split(p'.req) /\ a = Base' + 1) => chip'[a] = Gold(a)'
          /\ Half(p'.write, FALSE) = Gold(Base)'
      BY <3>3, <3>6, <3>7, <3>8
    <3> QED BY <1>1, <1>4, <3>1, <3>5, <3>9, Zenon DEF Holds, Reading
  <2> QED BY <2>2, <2>3
<1> QED BY <1>3, <1>4

\* As long as the request is the same and the memory should be the same, so is
\* everything that is said of them.
LEMMA SameAccess ==
  ASSUME p'.req = p.req, golden' = golden
  PROVE  /\ Base' = Base /\ \A a : Gold(a)' = Gold(a)
         /\ Gold(Base)' = Gold(Base) /\ Gold(Base + 1)' = Gold(Base + 1)
         /\ chip' = chip => \A a : Target(a)' = Target(a)
BY DEF Base, Gold, Target

\* What a merge leaves in the two words (merge_access_data).
LEMMA MergedHalves ==
  ASSUME SdramAssumption, TypeOK, Access, p.state = "read_process", p.req.we, ReadSoFar
  PROVE  /\ Half(Merge(p.read, p.req), FALSE) = Target(Base)
         /\ Split(p.req) => Half(Merge(p.read, p.req), TRUE) = Target(Base + 1)
         /\ ~Split(p.req) => \A l \in Lane : LANES + l \notin Touched(p.req)
<1>1. /\ p.read \in Pair /\ LANES \in {2, 4} /\ p.req \in Request /\ InRange(p.req)
      /\ Offset(p.req) \in Nat /\ p.req.bytes \in Nat
  BY Sizes, RequestFields DEF TypeOK, Access, Lane
<1>2. Base # Base + 1
  <2>1. Base \in WordAddr
    BY <1>1, Place DEF Base
  <2> QED BY <2>1 DEF WordAddr
<1> DEFINE Put(x) == Merge(p.read, p.req)[x] =
                       IF x \in Touched(p.req) THEN p.req.wdata[x - Offset(p.req)] ELSE p.read[x]
<1> HIDE DEF Put
<1>3. \A l \in Lane : Put(l) /\ Put(LANES + l)
  <2>1. ASSUME NEW l \in Lane
        PROVE  l \in DOMAIN p.read /\ LANES + l \in DOMAIN p.read
    <3>1. DOMAIN p.read = 0 .. 2 * LANES - 1
      BY <1>1 DEF Pair
    <3> QED BY <1>1, <3>1 DEF Lane
  <2>2. \A x \in DOMAIN p.read : Put(x)
    BY DEF Merge, Put
  <2> QED BY <2>1, <2>2
<1>4. \A l \in Lane : p.read[l] = chip[Base][l]
  BY DEF ReadSoFar
<1>5. Half(Merge(p.read, p.req), FALSE) = Target(Base)
  BY <1>2, <1>3, <1>4, Zenon DEF Put, Half, Target
<1>6. Split(p.req) => Half(Merge(p.read, p.req), TRUE) = Target(Base + 1)
  <2>1. Split(p.req) => \A l \in Lane : p.read[LANES + l] = chip[Base + 1][l]
    BY DEF ReadSoFar
  <2> QED BY <1>2, <1>3, <2>1, Zenon DEF Put, Half, Target
<1>7. ~Split(p.req) => \A l \in Lane : LANES + l \notin Touched(p.req)
  BY <1>1 DEF Split, Touched, Lane
<1> QED BY <1>5, <1>6, <1>7

\* The word that was written is in the chip when the controller is done.
LEMMA WroteActive ==
  ASSUME SdramAssumption, REFRESH_INTERVAL = 0, Control, Data, p.state = "write_wait_done", ~c.word_busy
  PROVE  c.state = "idle" /\ chip[ActiveWord] = Half(p.write, p.second)
<1>1. c.state = "idle"
  BY Phases DEF Data
<1> QED BY <1>1 DEF Data, InStep, WordMoves, WaitDone

\* A read-modify-write that is merged: from here on the words are written.
LEMMA HoldsMerged ==
  ASSUME SdramAssumption, Control, Data, p.state = "read_process", p.req.we,
         NEW d_ready \in BOOLEAN, Merges(d_ready), chip' = chip, golden' = golden
  PROVE  Holds'
<1>1. TypeOK /\ Access /\ ReadSoFar /\ \A a \in WordAddr : Gold(a) = Target(a)
  BY DEF Control, Data, Holds
<1>2. /\ InRange(p.req) /\ p.req \in Request /\ Base \in WordAddr
      /\ Split(p.req) => Base + 1 \in WordAddr
  <2>1. InRange(p.req) /\ p.req \in Request
    BY <1>1 DEF Access, TypeOK
  <2> QED BY <2>1, Place DEF Base
<1>3. ASSUME NEW a \in WordAddr, a # Base, ~(Split(p.req) /\ a = Base + 1)
      PROVE  chip[a] = Gold(a)
  <2>1. a # Base + 1 \/ \A l \in Lane : LANES + l \notin Touched(p.req)
    BY <1>1, <1>3, MergedHalves
  <2>2. Target(a) = [l \in Lane |-> chip[a][l]]
    BY <1>3, <2>1, Zenon DEF Target
  <2>3. chip[a] = [l \in Lane |-> chip[a][l]]
    BY <1>1 DEF TypeOK, Word
  <2> QED BY <1>1, <2>2, <2>3
<1>4. /\ Half(p'.write, FALSE) = Gold(Base)
      /\ Split(p.req) => Half(p'.write, TRUE) = Gold(Base + 1)
  BY <1>1, <1>2, MergedHalves DEF Merges
<1>5. p'.req = p.req /\ ~p'.second /\ p'.state = "write_cmd"
  BY DEF Merges
<1>6. /\ \A a \in WordAddr : a # Base' /\ ~(Split(p'.req) /\ a = Base' + 1) => chip'[a] = Gold(a)'
      /\ Half(p'.write, FALSE) = Gold(Base)'
      /\ Split(p'.req) => Half(p'.write, TRUE) = Gold(Base + 1)'
  BY <1>3, <1>4, <1>5, SameAccess
<1> QED BY <1>5, <1>6, Zenon DEF Holds, Reading

\* A word that is being written: only that word of the chip changes.
LEMMA HoldsWriting ==
  ASSUME SdramAssumption, Control, Data, p.state \in Writing, p'.state \in Writing, KeepsAccess,
         chip' = ChipNext, golden' = golden
  PROVE  Holds'
<1>1. TypeOK /\ Access /\ InStep /\ WorksOnLast /\ Holds
  BY DEF Control, Data
<1>2. /\ ActiveWord = IF p.second THEN Base + 1 ELSE Base
      /\ p.second => Split(p.req)
      /\ Base # Base + 1 /\ Base \in WordAddr
  BY <1>1, ActiveIs
<1>3. \A a \in WordAddr : a # ActiveWord => chip'[a] = chip[a]
  <2>1. CASE c.state \in {"write_0", "write_1"}
    BY <1>1, <2>1, ChipKeeps DEF InStep, WorksOnLast, WaitDone
  <2>2. CASE c.state \notin {"write_0", "write_1"}
    BY <1>1, <2>2, ChipKeeps
  <2> QED BY <2>1, <2>2
<1>4. /\ p'.req = p.req /\ p'.write = p.write /\ p'.second = p.second
  BY DEF KeepsAccess
<1>5. /\ \A a \in WordAddr : a # Base /\ ~(Split(p.req) /\ a = Base + 1) => chip'[a] = Gold(a)
      /\ Half(p.write, FALSE) = Gold(Base)
      /\ Split(p.req) => Half(p.write, TRUE) = Gold(Base + 1)
      /\ p.second => chip'[Base] = Gold(Base)
  BY <1>1, <1>2, <1>3 DEF Holds
<1>6. /\ \A a \in WordAddr : a # Base' /\ ~(Split(p'.req) /\ a = Base' + 1) => chip'[a] = Gold(a)'
      /\ Half(p'.write, FALSE) = Gold(Base)'
      /\ Split(p'.req) => Half(p'.write, TRUE) = Gold(Base + 1)'
      /\ p'.second => chip'[Base'] = Gold(Base)'
  BY <1>4, <1>5, SameAccess
<1>7. p'.req.we
  BY <1>1, <1>4 DEF Access
<1>8. p'.state \notin {"idle", "respond"} /\ p'.state \notin Reading \cup {"read_process"}
  BY DEF Writing, Reading
<1> QED BY <1>6, <1>7, <1>8, Zenon DEF Holds

\* A word that has been written, with the next one to come, or with none.
LEMMA HoldsWritten ==
  ASSUME SdramAssumption, REFRESH_INTERVAL = 0, Control, Data, p.state = "write_wait_done", ~c.word_busy,
         chip' = chip, golden' = golden, p'.req = p.req, NEW d_ready \in BOOLEAN,
         IF ~p.second /\ p.more THEN GoesOn(d_ready) ELSE Ends(Zero)
  PROVE  Holds'
<1>1. TypeOK /\ Access /\ Holds /\ p.state \in Writing /\ Typed
  BY TypesSpelled DEF Control, Data, Writing
<1>2. /\ ActiveWord = IF p.second THEN Base + 1 ELSE Base
      /\ p.second => Split(p.req)
      /\ Base # Base + 1
  BY <1>1, ActiveIs
<1>3. chip[ActiveWord] = Half(p.write, p.second)
  BY WroteActive
<1>4. /\ \A a \in WordAddr : a # Base /\ ~(Split(p.req) /\ a = Base + 1) => chip[a] = Gold(a)
      /\ Half(p.write, FALSE) = Gold(Base)
      /\ Split(p.req) => Half(p.write, TRUE) = Gold(Base + 1)
      /\ p.second => chip[Base] = Gold(Base)
      /\ p.req.we /\ (p.more <=> Split(p.req))
  BY <1>1 DEF Holds, Access
<1>5. chip[Base] = Gold(Base) /\ (p.second => chip[Base + 1] = Gold(Base + 1))
  <2>1. CASE p.second
    <3>1. p.second = TRUE
      BY <1>1, <2>1 DEF Typed
    <3> QED BY <1>2, <1>3, <1>4, <2>1, <3>1
  <2>2. CASE ~p.second
    <3>1. p.second = FALSE
      BY <1>1, <2>2 DEF Typed
    <3> QED BY <1>2, <1>3, <1>4, <2>2, <3>1
  <2> QED BY <2>1, <2>2
<1>6. CASE ~p.second /\ p.more
  <2>1. p'.state = "write_cmd" /\ p'.write = p.write
    BY <1>6 DEF GoesOn
  <2>2. /\ \A a \in WordAddr : a # Base' /\ ~(Split(p'.req) /\ a = Base' + 1) => chip'[a] = Gold(a)'
        /\ Half(p'.write, FALSE) = Gold(Base)'
        /\ Split(p'.req) => Half(p'.write, TRUE) = Gold(Base + 1)'
        /\ chip'[Base'] = Gold(Base)'
    BY <1>4, <1>5, <2>1, SameAccess
  <2> QED BY <1>4, <2>1, <2>2, Zenon DEF Holds, Reading
<1>7. CASE ~(~p.second /\ p.more)
  <2>1. p'.state = "respond"
    BY <1>7 DEF Ends, Answers
  <2>2. \A a \in WordAddr : chip'[a] = Gold(a)'
    BY <1>4, <1>5, <1>7, SameAccess
  <2> QED BY <2>1, <2>2, Zenon DEF Holds, Reading, Writing
<1> QED BY <1>6, <1>7

\* What the memory holds, and what is still to be written, after every edge.
LEMMA HoldsStep ==
  ASSUME SdramAssumption, REFRESH_INTERVAL = 0, Control, Data,
         NEW offered \in BOOLEAN, NEW r \in Request, NEW d_ready \in BOOLEAN,
         Edge(offered, r, d_ready), Stepped(offered, r, d_ready)
  PROVE  Holds'
<1>1. Typed /\ TypeOK /\ Serves(offered, r, d_ready) /\ InStep /\ Access /\ Holds
  BY TypesSpelled DEF Control, Stepped, Data
<1>2. /\ p.state # "write_wait_done" => chip' = chip
      /\ c.state = "idle" => chip' = chip
      /\ p.state # "idle" => golden' = golden
      /\ chip' = ChipNext
  BY <1>1, Still DEF Edge
<1>3. CASE p.state = "idle" /\ offered /\ AReady
  <2>1. Accepts(r)
    BY <1>1, <1>3 DEF Serves
  <2> QED BY <1>3, <2>1, HoldsAccepted
<1>4. CASE p.state = "idle" /\ ~(offered /\ AReady)
  <2>1. p'.state = "idle" /\ p'.req = p.req /\ golden' = golden /\ chip' = chip
    BY <1>1, <1>2, <1>4 DEF Serves, Passes, KeepsAccess, Edge
  <2>2. \A a \in WordAddr : chip'[a] = Gold(a)'
    BY <1>1, <1>4, <2>1, SameAccess DEF Holds
  <2> QED BY <2>1, <2>2, Zenon DEF Holds, Reading, Writing
<1>5. CASE p.state = "respond"
  <2>1. p'.state \in {"idle", "respond"} /\ p'.req = p.req /\ golden' = golden /\ chip' = chip
    BY <1>1, <1>2, <1>5 DEF Serves, Passes, KeepsAccess
  <2>2. \A a \in WordAddr : chip'[a] = Gold(a)'
    BY <1>1, <1>5, <2>1, SameAccess DEF Holds
  <2>3. p'.state \notin Reading \cup {"read_process"} /\ p'.state \notin Writing
    BY <2>1 DEF Reading, Writing
  <2> QED BY <2>2, <2>3, Zenon DEF Holds
<1>6. CASE p.state \in Reading
  <2>1. p'.state \in Reading \cup {"read_process"} /\ p'.req = p.req
    BY <1>1, <1>6 DEF Serves, Passes, Commands, TakesWord, KeepsAccess, Reading
  <2>2. golden' = golden /\ chip' = chip
    BY <1>2, <1>6 DEF Reading
  <2>3. /\ ~p.req.we => \A a \in WordAddr : chip'[a] = Gold(a)'
        /\ p.req.we => \A a \in WordAddr : Gold(a)' = Target(a)'
    BY <1>1, <1>6, <2>1, <2>2, SameAccess DEF Holds
  <2>4. p'.state \notin {"idle", "respond"} /\ p'.state \notin Writing
    BY <2>1 DEF Reading, Writing
  <2> QED BY <2>1, <2>3, <2>4, Zenon DEF Holds
<1>7. CASE p.state = "read_process" /\ ~p.req.we
  <2>1. p'.state = "respond" /\ p'.req = p.req /\ golden' = golden /\ chip' = chip
    BY <1>1, <1>2, <1>7 DEF Serves, Ends, Answers, KeepsAccess
  <2>2. \A a \in WordAddr : chip'[a] = Gold(a)'
    BY <1>1, <1>7, <2>1, SameAccess DEF Holds
  <2> QED BY <2>1, <2>2, Zenon DEF Holds, Reading, Writing
<1>8. CASE p.state = "read_process" /\ p.req.we
  <2>1. Merges(d_ready) /\ golden' = golden /\ chip' = chip
    BY <1>1, <1>2, <1>8 DEF Serves
  <2> QED BY <1>8, <2>1, HoldsMerged
<1>9. CASE p.state \in Writing /\ (p.state = "write_wait_done" => c.word_busy)
  <2>1. p'.state \in Writing /\ KeepsAccess
    BY <1>1, <1>9 DEF Serves, Passes, Commands, Writing
  <2>2. golden' = golden
    BY <1>2, <1>9 DEF Writing
  <2> QED BY <1>2, <1>9, <2>1, <2>2, HoldsWriting
<1>10. CASE p.state = "write_wait_done" /\ ~c.word_busy
  <2>1. IF ~p.second /\ p.more THEN GoesOn(d_ready) ELSE Ends(Zero)
    BY <1>1, <1>10 DEF Serves
  <2>2. p'.req = p.req
    BY <2>1 DEF GoesOn, Ends, KeepsAccess
  <2>3. chip' = chip /\ golden' = golden
    BY <1>2, <1>10, WroteActive
  <2> QED BY <1>10, <2>1, <2>2, <2>3, HoldsWritten
<1> QED BY <1>1, <1>3, <1>4, <1>5, <1>6, <1>7, <1>8, <1>9, <1>10 DEF Typed, PState, Reading, Writing

\* Where byte l of an access at lane o of word b lies.
LEMMA Reach ==
  ASSUME SdramAssumption
  PROVE  \A b \in Nat, o, l \in Lane :
           /\ o + l < LANES => o + l \in Lane /\ b * LANES + (o + l) = (b * LANES + o) + l
           /\ o + l >= LANES => /\ o + l - LANES \in Lane /\ LANES + (o + l - LANES) = o + l
                                /\ (b + 1) * LANES + (o + l - LANES) = (b * LANES + o) + l
<1>1. CASE LANES = 2
  BY <1>1 DEF Lane
<1>2. CASE LANES = 4
  BY <1>2 DEF Lane
<1> QED BY <1>1, <1>2, Sizes

\* What a read takes out of the words is what software finds there.
LEMMA ReadsGold ==
  ASSUME SdramAssumption, Control, Data, p.state = "read_process", ~p.req.we
  PROVE  Extract(p.read, p.req) = [l \in Lane |-> IF InRange(p.req) /\ l < p.req.bytes
                                                  THEN golden[p.req.addr + l] ELSE 0]
<1>1. TypeOK /\ Access /\ ReadSoFar /\ \A a \in WordAddr : chip[a] = Gold(a)
  BY DEF Control, Data, Holds
<1>2. InRange(p.req) /\ p.req \in Request
  BY <1>1 DEF Access, TypeOK
<1>3. PICK b, o : b = Base /\ o = Offset(p.req)
  OBVIOUS
<1>4. /\ b \in WordAddr /\ p.req.addr = b * LANES + o /\ o \in Lane
      /\ p.req.bytes \in Nat /\ p.req.bytes <= LANES
      /\ Split(p.req) => b + 1 \in WordAddr
  BY <1>2, <1>3, Place DEF Base
<1>5. /\ \A l \in Lane : p.read[l] = chip[b][l]
      /\ Split(p.req) => \A l \in Lane : p.read[LANES + l] = chip[b + 1][l]
  BY <1>1, <1>3 DEF ReadSoFar
<1>6. ASSUME NEW l \in Lane, l < p.req.bytes
      PROVE  p.read[o + l] = golden[p.req.addr + l]
  <2>1. b \in Nat /\ LANES \in Nat /\ l \in Nat /\ o \in Nat
    BY <1>4, <1>6, Sizes DEF WordAddr, Lane
  <2>2. /\ o + l < LANES => o + l \in Lane /\ b * LANES + (o + l) = (b * LANES + o) + l
        /\ o + l >= LANES => /\ o + l - LANES \in Lane /\ LANES + (o + l - LANES) = o + l
                             /\ (b + 1) * LANES + (o + l - LANES) = (b * LANES + o) + l
    BY <1>4, <2>1, Reach
  <2>3. CASE o + l < LANES
    <3>1. golden[b * LANES + (o + l)] = Gold(b)[o + l]
      BY <2>2, <2>3, Zenon DEF Gold
    <3>2. p.read[o + l] = Gold(b)[o + l]
      BY <1>1, <1>4, <1>5, <2>2, <2>3
    <3>3. b * LANES + (o + l) = p.req.addr + l
      BY <1>4, <2>2, <2>3, Zenon
    <3> QED BY <3>1, <3>2, <3>3, Zenon
  <2>4. CASE o + l >= LANES
    <3>1. PICK m \in Lane : m = o + l - LANES /\ LANES + m = o + l /\ (b + 1) * LANES + m = p.req.addr + l
      BY <1>4, <2>2, <2>4, Zenon
    <3>2. Split(p.req)
      <4>1. o + p.req.bytes > LANES
        BY <1>4, <1>6, <2>1, <2>4
      <4> QED BY <1>3, <4>1 DEF Split
    <3>3. golden[(b + 1) * LANES + m] = Gold(b + 1)[m]
      BY Zenon DEF Gold
    <3>4. p.read[LANES + m] = Gold(b + 1)[m]
      BY <1>1, <1>4, <1>5, <3>2
    <3> QED BY <3>1, <3>3, <3>4, Zenon
  <2>5. o + l < LANES \/ o + l >= LANES
    BY <2>1
  <2> QED BY <2>3, <2>4, <2>5
<1> QED BY <1>2, <1>3, <1>6, Zenon DEF Extract

\* Every answer to a read is what software should find (resp_reg_rdata).
LEMMA ReadsLatestStep ==
  ASSUME SdramAssumption, REFRESH_INTERVAL = 0, Control, Data,
         NEW offered \in BOOLEAN, NEW r \in Request, NEW d_ready \in BOOLEAN,
         Edge(offered, r, d_ready), Stepped(offered, r, d_ready), Access'
  PROVE  ReadsLatest'
<1>1. Typed /\ Serves(offered, r, d_ready) /\ InStep /\ Access /\ ReadsLatest
  BY TypesSpelled DEF Control, Stepped, Data
<1>2. TypeOK /\ (p.state # "idle" => golden' = golden)
  BY <1>1, Still DEF Control
<1>3. SUFFICES ASSUME p'.state = "respond", ~p'.req.we
               PROVE  p'.response = [l \in Lane |-> IF InRange(p'.req) /\ l < p'.req.bytes
                                                    THEN golden'[p'.req.addr + l] ELSE 0]
  BY DEF ReadsLatest, Access
<1>4. CASE p.state = "idle"
  <2>1. Accepts(r) /\ ~InRange(r) /\ p'.req = r /\ p'.response = Zero
    BY <1>1, <1>3, <1>4 DEF Serves, Passes, Accepts, Answers
  <2> QED BY <2>1, Zenon DEF Zero
<1>5. CASE p.state = "read_process"
  <2>1. Ends(Extract(p.read, p.req)) /\ ~p.req.we
    BY <1>1, <1>3, <1>5 DEF Serves, Merges, Ends, KeepsAccess
  <2>2. p'.req = p.req /\ p'.response = Extract(p.read, p.req) /\ golden' = golden
    BY <1>2, <1>5, <2>1 DEF Ends, KeepsAccess, Answers
  <2> QED BY <1>5, <2>1, <2>2, ReadsGold
<1>6. CASE p.state = "write_wait_done"
  <2>1. p'.req = p.req
    BY <1>1, <1>6 DEF Serves, Passes, GoesOn, Ends, KeepsAccess
  <2> QED BY <1>1, <1>3, <1>6, <2>1 DEF Access, Writing
<1>7. CASE p.state = "respond"
  <2>1. p'.req = p.req /\ p'.response = p.response /\ golden' = golden
    BY <1>1, <1>2, <1>7 DEF Serves, Passes, KeepsAccess, Silent
  <2>2. p.response_pending /\ ~p.req.we
    BY <1>1, <1>3, <1>7, <2>1 DEF Access
  <2> QED BY <1>1, <2>1, <2>2 DEF ReadsLatest
<1>8. p.state \notin {"idle", "read_process", "write_wait_done", "respond"} => p'.state # "respond"
  BY <1>1 DEF Serves, Passes, Commands, TakesWord, Typed, PState
<1> QED BY <1>3, <1>4, <1>5, <1>6, <1>7, <1>8

\* After the reset every byte is zero and nothing has been asked for.
LEMMA DataInit ==
  ASSUME SdramAssumption, Init
  PROVE  Data
<1>1. p.state = "idle" /\ ~p.response_pending /\ ~p.req.we
      /\ c.state = "init" /\ ~c.req_pending
      /\ chip = [a \in WordAddr |-> Zero] /\ golden = [a \in 0 .. WORDS * LANES - 1 |-> 0]
  BY DEF Init, PInit, NoReq, CInit
<1>2. InStep /\ WordMoves
  BY <1>1 DEF InStep, WordMoves, WaitBusy, WaitDone
<1>3. Access /\ ReadSoFar /\ ReadsLatest
  BY <1>1 DEF Access, ReadSoFar, ReadsLatest, Reading, Writing
<1>4. \A a \in WordAddr : chip[a] = Gold(a)
  <2>1. SUFFICES ASSUME NEW a \in WordAddr
                 PROVE  chip[a] = Gold(a)
    OBVIOUS
  <2>2. \A l \in Lane : golden[a * LANES + l] = 0
    BY <1>1, Bytes
  <2> QED BY <1>1, <2>2, Zenon DEF Gold, Zero
<1>5. Holds
  BY <1>1, <1>4 DEF Holds, Reading, Writing
<1> QED BY <1>2, <1>3, <1>5 DEF Data

\* An edge keeps every part of it.
LEMMA DataStep ==
  ASSUME SdramAssumption, REFRESH_INTERVAL = 0, Control, Data, [Next]_vars
  PROVE  Data'
<1>1. CASE Next
  <2>1. PICK offered \in BOOLEAN, r \in Request, d_ready \in BOOLEAN : Edge(offered, r, d_ready)
    BY <1>1, NextIsEdge
  <2>2. Stepped(offered, r, d_ready)
    BY <2>1, EdgeStep
  <2>3. InStep'
    BY <2>2, InStepStep DEF Data
  <2>4. WordMoves'
    BY <2>1, <2>2, <2>3, WordMovesStep DEF Data
  <2>5. Access'
    BY <2>2, AccessStep DEF Data
  <2>6. ReadSoFar'
    BY <2>1, <2>2, ReadSoFarStep
  <2>7. Holds'
    BY <2>1, <2>2, HoldsStep
  <2>8. ReadsLatest'
    BY <2>1, <2>2, <2>5, ReadsLatestStep
  <2> QED BY <2>3, <2>4, <2>5, <2>6, <2>7, <2>8 DEF Data
<1>2. CASE UNCHANGED vars
  <2>1. p' = p /\ c' = c /\ chip' = chip /\ golden' = golden
    BY <1>2 DEF vars
  <2>2. InStep' /\ WordMoves' /\ Access' /\ ReadSoFar' /\ ReadsLatest'
    BY <2>1 DEF Data, InStep, WordMoves, Access, ReadSoFar, ReadsLatest, ActiveWord, Base
  <2>3. Holds'
    <3>1. Holds /\ p'.req = p.req
      BY <2>1 DEF Data
    <3>2. /\ Base' = Base /\ Gold(Base)' = Gold(Base) /\ Gold(Base + 1)' = Gold(Base + 1)
          /\ \A a : Gold(a)' = Gold(a) /\ Target(a)' = Target(a)
      BY <2>1, <3>1, SameAccess
    <3> QED BY <2>1, <3>1, <3>2 DEF Holds
  <2> QED BY <2>2, <2>3 DEF Data
<1> QED BY <1>1, <1>2

\* What the memory holds as words is what it holds as bytes.
LEMMA AnswersWritten ==
  ASSUME SdramAssumption, TypeOK, Data
  PROVE  AnsweredIsWritten
<1>1. SUFFICES ASSUME p.response_pending, NEW x \in 0 .. WORDS * LANES - 1
               PROVE  golden[x] = chip[x \div LANES][x % LANES]
  BY DEF AnsweredIsWritten, TypeOK
<1>2. \A a \in WordAddr : chip[a] = Gold(a)
  BY <1>1 DEF Data, Access, Holds
<1>3. PICK a \in WordAddr, l \in Lane : a = x \div LANES /\ l = x % LANES /\ x = a * LANES + l
  BY Bytes
<1>4. chip[a][l] = golden[a * LANES + l]
  BY <1>2, Zenon DEF Gold
<1> QED BY <1>3, <1>4, Zenon

\* The inductive invariant of the memory without refreshes.
LEMMA DataSafe ==
  ASSUME SdramAssumption, REFRESH_INTERVAL = 0
  PROVE  Spec => [](Control /\ Data)
<1>1. SlowRefresh
  BY DEF SlowRefresh
<1>2. Init => Control /\ Data
  BY ControlInit, DataInit
<1>3. Control /\ Data /\ [Next]_vars => (Control /\ Data)'
  BY <1>1, ControlStep, DataStep
<1> QED BY <1>2, <1>3, PTL DEF Spec

\* Without refreshes every read is answered with the bytes that the writes
\* accepted before it left, at any size and alignment, and with zeros out of the
\* window (ST_READ_PROCESS, extract_access_data).
THEOREM ReadsAreLatest ==
  ASSUME SdramAssumption, REFRESH_INTERVAL = 0
  PROVE  Spec => []ReadsLatest
<1>1. Control /\ Data => ReadsLatest
  BY DEF Data
<1> QED BY <1>1, DataSafe, PTL

\* Without refreshes the memory holds, whenever an access has been answered, what
\* the accepted writes say, byte for byte: both words of a straddling write and
\* no neighbour changed (ST_WRITE_WAIT_DONE, merge_access_data).
THEOREM AnswersAreWritten ==
  ASSUME SdramAssumption, REFRESH_INTERVAL = 0
  PROVE  Spec => []AnsweredIsWritten
<1>1. Control /\ Data => AnsweredIsWritten
  BY AnswersWritten DEF Control
<1> QED BY <1>1, DataSafe, PTL
=============================================================================
