-------------------------------- MODULE Sdram --------------------------------
(***************************************************************************)
(* The RTL SDRAM of the Pocket build: rtl/common/peripherals/              *)
(* sdram_peripheral.sv (byte lanes, accesses that straddle two words,      *)
(* read-modify-write) over rtl/common/memory/sdram_controller.sv (command  *)
(* timing and refresh).  Both run on sdram_clk, so one Edge is one step of *)
(* both; they talk through word_rd, word_wr and word_busy, all registers.  *)
(*                                                                         *)
(* A word is a function from its byte lanes to bytes.  LANES is 4 in the   *)
(* code; a smaller even width keeps every case (a part of a word, a whole  *)
(* word, a straddling access).  The controller's start-up commands are one *)
(* state and the pins are left out: the chip answers a READ exactly when   *)
(* the capture pipeline of the controller expects it.                      *)
(***************************************************************************)
EXTENDS Naturals, FiniteSets

CONSTANTS LANES,             \* bytes in a word
          WORDS,             \* words in the window (ADDR_SIZE / LANES)
          Byte,              \* byte values, 0 among them
          REFRESH_INTERVAL,  \* cycles between refresh requests, 0 for never
          WAIT,              \* cycles of every timed state
          STAGES             \* READ_COMPLETION_STAGES

\* What is assumed of the parameters.
SdramAssumption ==
  /\ LANES \in {2, 4} /\ WORDS \in Nat \ {0} /\ 0 \in Byte
  /\ REFRESH_INTERVAL \in Nat /\ WAIT \in Nat \ {0} /\ STAGES \in Nat \ {0, 1}

\* From the moment a refresh falls due, the longest access and the refresh itself
\* are over before the next one does: REFRESH_INTERVAL_CYCLES is the 7813 ns of
\* the chip less the cycles of an access.
SlowRefresh == REFRESH_INTERVAL = 0 \/ REFRESH_INTERVAL >= 3 * WAIT + STAGES + 6

VARIABLES p,      \* registers of sdram_peripheral
          c,      \* registers of sdram_controller
          chip,   \* what the SDRAM holds
          golden  \* bytes it should hold: every accepted write applied at once

vars == <<p, c, chip, golden>>

Lane == 0 .. LANES - 1
Word == [Lane -> Byte]
Pair == [0 .. 2 * LANES - 1 -> Byte]   \* {word1, word0}
Zero == [l \in Lane |-> 0]
ZeroPair == [l \in 0 .. 2 * LANES - 1 |-> 0]
WordAddr == 0 .. WORDS - 1

\* Byte counts of the four encodings of size; 0 is the reserved one.
AccessBytes == {0} \cup {n \in {1, 2, 4} : n <= LANES}

(***************************************************************************)
(* Requests the bridge hands over: any access in the window, one that ends *)
(* beyond it, and the reserved size.                                       *)
(***************************************************************************)
Request == [addr : 0 .. WORDS * LANES, wdata : Word, we : BOOLEAN, bytes : AccessBytes]

Offset(r) == r.addr % LANES
BaseWord(r) == (r.addr \div LANES) % WORDS
InRange(r) == r.bytes # 0 /\ r.addr + r.bytes <= WORDS * LANES

\* Wrong variant: the last byte of a straddling access is not looked at.
Split_Short(r) == Offset(r) + r.bytes > LANES + 1

Split(r) == Offset(r) + r.bytes > LANES
WholeWord(r) == r.bytes = LANES /\ Offset(r) = 0

\* The lanes of the pair of words that a request touches.
Touched(r) == Offset(r) .. (Offset(r) + r.bytes - 1)

\* extract_access_data: the touched lanes, moved down, zero above.
Extract(pair, r) == [l \in Lane |-> IF l < r.bytes THEN pair[Offset(r) + l] ELSE 0]

\* merge_access_data: the touched lanes replaced, the others kept.
Merge(pair, r) ==
  [l \in DOMAIN pair |-> IF l \in Touched(r) THEN r.wdata[l - Offset(r)] ELSE pair[l]]

Half(pair, second) == [l \in Lane |-> pair[IF second THEN LANES + l ELSE l]]

(***************************************************************************)
(* sdram_peripheral.  The A-channel fields are latched in req, from which  *)
(* the code's req_split_reg and req_word_base_addr_reg follow.             *)
(***************************************************************************)
PState == {"idle", "read_cmd", "read_wait_busy", "read_wait_done", "read_process",
           "write_cmd", "write_wait_busy", "write_wait_done", "respond"}

NoReq == [addr |-> 0, wdata |-> Zero, we |-> FALSE, bytes |-> 0]

PInit == [state |-> "idle", req |-> NoReq, second |-> FALSE, more |-> FALSE,
          read |-> ZeroPair, write |-> ZeroPair, word_rd |-> FALSE, word_wr |-> FALSE,
          word_addr |-> 0, word_data |-> Zero, response |-> Zero, response_pending |-> FALSE]

AReady == p.state = "idle" /\ ~p.response_pending

\* Every edge starts by dropping the strobes and a response that was taken.
Quiet(d_ready) == [p EXCEPT !.word_rd = FALSE, !.word_wr = FALSE,
                            !.response_pending = @ /\ ~d_ready]

Respond(q, data) == [q EXCEPT !.response = data, !.response_pending = TRUE, !.state = "respond"]

Accept(q, r) ==
  LET taken == [q EXCEPT !.req = r, !.second = FALSE, !.more = FALSE]
  IN  IF ~InRange(r) THEN Respond(taken, Zero)
      ELSE IF r.we /\ WholeWord(r)
           THEN [taken EXCEPT !.write = [l \in DOMAIN ZeroPair |-> IF l < LANES THEN r.wdata[l] ELSE 0],
                              !.state = "write_cmd"]
           ELSE [taken EXCEPT !.state = "read_cmd"]

\* The word of the pair that the access has come to.
ActiveWord == (BaseWord(p.req) + IF p.second THEN 1 ELSE 0) % WORDS

\* Wrong variant: the next command goes out without waiting for the controller.
ReadCmd_Blind(q) ==
  [q EXCEPT !.word_rd = TRUE, !.word_addr = ActiveWord, !.state = "read_wait_busy"]

\* A strobe leaves only when the controller is not busy, for one cycle.
ReadCmd(q) == IF c.word_busy THEN q
              ELSE [q EXCEPT !.word_rd = TRUE, !.word_addr = ActiveWord, !.state = "read_wait_busy"]

WriteCmd(q) == IF c.word_busy THEN q
               ELSE [q EXCEPT !.word_wr = TRUE, !.word_addr = ActiveWord,
                              !.word_data = Half(p.write, p.second), !.state = "write_wait_busy"]

AwaitBusy(q, next) == IF c.word_busy THEN [q EXCEPT !.state = next] ELSE q

ReadDone(q) ==
  IF c.word_busy THEN q
  ELSE [q EXCEPT !.read = [l \in DOMAIN @ |-> IF l >= LANES
                                              THEN IF p.second THEN c.word_q[l - LANES] ELSE 0
                                              ELSE IF p.second THEN @[l] ELSE c.word_q[l]],
                 !.second = p.second \/ Split(p.req),
                 !.state = IF ~p.second /\ Split(p.req) THEN "read_cmd" ELSE "read_process"]

ReadProcess(q) ==
  IF p.req.we
  THEN [q EXCEPT !.write = Merge(p.read, p.req), !.more = Split(p.req), !.second = FALSE,
                 !.state = "write_cmd"]
  ELSE Respond(q, Extract(p.read, p.req))

\* Wrong variant: only the first word of a straddling write is written.
WriteDone_First(q) == IF c.word_busy THEN q ELSE Respond(q, Zero)

\* Wrong variant: that the second word is the one just written is not looked at.
WriteDone_Again(q) ==
  IF c.word_busy THEN q
  ELSE IF p.more THEN [q EXCEPT !.second = TRUE, !.state = "write_cmd"] ELSE Respond(q, Zero)

WriteDone(q) ==
  IF c.word_busy THEN q
  ELSE IF ~p.second /\ p.more THEN [q EXCEPT !.second = TRUE, !.state = "write_cmd"]
       ELSE Respond(q, Zero)

(***************************************************************************)
(* One edge of the peripheral; r is the request when the bridge offers one. *)
(***************************************************************************)
PNext(offered, r, d_ready) ==
  LET q == Quiet(d_ready)
  IN  CASE p.state = "idle" -> IF offered /\ AReady THEN Accept(q, r) ELSE q
        [] p.state = "read_cmd" -> ReadCmd(q)
        [] p.state = "read_wait_busy" -> AwaitBusy(q, "read_wait_done")
        [] p.state = "read_wait_done" -> ReadDone(q)
        [] p.state = "read_process" -> ReadProcess(q)
        [] p.state = "write_cmd" -> WriteCmd(q)
        [] p.state = "write_wait_busy" -> AwaitBusy(q, "write_wait_done")
        [] p.state = "write_wait_done" -> WriteDone(q)
        [] p.state = "respond" ->
             IF p.response_pending /\ d_ready THEN [q EXCEPT !.state = "idle"] ELSE q

(***************************************************************************)
(* sdram_controller.  "init" stands for ST_RESET to ST_INIT_EMR_WAIT.  An  *)
(* entry of pipe says which half of the word comes out of the capture      *)
(* pipeline there.                                                         *)
(***************************************************************************)
CState == {"init", "idle", "refresh", "refresh_wait", "activate", "activate_wait",
           "read_0", "read_1", "read_wait", "read_recovery",
           "write_0", "write_1", "write_recovery"}

CInit == [state |-> "init", wait |-> WAIT - 1, refresh_counter |-> 0, refresh_pending |-> FALSE,
          req_pending |-> FALSE, req_is_write |-> FALSE, req_addr |-> 0, req_data |-> Zero,
          pipe |-> [i \in 1 .. STAGES |-> "none"], read_high |-> Zero,
          word_q |-> Zero, word_busy |-> TRUE]

RefreshDue == REFRESH_INTERVAL # 0 /\ c.refresh_counter = REFRESH_INTERVAL - 1

\* A strobe is latched whatever the state, unless a request waits already.
Latch == ~c.req_pending /\ (p.word_rd \/ p.word_wr)

\* Wrong variant: a refresh that falls due during an access is forgotten.
Background_NotSticky ==
  [c EXCEPT !.refresh_counter = IF RefreshDue \/ REFRESH_INTERVAL = 0 THEN 0 ELSE @ + 1,
            !.refresh_pending = RefreshDue,
            !.req_pending  = @ \/ Latch,
            !.req_is_write = IF Latch THEN p.word_wr ELSE @,
            !.req_addr     = IF Latch THEN p.word_addr ELSE @,
            !.req_data     = IF Latch THEN p.word_data ELSE @,
            !.pipe = [i \in DOMAIN @ |-> IF i = 1 THEN "none" ELSE @[i - 1]]]

\* What every edge does before the state is looked at.
Background ==
  [c EXCEPT !.refresh_counter = IF RefreshDue \/ REFRESH_INTERVAL = 0 THEN 0 ELSE @ + 1,
            !.refresh_pending = @ \/ RefreshDue,
            !.req_pending  = @ \/ Latch,
            !.req_is_write = IF Latch THEN p.word_wr ELSE @,
            !.req_addr     = IF Latch THEN p.word_addr ELSE @,
            !.req_data     = IF Latch THEN p.word_data ELSE @,
            !.pipe = [i \in DOMAIN @ |-> IF i = 1 THEN "none" ELSE @[i - 1]]]

Goto(b, state) == [b EXCEPT !.state = state, !.wait = WAIT - 1, !.word_busy = TRUE]

\* A timed state; the last cycle does what done says.
Timed(b, done) == IF c.wait = 0 THEN done
                  ELSE [b EXCEPT !.wait = c.wait - 1, !.word_busy = TRUE]

\* Back to idle, and word_busy falls with it.
Idle(b) == [b EXCEPT !.state = "idle", !.word_busy = FALSE]

IdleNext(b) ==
  IF c.refresh_pending THEN Goto(b, "refresh")
  ELSE IF c.req_pending THEN [Goto(b, "activate") EXCEPT !.req_pending = FALSE]
       ELSE [b EXCEPT !.word_busy = FALSE]

LowHalf == 0 .. (LANES \div 2 - 1)
HighHalf == Lane \ LowHalf
Replace(w, half, v) == [l \in Lane |-> IF l \in half THEN v[l] ELSE w[l]]

\* The word is assembled from the half kept earlier and the half coming now.
Capture(b) ==
  CASE c.pipe[STAGES] = "high" ->
         [b EXCEPT !.read_high = Replace(@, HighHalf, chip[c.req_addr]), !.word_busy = TRUE]
    [] c.pipe[STAGES] = "low" ->
         [Goto(b, "read_recovery") EXCEPT !.word_q = Replace(c.read_high, LowHalf, chip[c.req_addr])]
    [] c.pipe[STAGES] = "none" -> [b EXCEPT !.word_busy = TRUE]

\* The start-up sequence ends idle, with no refresh due.
StartUp(b) == Timed(b, [Idle(b) EXCEPT !.refresh_pending = FALSE])

\* One edge of the controller.
CNext ==
  LET b == Background
  IN  CASE c.state = "init" -> StartUp(b)
        [] c.state = "idle" -> IdleNext(b)
        [] c.state = "refresh" ->
             [b EXCEPT !.state = "refresh_wait", !.wait = WAIT - 1, !.refresh_pending = FALSE]
        [] c.state = "refresh_wait" -> Timed(b, Idle(b))
        [] c.state = "activate" ->
             [b EXCEPT !.state = "activate_wait", !.wait = WAIT - 1]
        [] c.state = "activate_wait" ->
             Timed(b, Goto(b, IF c.req_is_write THEN "write_0" ELSE "read_0"))
        [] c.state = "read_0" -> [Goto(b, "read_1") EXCEPT !.pipe[1] = "high"]
        [] c.state = "read_1" -> [Goto(b, "read_wait") EXCEPT !.pipe[1] = "low"]
        [] c.state = "read_wait" -> Capture(b)
        [] c.state = "read_recovery" -> Timed(b, Idle(b))
        [] c.state = "write_0" -> Goto(b, "write_1")
        [] c.state = "write_1" -> Goto(b, "write_recovery")
        [] c.state = "write_recovery" -> Timed(b, Idle(b))

\* The WRITE commands carry the upper half first, then the lower.
ChipNext ==
  CASE c.state = "write_0" -> [chip EXCEPT ![c.req_addr] = Replace(@, HighHalf, c.req_data)]
    [] c.state = "write_1" -> [chip EXCEPT ![c.req_addr] = Replace(@, LowHalf, c.req_data)]
    [] OTHER -> chip

Init == /\ p = PInit
        /\ c = CInit
        /\ chip = [a \in WordAddr |-> Zero]
        /\ golden = [a \in 0 .. WORDS * LANES - 1 |-> 0]

\* The memory as software sees it, byte by byte, once r is carried out.
Apply(m, r) ==
  IF ~r.we \/ ~InRange(r) THEN m
  ELSE [a \in DOMAIN m |-> IF a \in r.addr .. (r.addr + r.bytes - 1)
                           THEN r.wdata[a - r.addr] ELSE m[a]]

Edge(offered, r, d_ready) ==
  /\ p' = PNext(offered, r, d_ready)
  /\ c' = CNext
  /\ chip' = ChipNext
  /\ golden' = IF offered /\ AReady THEN Apply(golden, r) ELSE golden

(***************************************************************************)
(* A request is offered and the response is taken whenever the bridge      *)
(* pleases; an offered request waits for a ready, so only the edge that    *)
(* takes it matters.                                                       *)
(***************************************************************************)
Start(r) == AReady /\ \E d_ready \in BOOLEAN : Edge(TRUE, r, d_ready)
Run == \E d_ready \in BOOLEAN : Edge(FALSE, NoReq, d_ready)

Next == Run \/ \E r \in Request : Start(r)

\* sdram_clk keeps running and the bridge takes what it is offered in the end.
Works == ~p.response_pending /\ Edge(FALSE, NoReq, FALSE)
Takes == p.response_pending /\ Edge(FALSE, NoReq, TRUE)

Fairness == WF_vars(Works) /\ WF_vars(Takes)

Spec == Init /\ [][Next]_vars
FairSpec == Spec /\ Fairness

(***************************************************************************)
(* Properties                                                              *)
(***************************************************************************)

\* Every register of sdram_peripheral and sdram_controller holds a value of
\* its width and the timers stay in their ranges.
TypeOK ==
  /\ p \in [state : PState, req : Request, second : BOOLEAN, more : BOOLEAN,
            read : Pair, write : Pair, word_rd : BOOLEAN, word_wr : BOOLEAN,
            word_addr : WordAddr, word_data : Word, response : Word,
            response_pending : BOOLEAN]
  /\ c \in [state : CState, wait : 0 .. WAIT - 1, refresh_counter : 0 .. REFRESH_INTERVAL,
            refresh_pending : BOOLEAN, req_pending : BOOLEAN, req_is_write : BOOLEAN,
            req_addr : WordAddr, req_data : Word,
            pipe : [1 .. STAGES -> {"none", "high", "low"}],
            read_high : Word, word_q : Word, word_busy : BOOLEAN]
  /\ chip \in [WordAddr -> Word] /\ golden \in [0 .. WORDS * LANES - 1 -> Byte]

\* A read is answered with the bytes that the writes accepted before it left
\* there, at any size and alignment, and with zeros out of the window.  ("must
\* not corrupt round-trip word data", sdram_peripheral_test.rs.)
ReadsLatest ==
  p.response_pending /\ ~p.req.we =>
    p.response = [l \in Lane |-> IF InRange(p.req) /\ l < p.req.bytes
                                 THEN golden[p.req.addr + l] ELSE 0]

\* Once a write is answered the memory holds exactly what it should: the bytes
\* written, in both words of a straddling write, and no neighbour changed.
AnsweredIsWritten ==
  p.response_pending => \A a \in DOMAIN golden : golden[a] = chip[a \div LANES][a % LANES]

\* A strobe of sdram_peripheral always finds a controller that can latch it:
\* none is dropped, and none replaces a request that is being carried out.
StrobeLatched ==
  p.word_rd \/ p.word_wr => /\ ~(p.word_rd /\ p.word_wr)
                            /\ ~c.req_pending
                            /\ c.state \in {"idle", "refresh"}

\* The controller does one word at a time: whatever it works on is the command
\* the peripheral issued last.
WorksOnLast ==
  c.req_pending \/ c.state \in {"activate", "activate_wait", "read_0", "read_1", "read_wait",
                                "write_0", "write_1"} =>
    /\ c.req_addr = p.word_addr
    /\ c.req_is_write => c.req_data = p.word_data

\* What the peripheral asks for is what the controller does, also when a
\* refresh comes in between (sdram_peripheral.sv:327, sdram_controller.sv:242).
ControlInv == TypeOK /\ StrobeLatched /\ WorksOnLast

\* Every accepted request is answered, refreshes or not, and a due refresh is
\* carried out however busy the bus keeps the controller.
Served == /\ p.state # "idle" ~> p.state = "idle"
          /\ c.refresh_pending ~> c.state = "refresh"
=============================================================================
