---------------------------- MODULE AudioPlayback ----------------------------
(***************************************************************************)
(* Sample playback on the Analogue Pocket: the audio peripheral, its low-  *)
(* water interrupt through ff_sync into the interrupt controller, and the  *)
(* program that fills the queue (rust-test-program/src/                    *)
(* test_pocket_demo.rs), while the host changes modes and injects or       *)
(* clears interrupts, as the tests of the runtime do.                      *)
(*                                                                         *)
(* The two clocks tick in any order.  An access crosses the bus and a      *)
(* bridge, one at a time (RegisteredBus, BusCdcBridge), so it takes effect *)
(* at any edge after the program came to it; the program goes on from      *)
(* there.  Samples are numbered as they are written, from 0 again when     *)
(* the program starts, and carry their number modulo SAMPLES.              *)
(***************************************************************************)
EXTENDS AudioPeripheral, InterruptController

CONSTANTS SYNC_STAGES,   \* BUS_CDC_SYNC_STAGES
          SAMPLES,       \* sample values told apart
          AUDIO_SOURCE,  \* INTERRUPT_CTRL_SOURCE_AUDIOSYS_FIFO_LOW_WATER
          MAX_FILL       \* MAX_INTERRUPT_FILL_SAMPLES

ASSUME PlaybackAssumption ==
  /\ SYNC_STAGES \in Nat \ {0} /\ SAMPLES \in Nat \ {0} /\ Data = 0 .. SAMPLES - 1
  /\ AUDIO_SOURCE \in Source /\ MAX_FILL \in Nat \ {0}

VARIABLES irq,   \* audiosys_irq_sync
          guest  \* where the program is, its samples to write and their number

vars2 == <<audioVars, ic, irq, guest>>

GuestReset == [pc |-> "mode", fill |-> 0, index |-> 0]

(***************************************************************************)
(* The program.  main: write MODE, prime the queue (FIFO_SPACE samples),   *)
(* enable the interrupt, loop.  machine_external: claim; FIFO_SPACE, at    *)
(* most MAX_FILL samples, complete; return.                                *)
(***************************************************************************)
AudioPcs == {"mode", "prime_space", "prime", "space", "refill"}
IcPcs == {"enable", "claim", "complete"}

GuestAudioAccess ==
  CASE guest.pc = "mode" -> WriteMode("fifo")
    [] guest.pc \in {"prime_space", "space"} -> ReadSpace
    [] guest.pc \in {"prime", "refill"} -> WriteSample(guest.index)

AfterFill(pc) == IF pc = "prime" THEN "enable" ELSE "complete"

Smaller(m, n) == IF m <= n THEN m ELSE n

\* fill_audio_fifo with n samples to write: on to the next access at once if none.
Fill(g, pc, n) == [g EXCEPT !.fill = n, !.pc = IF n = 0 THEN AfterFill(pc) ELSE pc]

\* Wrong variant: the room is not asked for before the interrupt is answered.
AfterSpace_Fixed(g) == IF g.pc = "prime_space" THEN Fill(g, "prime", Space) ELSE Fill(g, "refill", MAX_FILL)

AfterSpace(g) == IF g.pc = "prime_space" THEN Fill(g, "prime", Space)
                 ELSE Fill(g, "refill", Smaller(Space, MAX_FILL))

AfterSample(g) == Fill([g EXCEPT !.index = (@ + 1) % SAMPLES], g.pc, g.fill - 1)

GuestAudio ==
  /\ guest.pc \in AudioPcs
  /\ AudioEdge(GuestAudioAccess)
  /\ guest' = CASE guest.pc = "mode" -> [guest EXCEPT !.pc = "prime_space", !.index = 0]
                [] guest.pc \in {"prime_space", "space"} -> AfterSpace(guest)
                [] guest.pc \in {"prime", "refill"} -> AfterSample(guest)
  /\ UNCHANGED <<ic, irq>>

\* Only the audio source is ever enabled.
AfterClaim(g) == [g EXCEPT !.pc = IF Claim = 0 THEN "loop" ELSE "space"]

(***************************************************************************)
(* An edge of sys_clk: the synchronizer, then the controller with a write  *)
(* of reg; the sources other than audio are not wired.                     *)
(***************************************************************************)
SysEdge(reg, mask) ==
  /\ irq' = [i \in 1 .. SYNC_STAGES |-> IF i = 1 THEN LowWater ELSE irq[i - 1]]
  /\ ic' = IcNext(IF irq[SYNC_STAGES] THEN {AUDIO_SOURCE} ELSE {}, reg, mask)
  /\ UNCHANGED audioVars

GuestIc ==
  CASE guest.pc = "enable" ->
         /\ SysEdge("enable", ic.enable \cup {AUDIO_SOURCE})
         /\ guest' = [guest EXCEPT !.pc = "loop"]
    [] guest.pc = "claim" ->
         /\ SysEdge("none", {})
         /\ guest' = AfterClaim(guest)
    [] guest.pc = "complete" ->
         /\ SysEdge("complete", {AUDIO_SOURCE})
         /\ guest' = [guest EXCEPT !.pc = "loop"]

GuestSys == guest.pc \in IcPcs /\ GuestIc

\* The core takes the interrupt between two instructions of the loop.
Interrupt == /\ guest.pc = "loop" /\ ic.meip
             /\ guest' = [guest EXCEPT !.pc = "claim"]
             /\ UNCHANGED <<audioVars, ic, irq>>

(***************************************************************************)
(* Edges without an access of the program                                  *)
(***************************************************************************)
AudioTick == AudioEdge(Quiet) /\ UNCHANGED <<ic, irq, guest>>
SysTick == SysEdge("none", {}) /\ UNCHANGED guest

HostMode == \E m \in Modes \cup {"reserved"} :
              AudioEdge(WriteMode(m)) /\ UNCHANGED <<ic, irq, guest>>

\* The host fills the queue itself, full or not, before the program runs.
HostSample == /\ guest.pc = "mode"
              /\ AudioEdge(WriteSample(guest.index))
              /\ guest' = [guest EXCEPT !.index = (@ + 1) % SAMPLES]
              /\ UNCHANGED <<ic, irq>>

HostPending == \E reg \in {"pending_set", "pending_clear"}, mask \in SUBSET Source \ {{}} :
                 SysEdge(reg, mask) /\ UNCHANGED guest

\* A reset of the system outlasts the synchronizers of both sides.
SystemReset == /\ AudioResetEdge
               /\ ic' = IcReset
               /\ irq' = [i \in 1 .. SYNC_STAGES |-> FALSE]
               /\ guest' = GuestReset

PlaybackInit == /\ AudioInit
                /\ ic = IcReset
                /\ irq = [i \in 1 .. SYNC_STAGES |-> FALSE]
                /\ guest = GuestReset

PlaybackNext == \/ AudioTick \/ SysTick
                \/ GuestAudio \/ GuestSys \/ Interrupt
                \/ HostMode \/ HostSample \/ HostPending \/ SystemReset

\* The clocks run and the program goes on; the host need not do anything.
Fairness == /\ WF_vars2(AudioTick) /\ WF_vars2(SysTick)
            /\ WF_vars2(GuestAudio) /\ WF_vars2(GuestSys) /\ WF_vars2(Interrupt)

PlaybackSpec == PlaybackInit /\ [][PlaybackNext]_vars2 /\ Fairness

(***************************************************************************)
(* Properties                                                              *)
(***************************************************************************)
PlaybackTypeOK ==
  /\ AudioTypeOK
  /\ ic \in IcState
  /\ irq \in [1 .. SYNC_STAGES -> BOOLEAN]
  /\ guest \in [pc : AudioPcs \cup IcPcs \cup {"loop"}, fill : 0 .. DEPTH, index : Data]

\* The room that FIFO_SPACE reported is still there for every sample the
\* program has left to write: none is dropped for want of room.  ("Software is
\* expected to check FIFO_SPACE before writing", docs/memory-map.md:216.)
SpaceHonest == guest.fill <= Space

\* Playback is paired, in range and never overfilled.
PlaybackInv == PlaybackTypeOK /\ StereoPaired /\ SpaceHonest

\* Once the interrupt is enabled an empty queue is filled again while playback
\* is on, whatever the host injects or clears.  ("remains level-asserted until
\* software refills", docs/memory-map.md:217.)
Refilled ==
  (count = 0 /\ audio.active = "fifo" /\ AUDIO_SOURCE \in ic.enable) ~>
    (count # 0 \/ audio.req # "fifo" \/ AUDIO_SOURCE \notin ic.enable)
=============================================================================
