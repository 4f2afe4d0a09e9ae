------------------------- MODULE InterruptController -------------------------
(***************************************************************************)
(* rtl/common/peripherals/external_interrupt_controller.sv: latches its    *)
(* sources as pending bits and raises meip while an enabled one is set.    *)
(*                                                                         *)
(* An access is a write of one register with a set of sources (COMPLETE    *)
(* names one).  A read changes nothing; CLAIM is the only one used.        *)
(***************************************************************************)
EXTENDS Naturals

CONSTANT NUM_SOURCES

VARIABLE ic

Source == 1 .. NUM_SOURCES

IcRegisters == {"enable", "complete", "pending_set", "pending_clear", "none"}

IcReset == [pending |-> {}, enable |-> {}, meip |-> FALSE]

\* Lowest source first, 0 when no enabled source is pending.
Claim == LET ready == ic.pending \cap ic.enable
         IN  IF ready = {} THEN 0 ELSE CHOOSE s \in ready : \A t \in ready : s <= t

EnableNext(reg, mask) == IF reg = "enable" THEN mask ELSE ic.enable

\* Wrong variant: a source is latched when it rises, and a clear takes it away
\* even while it is up.
PendingNext_ClearWins(irq, reg, mask) ==
  IF reg \in {"complete", "pending_clear"} THEN (ic.pending \cup irq) \ mask
  ELSE ic.pending \cup irq \cup (IF reg = "pending_set" THEN mask ELSE {})

\* A clear loses against a source that is up in the same cycle.
PendingNext(irq, reg, mask) ==
  (IF reg \in {"complete", "pending_clear"} THEN ic.pending \ mask ELSE ic.pending)
    \cup irq \cup (IF reg = "pending_set" THEN mask ELSE {})

\* One clock edge; irq are the sources that are up.
IcNext(irq, reg, mask) ==
  [pending |-> PendingNext(irq, reg, mask),
   enable  |-> EnableNext(reg, mask),
   meip    |-> PendingNext(irq, reg, mask) \cap EnableNext(reg, mask) # {}]

IcState == [pending : SUBSET Source, enable : SUBSET Source, meip : BOOLEAN]
=============================================================================
