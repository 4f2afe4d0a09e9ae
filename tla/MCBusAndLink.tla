----------------------------- MODULE MCBusAndLink -----------------------------
(***************************************************************************)
(* Small instances of the registered bus, with three masters and two       *)
(* slaves, and of host_bus_interface, the master in front of it: CPU       *)
(* writes, and bursts of the host in both directions, incrementing and     *)
(* fixed, of up to three beats, two of them running over the top of an     *)
(* eight-byte address space.  A behaviour is one of the two; the other's   *)
(* registers stay as they are after power-on.                              *)
(***************************************************************************)
EXTENDS RegisteredBus, HostBusInterface

VARIABLE part   \* "bus" or "link"

M(we, size, fix, len, addr) ==
  [we |-> we, size |-> size, sfix |-> fix /\ ~we, dfix |-> fix /\ we,
   len |-> len, addr |-> addr]

MCCpuRequest == {M(TRUE, 2, FALSE, 0, 4)}

MCHostRequest == {M(FALSE, 1, FALSE, 2, 4), M(TRUE, 2, FALSE, 1, 4), M(FALSE, 0, TRUE, 1, 3)}

\* Data only travels through the interface, so words that tell their place in
\* the burst and their owner show every loss, repetition and exchange.
MCWords(k) == {k + 1}

ASSUME LinkAssumption == SizesAssumption /\ RequestAssumption

MCInit == /\ part \in {"bus", "link"} /\ BusInit /\ Init
          /\ part = "bus" => link.meta.len = 2 /\ slice.beat.req

MCNext == \/ part = "bus" /\ BusClock /\ UNCHANGED <<part, vars>>
          \/ part = "link" /\ Next /\ UNCHANGED <<part, bus_vars>>

\* What rests after power-on has nothing to do, so each fairness binds only the
\* behaviours of its own part.
MCSpec == /\ MCInit /\ [][MCNext]_<<part, vars, bus_vars>>
          /\ BusFairness
          /\ Fairness
=============================================================================
