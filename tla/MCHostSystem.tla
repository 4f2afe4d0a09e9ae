---------------------------- MODULE MCHostSystem ----------------------------
(***************************************************************************)
(* Small instances of the program, its devices and the host.               *)
(***************************************************************************)
EXTENDS HostSystem

MCVideoShape ==
  [pattern |-> [valid |-> TRUE, width |-> 1, height |-> 2, format |-> 0],
   loop |-> [valid |-> TRUE, width |-> 2, height |-> 1, format |-> 1]]
MCSampleLimit == [rate \in Rates |-> 3]
MCSineTable == <<1, 3>>
MCMessage == <<1, 2>>
MCInput == <<1, 2, 3, 1>>
=============================================================================
