------------------------------- MODULE MCBoot -------------------------------
(***************************************************************************)
(* The machines Boot is checked with: one to four processors of which the  *)
(* kernel can hold three, tables with entries it skips or does not know,   *)
(* no table at all, memories from too small to ample, and one or two       *)
(* environments.                                                           *)
(***************************************************************************)
EXTENDS Boot

Machine(npages, conf, table, nenvs) ==
  [npages |-> npages, conf |-> conf, table |-> table, nenvs |-> nenvs]

Four == <<"boot", "bus", "cpu", "cpu", "cpu", "bus">>
Three == <<"bus", "boot", "cpu", "cpu">>
Broken == <<"boot", "cpu", "unknown", "cpu">>

MCMachines ==
  {Machine(40, TRUE, t, n) : t \in {Four, Three, Broken, <<"boot">>}, n \in 1 .. 2}
  \cup {Machine(n, TRUE, Three, 1) : n \in 8 .. 24}
  \cup {Machine(40, FALSE, Three, 1)}

=============================================================================
