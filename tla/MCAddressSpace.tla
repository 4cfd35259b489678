---------------------------- MODULE MCAddressSpace ----------------------------
(***************************************************************************)
(* The workloads AddressSpace is checked with: two forks in a row or one   *)
(* inside the other; one fork among other system calls; and one fork on    *)
(* machines whose memory is exhausted at each point of it.                 *)
(***************************************************************************)
EXTENDS AddressSpace

Workload(npages, fork, forks, acts) ==
  [npages |-> npages, fork |-> fork, forks |-> forks, acts |-> acts]

MCWorkloads ==
  {Workload(24, "fork", 2, 0), Workload(16, "fork", 1, 2), Workload(13, "fork", 1, 2),
   Workload(16, "fork_v0", 1, 2)}
  \cup {Workload(n, fork, 1, 1) : n \in 5 .. 14, fork \in {"fork", "fork_v0"}}

===============================================================================
