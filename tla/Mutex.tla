------------------------------- MODULE Mutex -------------------------------
(***************************************************************************)
(* What the spin lock of the JOS kernel promises its users: at most one    *)
(* CPU owns the lock, and only the owner gives it up.  Kernel.tla takes    *)
(* the big kernel lock as the variable owner of this specification;        *)
(* SpinLock.tla is shown to implement it.                                  *)
(***************************************************************************)
CONSTANTS CPUs,     \* the processors
          NoCPU     \* the owner of a lock nobody holds

VARIABLE owner

(* The owner is a CPU or nobody. *)
TypeOK == owner \in CPUs \cup {NoCPU}

Init == owner = NoCPU

Acquire(c) ==
  /\ owner = NoCPU
  /\ owner' = c

Release(c) ==
  /\ owner = c
  /\ owner' = NoCPU

Next == \E c \in CPUs : Acquire(c) \/ Release(c)

Spec == Init /\ [][Next]_owner
=============================================================================
