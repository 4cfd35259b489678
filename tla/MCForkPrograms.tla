--------------------------- MODULE MCForkPrograms ---------------------------
(***************************************************************************)
(* The programs of 1-fork, one chosen at the start, over the system of     *)
(* Unix.                                                                    *)
(***************************************************************************)
EXTENDS Integers, Sequences

CONSTANTS NProc, NPipe, PipeSize, Limit, NARGS, MaxInput, Commands

VARIABLES prog, os, at, mem, out, terminal, exists, command, timer
vars == <<prog, os, at, mem, out, terminal, exists, command, timer>>

P == INSTANCE Primes
X == INSTANCE Xargs
T == INSTANCE Timeout

ASSUME P!PrimesAssumption /\ X!XargsAssumption /\ T!TimeoutAssumption

(* The variables of the other programs keep a value that means nothing. *)
Init ==
    \/ /\ prog = "primes" /\ P!Init
       /\ exists = FALSE /\ command = "unused" /\ timer = "unset"
    \/ /\ prog = "xargs" /\ X!Init
       /\ terminal = FALSE /\ command = "unused" /\ timer = "unset"
    \/ /\ prog = "timeout" /\ T!Init
       /\ out = <<>> /\ terminal = FALSE /\ exists = FALSE

Step(p) ==
    \/ prog = "primes" /\ P!Step(p) /\ UNCHANGED <<prog, exists, command, timer>>
    \/ prog = "xargs" /\ X!Step(p) /\ UNCHANGED <<prog, terminal, command, timer>>
    \/ prog = "timeout" /\ T!Step(p) /\ UNCHANGED <<prog, out, terminal, exists>>

Next == \E p \in P!Pids : Step(p)

(* Every process goes on. *)
Fairness == \A p \in P!Pids : WF_vars(Step(p))
Spec == Init /\ [][Next]_vars /\ Fairness

(* primes prints primes only, in order on a terminal; in the end it has    *)
(* printed them all and no process is left: no filter waits for ever for   *)
(* the end of its input (primes.c:79-140).                                 *)
SievePromise ==
    /\ [](prog = "primes" => P!PrimesInOrder)
    /\ <>[](prog = "primes" => P!SieveOver)

(* xargs runs one command after the other on the exact batches of lines,   *)
(* and everything ends, also when the command does not exist and every     *)
(* child goes on with the rest of the input (xargs.c:28-41, 65-76, 92-99). *)
XargsPromise ==
    /\ [](prog = "xargs" /\ exists => X!BatchesExact)
    /\ <>[](prog = "xargs" => X!XargsOver)

(* timeout ends, even if the command would not, and the command never      *)
(* outlives it, whenever the timer strikes (timeout.c:30-42, 114-135).     *)
TimeoutPromise ==
    /\ [](prog = "timeout" => T!NoCommandLeft)
    /\ <>[](prog = "timeout" => T!TimeoutOver)
=============================================================================
