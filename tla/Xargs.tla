-------------------------------- MODULE Xargs --------------------------------
(***************************************************************************)
(* 1-fork/xargs.c: the lines of the input become the arguments of a        *)
(* command, NARGS at a time.  The input is in the buffer of stdio, which   *)
(* the first getline fills and fork copies: inputs larger than the buffer, *)
(* or that come in parts, are not modelled.                                *)
(***************************************************************************)
EXTENDS Unix, SequencesExt

CONSTANTS NARGS, MaxInput   \* the longest input

XargsAssumption == NARGS \in Nat \ {0} /\ MaxInput \in Nat

VARIABLES
    out,        \* the arguments of every command run so far
    exists      \* whether execvp finds the command

vars == <<os, at, mem, out, exists>>

(* the child's pid; the lines not read yet; comandos from 1 on; iterador *)
Init ==
    /\ \E n \in 0..MaxInput :
          Boot("main", [pid |-> 0, rest |-> [i \in 1..n |-> i], comandos |-> <<>>, iterador |-> 1])
    /\ out = <<>>
    /\ exists \in BOOLEAN

(* a line of the input, or its end *)
main(p) ==
    /\ at[p] = "main"
    /\ IF mem[p].rest # <<>>
       THEN /\ mem' = [mem EXCEPT ![p].comandos = Append(@, Head(mem[p].rest)),
                                  ![p].rest = Tail(@)]
            /\ Goto(p, "check")
       ELSE Goto(p, "last") /\ UNCHANGED mem
    /\ UNCHANGED <<os, out, exists>>

(* leer_comandos: the child runs the command, the parent waits for it. *)
leer_comandos(p, parent, child) ==
    /\ IF FreePids(os) = {}
       THEN Die(p, Exited(255))
       ELSE ForkTo(p, os, mem[p], parent, child, "pid")
    /\ UNCHANGED <<out, exists>>

(* Mutant: one argument too many fits. *)
ReachedLate(iterador) == iterador > NARGS

(* verificar_numero_argumentos_alcanzado *)
Reached(iterador) == iterador = NARGS

Check(p) ==
    /\ at[p] = "check"
    /\ IF Reached(mem[p].iterador)
       THEN leer_comandos(p, "wait", "exec")
       ELSE /\ mem' = [mem EXCEPT ![p].iterador = @ + 1]
            /\ Goto(p, "main") /\ UNCHANGED <<os, out, exists>>

(* the last batch, run even when it is empty *)
LastBatch(p) == at[p] = "last" /\ leer_comandos(p, "wait_last", "exec_last")

(* liberar_memoria: the next batch starts *)
NewBatch(p) == mem' = [mem EXCEPT ![p].comandos = <<>>, ![p].iterador = 1]

(* The child.  A command that does not exist lets it fall through into its *)
(* parent's code, with its copy of the input.                              *)
Exec(p) ==
    /\ at[p] \in {"exec", "exec_last"}
    /\ IF exists
       THEN out' = Append(out, mem[p].comandos) /\ Goto(p, "command") /\ UNCHANGED <<os, mem>>
       ELSE /\ UNCHANGED out
            /\ IF at[p] = "exec" THEN NewBatch(p) /\ Goto(p, "main") /\ UNCHANGED os
               ELSE Die(p, Exited(0))
    /\ UNCHANGED exists

CommandEnds(p) == at[p] = "command" /\ Die(p, Exited(0)) /\ UNCHANGED <<out, exists>>

Wait(p) ==
    /\ at[p] \in {"wait", "wait_last"} /\ WaitReturns(os, p, AnyChild)
    /\ IF at[p] = "wait"
       THEN \E z \in Done(os, p, AnyChild) : os' = Reap(os, {z}) /\ NewBatch(p) /\ Goto(p, "main")
       ELSE Die(p, Exited(0))
    /\ UNCHANGED <<out, exists>>

Step(p) == main(p) \/ Check(p) \/ LastBatch(p) \/ Exec(p) \/ CommandEnds(p) \/ Wait(p)

Next == \E p \in Pids : Step(p)
-----------------------------------------------------------------------------
(* The commands get the lines in order, each line once, NARGS to all but   *)
(* the last one, which gets fewer; never two of them run at the same time, *)
(* and none is left when xargs has ended.                                  *)
BatchesExact ==
    /\ \A i \in DOMAIN out : \A j \in DOMAIN out[i] : out[i][j] = (i - 1) * NARGS + j
    /\ \A i \in DOMAIN out : Len(out[i]) <= NARGS /\ (i < Len(out) => Len(out[i]) = NARGS)
    /\ \A p, q \in Pids : at[p] = "command" /\ at[q] = "command" => p = q
    /\ at[1] = "gone" => \A p \in Pids : at[p] = "gone"

(* In the end no process is left and, when the command exists, the lines   *)
(* have been used up, the last batch being one of fewer than NARGS.        *)
XargsOver ==
    /\ \A p \in Pids : at[p] = "gone"
    /\ exists => out # <<>> /\ Len(Last(out)) < NARGS
=============================================================================
