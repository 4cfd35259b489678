------------------------------- MODULE Primes -------------------------------
(***************************************************************************)
(* 1-fork/primes.c: a process writes the numbers from 2 on into a pipe,    *)
(* and a chain of filters, one process for each prime, passes on what its  *)
(* prime does not divide.  What a filter prints goes through the buffer of *)
(* stdio: to a terminal with every line, elsewhere when the process exits, *)
(* and fork copies what is in it.                                          *)
(***************************************************************************)
EXTENDS Unix

CONSTANT Limit      \* numero_limite

PrimesAssumption == Limit \in Nat

VARIABLES
    out,        \* what has reached the output
    terminal    \* whether the output is a terminal

vars == <<os, at, mem, out, terminal>>

(* the child's pid; the pipe made last (pipe_inicial, pipe_filtro) and the *)
(* one read from (arriba_in); the number generated, or read last; the      *)
(* prime of a filter; the buffer of stdout                                 *)
Memory == [pid |-> 0, pipe |-> 0, up |-> 0, numero |-> 2, primo |-> 0, buffer |-> <<>>]

Init ==
    /\ Boot("main", Memory)
    /\ out = <<>>
    /\ terminal \in BOOLEAN

(* exit, which writes what the buffer holds *)
ExitProcess(p, st) ==
    /\ Die(p, Exited(st))
    /\ out' = out \o mem[p].buffer
    /\ UNCHANGED terminal

(* crear_pipe and hacer_fork *)
PipeAndFork(p, parent, child) ==
    IF FreePipes(os) = {} \/ FreePids(os) = {}
    THEN ExitProcess(p, 255)
    ELSE /\ \E o \in {MakePipe(os, p)} :
               ForkTo(p, o, [mem[p] EXCEPT !.pipe = NewPipe(os)], parent, child, "pid")
         /\ UNCHANGED <<out, terminal>>

New(p) == mem[p].pipe
Quiet == UNCHANGED <<out, terminal>>
-----------------------------------------------------------------------------
main(p) ==
    /\ at[p] = "main"
    /\ PipeAndFork(p, "first_filter", "generator")

Generator(p) ==
    /\ at[p] = "generator"
    /\ os' = Close(os, p, R(New(p)))
    /\ UNCHANGED mem
    /\ Goto(p, "generar_numeros") /\ Quiet

(* escribir: a write into a pipe nobody reads kills the writer. *)
escribir(p, Then(_)) ==
    /\ CanWrite(os, W(New(p)))
    /\ IF Broken(os, W(New(p)))
       THEN Die(p, Killed(SIGPIPE))
       ELSE os' = Write(os, W(New(p)), mem[p].numero) /\ Then(p)
    /\ Quiet

NextNumber(p) == mem' = [mem EXCEPT ![p].numero = @ + 1] /\ UNCHANGED at

generar_numeros(p) ==
    /\ at[p] = "generar_numeros"
    /\ IF mem[p].numero <= Limit THEN escribir(p, NextNumber) ELSE ExitProcess(p, 0)

FirstFilter(p) ==
    /\ at[p] = "first_filter"
    /\ os' = Close(os, p, W(New(p)))
    /\ mem' = [mem EXCEPT ![p].up = New(p)]
    /\ Goto(p, "filtro") /\ Quiet
-----------------------------------------------------------------------------
(* filtro: the first number it reads is a prime; at the end of its input   *)
(* it returns, to exit at once in a child, after a wait in main.           *)
filtro(p) ==
    /\ at[p] = "filtro" /\ CanRead(os, R(mem[p].up))
    /\ IF AtEnd(os, R(mem[p].up))
       THEN IF p = 1
            THEN os' = Close(os, p, R(mem[p].up)) /\ Goto(p, "wait") /\ UNCHANGED mem /\ Quiet
            ELSE ExitProcess(p, 0)
       ELSE LET n == Item(os, R(mem[p].up)) IN
            /\ os' = Read(os, R(mem[p].up))
            /\ mem' = [mem EXCEPT ![p].primo = n,
                                  ![p].buffer = IF terminal THEN <<>> ELSE Append(@, n)]
            /\ out' = IF terminal THEN Append(out, n) ELSE out
            /\ Goto(p, "next_filter") /\ UNCHANGED terminal

NextFilter(p) ==
    /\ at[p] = "next_filter"
    /\ PipeAndFork(p, "parent", "child")

(* Mutant: the child keeps the end of the pipe that its parent writes to. *)
ChildEndsKept(o, p) == Close(o, p, R(mem[p].up))

ChildEnds(o, p) == Close(Close(o, p, W(New(p))), p, R(mem[p].up))

Child(p) ==
    /\ at[p] = "child"
    /\ os' = ChildEnds(os, p)
    /\ mem' = [mem EXCEPT ![p].up = New(p)]
    /\ Goto(p, "filtro") /\ Quiet

Parent(p) ==
    /\ at[p] = "parent"
    /\ os' = Close(os, p, R(New(p)))
    /\ UNCHANGED mem
    /\ Goto(p, "sieve") /\ Quiet

Passes(n, primo) == n % primo # 0

(* filtrar_numeros_primos, until the end of the input *)
Sieve(p) ==
    /\ at[p] = "sieve" /\ CanRead(os, R(mem[p].up))
    /\ IF AtEnd(os, R(mem[p].up))
       THEN /\ os' = Close(Close(os, p, R(mem[p].up)), p, W(New(p)))
            /\ Goto(p, "wait") /\ UNCHANGED mem
       ELSE LET n == Item(os, R(mem[p].up)) IN
            /\ os' = Read(os, R(mem[p].up))
            /\ mem' = [mem EXCEPT ![p].numero = n]
            /\ Goto(p, IF Passes(n, mem[p].primo) THEN "pass" ELSE "sieve")
    /\ Quiet

BackToSieve(p) == Goto(p, "sieve") /\ UNCHANGED mem
Pass(p) == at[p] = "pass" /\ escribir(p, BackToSieve)

(* wait(NULL) takes one child, whichever. *)
Wait(p) ==
    /\ at[p] = "wait" /\ WaitReturns(os, p, AnyChild)
    /\ ExitProcess(p, 0)

Step(p) ==
    \/ main(p) \/ Generator(p) \/ generar_numeros(p) \/ FirstFilter(p)
    \/ filtro(p) \/ NextFilter(p) \/ Child(p) \/ Parent(p) \/ Sieve(p) \/ Pass(p) \/ Wait(p)

Next == \E p \in Pids : Step(p)
-----------------------------------------------------------------------------
PrimesUpTo(n) == {k \in 2..n : \A d \in 2..(k - 1) : k % d # 0}
IsSorted(s) == \A i, j \in DOMAIN s : i < j => s[i] < s[j]

(* Only primes are ever printed, and on a terminal they come in order,     *)
(* each once, with none left out, although every one is printed by another *)
(* process.                                                                *)
PrimesInOrder ==
    /\ Range(out) \subseteq PrimesUpTo(Limit)
    /\ terminal => /\ IsSorted(out)
                   /\ \A i \in DOMAIN out : PrimesUpTo(out[i]) \subseteq Range(out)

(* In the end every prime has been printed and no process is left. *)
SieveOver == Range(out) = PrimesUpTo(Limit) /\ \A p \in Pids : at[p] = "gone"
=============================================================================
