------------------------------ MODULE Timeout ------------------------------
(***************************************************************************)
(* 1-fork/challenges/timeout.c: a command, and a timer that kills it when  *)
(* it takes too long.  The signal of the timer may come at any point of    *)
(* the parent between the setting and the deletion of the timer.           *)
(***************************************************************************)
EXTENDS Unix

(* The command ends by itself, dying of SIGTERM before or ignoring it, or  *)
(* it never does, or there is no such command.                             *)
CONSTANT Commands

TimeoutAssumption == Commands \subseteq {"ends", "ignores", "hangs", "missing"}

VARIABLES
    command,    \* what the command does
    timer       \* "unset", "set" or "expired"

vars == <<os, at, mem, command, timer>>

SIGTERM == 15

Init ==
    /\ Boot("main", [pid |-> 0])
    /\ command \in Commands
    /\ timer = "unset"

main(p) ==
    /\ at[p] = "main"
    /\ IF FreePids(os) = {} THEN Die(p, Exited(255))
       ELSE ForkTo(p, os, mem[p], "parent", "child", "pid")
    /\ UNCHANGED <<command, timer>>

Child(p) ==
    /\ at[p] = "child"
    /\ IF command = "missing" THEN Die(p, Exited(255)) ELSE Goto(p, "command") /\ UNCHANGED <<os, mem>>
    /\ UNCHANGED <<command, timer>>

CommandEnds(p) ==
    /\ at[p] = "command" /\ command \in {"ends", "ignores"}
    /\ Die(p, Exited(0))
    /\ UNCHANGED <<command, timer>>

(* crear_timer and configurar_timer *)
SetTimer(p) ==
    /\ at[p] = "parent"
    /\ timer' = "set"
    /\ Goto(p, "wait")
    /\ UNCHANGED <<os, mem, command>>

(* wait(NULL), which returns when the command has ended *)
Wait(p) ==
    /\ at[p] = "wait" /\ WaitReturns(os, p, AnyChild)
    /\ os' = Reap(os, Done(os, p, AnyChild))
    /\ Goto(p, "delete")
    /\ UNCHANGED <<mem, command, timer>>

(* timer_delete, and the return from main *)
DeleteTimer(p) ==
    /\ at[p] = "delete"
    /\ timer' = "unset"
    /\ Die(p, Exited(0))
    /\ UNCHANGED command

(* manejador_de_signals interrupts the parent wherever it is, with the pid *)
(* of the command.  kill fails when the command has already been waited    *)
(* for; else the handler waits for it, and the wait it interrupted returns *)
(* with an error.                                                          *)
Expire(p) ==
    /\ timer = "set" /\ at[p] \in {"wait", "delete"}
    /\ timer' = "expired"
    /\ LET c == mem[p].pid IN
       IF c \notin Children(os, p)
       THEN Die(p, Exited(255))
       ELSE IF Zombie(os, c) \/ (at[c] = "command" /\ command = "ignores")
       THEN Goto(p, "handler") /\ UNCHANGED <<os, mem>>
       ELSE /\ os' = Exit(os, c, Killed(SIGTERM))
            /\ at' = [at EXCEPT ![p] = "handler", ![c] = "gone"]
            /\ mem' = [mem EXCEPT ![c] = NoMemory]
    /\ UNCHANGED command

(* Mutant: the handler does not wait. *)
HandlerGoesOn(p) == at[p] = "handler" /\ Goto(p, "delete") /\ UNCHANGED <<os, mem, command, timer>>

HandlerWait(p) ==
    /\ at[p] = "handler" /\ WaitReturns(os, p, AnyChild)
    /\ os' = Reap(os, Done(os, p, AnyChild))
    /\ Goto(p, "delete")
    /\ UNCHANGED <<mem, command, timer>>

Step(p) ==
    \/ main(p) \/ Child(p) \/ CommandEnds(p) \/ SetTimer(p)
    \/ Wait(p) \/ HandlerWait(p) \/ DeleteTimer(p) \/ Expire(p)

Next == \E p \in Pids : Step(p)
-----------------------------------------------------------------------------
(* When timeout has ended, so has the command, whenever the timer strikes. *)
NoCommandLeft == at[1] = "gone" => \A p \in Pids : at[p] = "gone"

TimeoutOver == at[1] = "gone"
=============================================================================
