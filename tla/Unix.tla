-------------------------------- MODULE Unix --------------------------------
(***************************************************************************)
(* The part of the operating system that the programs of 2-shell and      *)
(* 1-fork use: processes with their parents, process groups and           *)
(* descriptors, pipes, and the SIGCHLD signal.  It is not code of this     *)
(* repository: each operator says what one system call does to the state  *)
(* `o` of the system, as the programs rely on it.                          *)
(***************************************************************************)
EXTENDS Integers, Sequences, FiniteSets, Functions

CONSTANTS
    NProc,      \* how many processes there can be at a time
    NPipe,      \* how many pipes there can be at a time
    PipeSize    \* how many items a pipe holds

ASSUME UnixAssumption ==
    NProc \in Nat \ {0} /\ NPipe \in Nat /\ PipeSize \in Nat \ {0}

VARIABLES
    os,     \* processes and pipes
    at,     \* where each process is in its program
    mem     \* the memory of each process: fork copies it

Pids == 1..NProc
InitPid == 0        \* the process that inherits orphans

(* A descriptor is open on an end of a pipe, on a file, on the terminal,  *)
(* or closed.                                                             *)
R(k) == <<"read", k>>
W(k) == <<"write", k>>
File(f) == <<"file", f>>
Tty == <<"tty", "tty">>
Closed == <<"closed", "">>

Stdin == 0
Stdout == 1
Stderr == 2

(* Status words, as wait gives them and the W macros take them apart.     *)
Exited(n) == 256 * (n % 256)
Killed(s) == s
WIFEXITED(w) == w % 128 = 0
WEXITSTATUS(w) == (w \div 256) % 256
WTERMSIG(w) == w % 128
WIFSIGNALED(w) == WTERMSIG(w) \in 1..126
WSTOPSIG(w) == WEXITSTATUS(w)
SIGPIPE == 13

(* The system when process 1 has been started from a terminal.  `open`    *)
(* holds the descriptors other than the standard three.                   *)
Booted ==
    [state   |-> [p \in Pids |-> IF p = 1 THEN "run" ELSE "none"],
     parent  |-> [p \in Pids |-> InitPid],
     group   |-> [p \in Pids |-> p],
     status  |-> [p \in Pids |-> Exited(0)],
     fd      |-> [p \in Pids |-> [n \in Stdin..Stderr |-> IF p = 1 THEN Tty ELSE Closed]],
     open    |-> [p \in Pids |-> {}],
     buf     |-> [k \in 1..NPipe |-> <<>>],
     sigchld |-> [p \in Pids |-> FALSE]]

Running(o, p) == o.state[p] = "run"
Zombie(o, p) == o.state[p] = "zombie"
Children(o, p) == {c \in Pids : o.state[c] # "none" /\ o.parent[c] = p}

Held(o, p) == o.open[p] \cup Range(o.fd[p])
Holders(o, e) == {p \in Pids : Running(o, p) /\ e \in Held(o, p)}
FreePipes(o) == {k \in 1..NPipe : Holders(o, R(k)) \cup Holders(o, W(k)) = {}}

(* A pid is free when neither a process nor a group has it. *)
FreePids(o) ==
    {p \in Pids : /\ o.state[p] = "none"
                  /\ \A q \in Pids : o.group[q] = p => o.state[q] = "none"}
Lowest(S) == CHOOSE n \in S : \A m \in S : n <= m
-----------------------------------------------------------------------------
(* fork: the child has its parent's descriptors and group, and no pending *)
(* signal.  Which pid it gets does not matter to the programs.            *)
NewPid(o) == Lowest(FreePids(o))
Fork(o, p, c) ==
    [o EXCEPT !.state[c] = "run", !.parent[c] = p, !.group[c] = o.group[p],
              !.status[c] = Exited(0), !.fd[c] = o.fd[p], !.open[c] = o.open[p],
              !.sigchld[c] = FALSE]

Setpgid(o, p) == [o EXCEPT !.group[p] = p]

(* pipe: two new descriptors of process p *)
NewPipe(o) == Lowest(FreePipes(o))
MakePipe(o, p) ==
    LET k == NewPipe(o) IN
    [o EXCEPT !.buf[k] = <<>>, !.open[p] = @ \cup {R(k), W(k)}]

Close(o, p, e) == [o EXCEPT !.open[p] = @ \ {e}]
Dup2(o, p, e, n) == [o EXCEPT !.fd[p][n] = e]

(* read and write: a read waits for an item while somebody may write; a   *)
(* write waits for room while somebody may read.                          *)
CanRead(o, e) == e[1] = "read" => o.buf[e[2]] # <<>> \/ Holders(o, W(e[2])) = {}
AtEnd(o, e) == e[1] = "read" => o.buf[e[2]] = <<>>
Item(o, e) == Head(o.buf[e[2]])
Read(o, e) == [o EXCEPT !.buf[e[2]] = Tail(@)]

CanWrite(o, e) ==
    e[1] = "write" => Len(o.buf[e[2]]) < PipeSize \/ Holders(o, R(e[2])) = {}
Broken(o, e) == e[1] = "write" /\ Holders(o, R(e[2])) = {}
Write(o, e, x) == IF e[1] = "write" THEN [o EXCEPT !.buf[e[2]] = Append(@, x)] ELSE o

(* exit, or death by a signal: the descriptors are closed, the children   *)
(* are left to init, which reaps them, and the parent gets SIGCHLD.       *)
Exit(o, p, st) ==
    LET orphan(c) == c \in Children(o, p)
        next(c) == IF c = p THEN IF o.parent[p] = InitPid THEN "none" ELSE "zombie"
                   ELSE IF orphan(c) /\ Zombie(o, c) THEN "none" ELSE o.state[c]
    IN  [o EXCEPT !.state = [c \in Pids |-> next(c)],
                  !.parent = [c \in Pids |-> IF orphan(c) THEN InitPid ELSE o.parent[c]],
                  !.status[p] = st,
                  !.fd[p] = [n \in Stdin..Stderr |-> Closed], !.open[p] = {},
                  !.sigchld = [c \in Pids |-> IF c = p THEN FALSE
                                              ELSE o.sigchld[c] \/ c = o.parent[p]]]

(* waitpid has taken the children C *)
Reap(o, C) == [o EXCEPT !.state = [c \in Pids |-> IF c \in C THEN "none" ELSE @[c]]]

(* waitpid(c, ...) by p: whether it returns, and the child it takes.      *)
(* AnyChild is the pid -1.                                                *)
AnyChild == -1
Awaited(o, p, c) == IF c = AnyChild THEN Children(o, p) ELSE Children(o, p) \cap {c}
Done(o, p, c) == {z \in Awaited(o, p, c) : Zombie(o, z)}
WaitReturns(o, p, c) == Awaited(o, p, c) = {} \/ Done(o, p, c) # {}
-----------------------------------------------------------------------------
(* Steps of a program, for process p. *)
NoMemory == <<>>

Goto(p, label) == at' = [at EXCEPT ![p] = label]

(* p ends with the status word. *)
Die(p, word) ==
    /\ os' = Exit(os, p, word)
    /\ Goto(p, "gone")
    /\ mem' = [mem EXCEPT ![p] = NoMemory]

(* p forks in the system o: the child starts at the label `child` with a   *)
(* copy of its parent's memory m, the parent goes on at `parent` with the  *)
(* child's pid in its variable `var`, or -1 if there is no child.          *)
ForkTo(p, o, m, parent, child, var) ==
    \E c \in {NewPid(o)} :
        /\ os' = Fork(o, p, c)
        /\ at' = [at EXCEPT ![p] = parent, ![c] = child]
        /\ mem' = [mem EXCEPT ![c] = m, ![p] = [m EXCEPT ![var] = c]]

ForkFails(p, o, parent, var) ==
    /\ os' = o
    /\ Goto(p, parent)
    /\ mem' = [mem EXCEPT ![p][var] = -1]

(* The system starts process 1 at the label, with its memory. *)
Boot(label, memory) ==
    /\ os = Booted
    /\ at = [p \in Pids |-> IF p = 1 THEN label ELSE "gone"]
    /\ mem = [p \in Pids |-> IF p = 1 THEN memory ELSE NoMemory]
=============================================================================
