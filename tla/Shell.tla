------------------------------- MODULE Shell -------------------------------
(***************************************************************************)
(* The shell of 2-shell at work: the prompt, a process for every command   *)
(* and two for every pipe, process groups, waiting, and the handler of     *)
(* SIGCHLD (sh.c, runcmd.c, exec.c, printstatus.c).  Each process takes    *)
(* one step from one system call that others can notice to the next.       *)
(***************************************************************************)
EXTENDS Unix, ShellParse

CONSTANTS
    Lines,          \* the lines the user may type
    MaxLines,       \* how many of them
    Unopenable,     \* files that open(2) refuses
    Programs,       \* what execvp finds: a program's behaviour, by name
    FailingForks    \* which calls of fork(2) may fail, by the variable of the child's pid

ASSUME ShellAssumption ==
    /\ Lines \subseteq Seq(Tokens) \ {<<>>} /\ MaxLines \in Nat
    /\ \A w \in DOMAIN Programs : Programs[w] \in [reads : BOOLEAN, writes : Nat, exit : 0..255]
    /\ FailingForks \subseteq {"pid", "pid_l", "pid_r"}

vars == <<os, at, mem>>

sh == 1             \* the shell's own process
EXIT_FAILURE == 255 \* exit(-1)
NoProgram == ""

(* What a process remembers: the command it is to carry out, the line it   *)
(* comes from, the children it waits for, the shell's `status`, the number *)
(* of lines typed; of a program that runs, its name, the items it still    *)
(* has to write, and whether it has seen the end of its input.             *)
Memory ==
    [tree |-> NULL, line |-> <<>>, pid |-> 0, pid_l |-> 0, pid_r |-> 0, status |-> 0,
     typed |-> 0, prog |-> NoProgram, todo |-> 0, eof |-> FALSE]

Init == Boot("prompt", Memory)

(* A fork of the shell may fail for want of a process, or for any reason.  *)
Forking(p, o, parent, child, var) ==
    \/ FreePids(o) # {} /\ ForkTo(p, o, mem[p], parent, child, var)
    \/ (FreePids(o) = {} \/ var \in FailingForks) /\ ForkFails(p, o, parent, var)
-----------------------------------------------------------------------------
(* The shell's own process: run_shell and run_cmd. *)

(* read_line gives a line, which is parsed, or the end of the input. *)
ReadLine(p) ==
    /\ at[p] = "prompt"
    /\ \/ \E line \in Lines :
            /\ mem[p].typed < MaxLines
            /\ mem' = [mem EXCEPT ![p].line = line, ![p].tree = parse_line[line],
                                  ![p].typed = @ + 1]
            /\ Goto(p, "fork")
            /\ UNCHANGED os
       \/ Die(p, Exited(0))

RunCmdFork(p) ==
    /\ at[p] = "fork"
    /\ Forking(p, os, "wait", "child", "pid")

(* Mutant: every command stays in the shell's group. *)
OwnGroupNever(o, p, tree) == o

(* The child puts itself into a group of its own, unless it runs in the    *)
(* background.                                                             *)
OwnGroup(o, p, tree) == IF tree.type # "BACK" THEN Setpgid(o, p) ELSE o

RunCmdChild(p) ==
    /\ at[p] = "child"
    /\ os' = OwnGroup(os, p, mem[p].tree)
    /\ Goto(p, "exec")
    /\ UNCHANGED mem

(* what print_status_info makes of the status word *)
StatusInfo(tree, w) ==
    IF tree.type = "PIPE" THEN w
    ELSE IF WIFEXITED(w) THEN WEXITSTATUS(w)
    ELSE IF WIFSIGNALED(w) THEN -WTERMSIG(w)
    ELSE -WSTOPSIG(w)

(* waitpid of process p for child c: the child it takes, its status word   *)
(* stored in the field `var`, or an error when there is none.              *)
Waited(p, c, Then(_)) ==
    \/ \E z \in Done(os, p, c) : os' = Reap(os, {z}) /\ Then(os.status[z])
    \/ Awaited(os, p, c) = {} /\ UNCHANGED os /\ Then(mem[p].status)

(* The parent waits for the command, or only looks whether one in the      *)
(* background has already ended.                                           *)
RunCmdWait(p) ==
    LET tree == mem[p].tree
        prompt(w) == mem' = [mem EXCEPT ![p].status = w, ![p].tree = NULL]
    IN  /\ at[p] = "wait"
        /\ Goto(p, "prompt")
        /\ IF tree.type = "BACK"
           THEN \/ Waited(p, mem[p].pid, prompt)
                \/ ~WaitReturns(os, p, mem[p].pid) /\ UNCHANGED os /\ prompt(mem[p].status)
           ELSE Waited(p, mem[p].pid, LAMBDA w : prompt(StatusInfo(tree, w)))
-----------------------------------------------------------------------------
(* The handler of SIGCHLD, which the children inherit until they exec: it  *)
(* takes every ended child of its process's group.                         *)
InGroup(o, p) == {z \in Done(o, p, AnyChild) : o.group[z] = o.group[p]}

(* Mutant: the handler takes one child each time. *)
ReapedOnce(o, p) == IF InGroup(o, p) = {} THEN {} ELSE {Lowest(InGroup(o, p))}

Reaped(o, p) == InGroup(o, p)

sigchld_handler(p) ==
    /\ Running(os, p) /\ os.sigchld[p] /\ at[p] # "prog"
    /\ os' = [Reap(os, Reaped(os, p)) EXCEPT !.sigchld[p] = FALSE]
    /\ UNCHANGED <<at, mem>>
-----------------------------------------------------------------------------
(* exec_cmd.  The descriptors of a command after its redirections, output, *)
(* input and errors in this order; a file for errors that cannot be opened *)
(* is only complained about.                                               *)
ToOut(f, c) == IF c.out_file = "" THEN f ELSE [f EXCEPT ![Stdout] = File(c.out_file)]
FromIn(f, c) == IF c.in_file = "" THEN f ELSE [f EXCEPT ![Stdin] = File(c.in_file)]
ToErr(f, c) ==
    IF c.err_file \in {""} \cup Unopenable THEN f
    ELSE [f EXCEPT ![Stderr] = IF c.err_file = "&1" THEN f[Stdout] ELSE File(c.err_file)]
Redirected(f, c) == ToErr(FromIn(ToOut(f, c), c), c)

(* the command under BACK *)
Foreground(tree) == IF tree.type = "BACK" THEN tree.c ELSE tree

(* EXEC, BACK and REDIR: the redirections, then the program, which starts  *)
(* without the shell's handler.                                            *)
ExecCommand(p) ==
    LET c == Foreground(mem[p].tree) IN
    /\ at[p] = "exec" /\ c.type \in {"EXEC", "REDIR"}
    /\ IF {c.out_file, c.in_file} \cap Unopenable # {} \/ c.argv = <<>>
          \/ c.argv[1][2] \notin DOMAIN Programs
       THEN Die(p, Exited(EXIT_FAILURE))
       ELSE LET w == c.argv[1][2] IN
            /\ os' = [os EXCEPT !.fd[p] = Redirected(@, c), !.sigchld[p] = FALSE]
            /\ mem' = [mem EXCEPT ![p].tree = NULL, ![p].prog = w,
                                  ![p].todo = Programs[w].writes]
            /\ Goto(p, "prog")

(* PIPE: the pipe and the process on its left. *)
ExecPipe(p) ==
    /\ at[p] = "exec" /\ mem[p].tree.type = "PIPE"
    /\ IF FreePipes(os) = {}
       THEN Die(p, Exited(EXIT_FAILURE))
       ELSE \E o \in {MakePipe(os, p)} : Forking(p, o, "left_forked", "left", "pid_l")

(* the ends of the pipe that p has made or inherited from its parent *)
ReadEnd(p) == CHOOSE e \in os.open[p] : e[1] = "read"
WriteEnd(p) == CHOOSE e \in os.open[p] : e[1] = "write"

(* When the first fork or the second fails, the process ends, without      *)
(* waiting for the left one.                                               *)
ForkRight(p) ==
    /\ at[p] = "left_forked"
    /\ IF mem[p].pid_l = -1
       THEN Die(p, Exited(EXIT_FAILURE))
       ELSE Forking(p, os, "right_forked", "right", "pid_r")

(* Mutant: the process keeps the write end. *)
BothClosedNot(o, p) == Close(o, p, ReadEnd(p))

BothClosed(o, p) == Close(Close(o, p, ReadEnd(p)), p, WriteEnd(p))

ClosePipe(p) ==
    /\ at[p] = "right_forked"
    /\ IF mem[p].pid_r = -1
       THEN Die(p, Exited(EXIT_FAILURE))
       ELSE /\ os' = BothClosed(os, p)
            /\ Goto(p, "wait_left")
            /\ UNCHANGED mem

(* Mutant: the left process keeps its copy of the write end. *)
LeftEndsKept(o, p) == Close(Dup2(o, p, WriteEnd(p), Stdout), p, ReadEnd(p))

(* The left process writes into the pipe, the right one reads from it.     *)
LeftEnds(o, p) == Close(LeftEndsKept(o, p), p, WriteEnd(p))
RightEnds(o, p) ==
    Close(Dup2(Close(o, p, WriteEnd(p)), p, ReadEnd(p), Stdin), p, ReadEnd(p))

LeftChild(p) ==
    /\ at[p] = "left"
    /\ os' = LeftEnds(os, p)
    /\ mem' = [mem EXCEPT ![p].tree = @.leftcmd]
    /\ Goto(p, "exec")

RightChild(p) ==
    /\ at[p] = "right"
    /\ os' = RightEnds(os, p)
    /\ mem' = [mem EXCEPT ![p].tree = @.rightcmd]
    /\ Goto(p, "exec")

(* Mutant: it waits for the right process only. *)
WaitLeftSkipped(p) == at[p] = "wait_left" /\ Goto(p, "wait_right") /\ UNCHANGED <<os, mem>>

WaitLeft(p) ==
    /\ at[p] = "wait_left"
    /\ Waited(p, mem[p].pid_l, LAMBDA w : UNCHANGED mem)
    /\ Goto(p, "wait_right")

WaitRight(p) ==
    /\ at[p] = "wait_right"
    /\ WaitReturns(os, p, mem[p].pid_r)
    /\ Die(p, Exited(0))
-----------------------------------------------------------------------------
(* The programs that are run: one writes, another copies its input until   *)
(* it ends, a third does neither.                                          *)
Behaviour(p) == Programs[mem[p].prog]
Input(p) == os.fd[p][Stdin]
Output(p) == os.fd[p][Stdout]

ProgramRead(p) ==
    /\ at[p] = "prog" /\ mem[p].todo = 0 /\ Behaviour(p).reads /\ ~mem[p].eof
    /\ CanRead(os, Input(p))
    /\ IF AtEnd(os, Input(p))
       THEN UNCHANGED os /\ mem' = [mem EXCEPT ![p].eof = TRUE]
       ELSE os' = Read(os, Input(p)) /\ mem' = [mem EXCEPT ![p].todo = 1]
    /\ UNCHANGED at

ProgramWrite(p) ==
    /\ at[p] = "prog" /\ mem[p].todo > 0 /\ CanWrite(os, Output(p))
    /\ IF Broken(os, Output(p))
       THEN Die(p, Killed(SIGPIPE))
       ELSE /\ os' = Write(os, Output(p), "x")
            /\ mem' = [mem EXCEPT ![p].todo = @ - 1]
            /\ UNCHANGED at

ProgramExit(p) ==
    /\ at[p] = "prog" /\ mem[p].todo = 0 /\ (Behaviour(p).reads => mem[p].eof)
    /\ Die(p, Exited(Behaviour(p).exit))
-----------------------------------------------------------------------------
Step(p) ==
    \/ ReadLine(p) \/ RunCmdFork(p) \/ RunCmdChild(p) \/ RunCmdWait(p)
    \/ ExecCommand(p) \/ ExecPipe(p) \/ ForkRight(p) \/ ClosePipe(p)
    \/ LeftChild(p) \/ RightChild(p) \/ WaitLeft(p) \/ WaitRight(p)
    \/ ProgramRead(p) \/ ProgramWrite(p) \/ ProgramExit(p)

Next == \E p \in Pids : Step(p) \/ sigchld_handler(p)

(* Every process goes on, except that the user need not type anything, and *)
(* a signal is delivered in the end.                                       *)
Fairness ==
    \A p \in Pids : WF_vars(at[p] # "prompt" /\ Step(p)) /\ WF_vars(sigchld_handler(p))

Spec == Init /\ [][Next]_vars /\ Fairness
-----------------------------------------------------------------------------
(* A program that runs holds no descriptor but its standard ones, an end   *)
(* of a pipe is held by one program at most, and the programs of a         *)
(* pipeline are wired in the order in which they are typed: the output of  *)
(* each is the pipe that the next one reads, unless they are redirected to *)
(* files (exec.c:186-216).  The place of a word comes from the line as it  *)
(* was typed, not from the parser.                                         *)
PlaceIn(line, w) ==
    Cardinality({i \in 1..SelectInSeq(line, LAMBDA t : t = Word(w)) : IsPipe(line[i])})
Place(p) == PlaceIn(mem[p].line, mem[p].prog)
SameLine(p, q) == os.group[p] = os.group[q] /\ os.group[p] # os.group[sh]
PipesWired ==
    \A p \in Pids : at[p] = "prog" =>
        /\ os.open[p] = {}
        /\ \A q \in Pids \ {p} : at[q] = "prog" =>
              /\ \A e \in Held(os, p) \cap Held(os, q) : e[1] \notin {"read", "write"}
              /\ SameLine(p, q) /\ Place(q) = Place(p) + 1 =>
                    \/ Output(p)[1] = "file" \/ Input(q)[1] = "file"
                    \/ \E k \in 1..NPipe : Output(p) = W(k) /\ Input(q) = R(k)

(* The lines for which a word tells its place: there is a numbering of the *)
(* commands of the line, from one pipe to the next, in which each program  *)
(* has the place of its name in the line.  It is so when the parser keeps  *)
(* the order of the line, and no name is met before it is to be run.       *)
Parts(line) ==
    LET rest[n \in 0..Len(line)] ==
            IF n = 0 THEN parse_line[line]
            ELSE IF rest[n - 1].type = "PIPE" THEN rest[n - 1].rightcmd ELSE rest[n - 1]
        pipes == {t \in Range(rest) : t.type = "PIPE"}
    IN  Range(rest) \cup {t.leftcmd : t \in pipes}
Names(tree, w) ==
    LET c == Foreground(tree)
    IN  c.type \in {"EXEC", "REDIR"} /\ c.argv # <<>> /\ c.argv[1][2] = w
Numbered(line, place) ==
    /\ parse_line[line] \in Parts(line)
    /\ \A t \in Parts(line) :
          IF t.type = "PIPE"
          THEN /\ {t.leftcmd, t.rightcmd} \subseteq Parts(line) /\ t.leftcmd.type # "PIPE"
               /\ place[t.leftcmd] = place[t] /\ place[t.rightcmd] = place[t] + 1
          ELSE \A w \in DOMAIN Programs : Names(t, w) => PlaceIn(line, w) = place[t]
ParsedInOrder ==
    \A line \in Lines :
        \E place \in [Parts(line) -> 0..Len(line)] : Numbered(line, place)

(* When the shell is back at the prompt and says that the foreground       *)
(* command has succeeded, no process of that command is left, not even on  *)
(* the left of a pipe (exec.c:221-225, runcmd.c:59-63).  It holds as long  *)
(* as the fork of a right process succeeds: exec.c:204-211 leaves the left *)
(* one to itself.                                                          *)
SuccessMeansOver ==
    at[sh] = "prompt" /\ mem[sh].status = 0 =>
        \A p \in Pids \ {sh} : Running(os, p) => os.group[p] # mem[sh].pid

(* A foreground command is never taken by the handler, which only knows    *)
(* the shell's group: it is the shell's own wait that takes it, and the    *)
(* status it reports is that command's (sh.c:28, runcmd.c:47).             *)
ForegroundReapedByWait ==
    [][at[sh] = "wait" /\ mem[sh].tree.type # "BACK" /\ mem[sh].pid # -1 =>
          IF at'[sh] = "prompt"
          THEN /\ Zombie(os, mem[sh].pid)
               /\ mem'[sh].status = StatusInfo(mem[sh].tree, os.status[mem[sh].pid])
          ELSE Zombie(os, mem[sh].pid) => Zombie(os', mem[sh].pid)]_vars

(* The shell always comes back to its prompt, or ends: no reader waits for *)
(* the end of a pipe that somebody forgot to close (exec.c:218-222).       *)
PromptReturns == at[sh] = "wait" ~> at[sh] # "wait"

(* Every ended child of the shell is taken in the end, by the handler or   *)
(* by a wait, although one signal may stand for several children.          *)
ZombiesReaped ==
    (\E p \in Pids : Zombie(os, p) /\ os.parent[p] = sh)
        ~> ~(\E p \in Pids : Zombie(os, p) /\ os.parent[p] = sh)
=============================================================================
