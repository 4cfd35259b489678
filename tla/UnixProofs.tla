----------------------------- MODULE UnixProofs -----------------------------
(***************************************************************************)
(* Proofs about the programs that run on Unix: Shell, and Timeout, Xargs   *)
(* and Primes of 1-fork, which are instances here over the same processes. *)
(*                                                                         *)
(* Shell, for every number of processes and pipes, every set of programs   *)
(* and every choice of forks that fail: the types and the tree of          *)
(* processes; that a command in the foreground is taken by the shell's own *)
(* wait; that success means that nobody of the command is left, if no      *)
(* right fork fails; and that the programs of a pipeline are wired in the  *)
(* order of the line, if the words of a line tell its places.  Each action *)
(* is first reduced to its effect on the process that takes it and on      *)
(* those about it (a child begotten, children taken, an end, a local       *)
(* step); the invariants are then shown of the effects.                    *)
(*                                                                         *)
(* 1-fork: timeout leaves no command behind; xargs gives its command every *)
(* word once, in order, in full batches; primes prints only primes, and to *)
(* a terminal all of them in order.                                        *)
(***************************************************************************)
EXTENDS Shell, WellFoundedInduction, TLAPS

-----------------------------------------------------------------------------
(* The inductive invariants *)

(* Where the shell's own process may be, and where any process may be. *)
Prompting == {"prompt", "fork", "wait"}
Forked == {"left_forked", "right_forked"}
Labels == Prompting \cup Forked \cup
    {"child", "exec", "prog", "left", "right", "wait_left", "wait_right", "gone"}

IsSystem(o) ==
    /\ DOMAIN o = {"state", "parent", "group", "status", "fd", "open", "buf", "sigchld"}
    /\ o.state \in [Pids -> {"none", "run", "zombie"}]
    /\ o.parent \in [Pids -> Pids \cup {InitPid}]
    /\ o.group \in [Pids -> Pids]
    /\ DOMAIN o.status = Pids
    /\ DOMAIN o.fd = Pids /\ \A p \in Pids : DOMAIN o.fd[p] = Stdin..Stderr
    /\ DOMAIN o.open = Pids
    /\ DOMAIN o.buf = 1..NPipe
    /\ DOMAIN o.sigchld = Pids

(* The types; a process is somewhere in its program as long as it runs. *)
Typed ==
    /\ IsSystem(os)
    /\ at \in [Pids -> Labels]
    /\ DOMAIN mem = Pids
    /\ \A p \in Pids : at[p] # "gone" => DOMAIN mem[p] = DOMAIN Memory
    /\ \A p \in Pids : Running(os, p) <=> at[p] # "gone"

Live(q) == os.state[q] # "none"

(* No process is its own ancestor. *)
Rooted(o) ==
    \A A \in SUBSET {q \in Pids : o.state[q] # "none"} :
        A # {} => \E q \in A : o.parent[q] \notin A

(* Processes, their parents and their groups: the parent of a process      *)
(* runs; the shell leads its own group, until its pid is taken by another; *)
(* a process that is about to lead a group is still in the shell's.        *)
Family ==
    /\ \A q \in Pids : Live(q) => os.parent[q] = InitPid \/ Running(os, os.parent[q])
    /\ Rooted(os)
    /\ \A p \in Pids : at[p] \in Prompting => p = sh /\ os.group[sh] = sh
    /\ os.group[sh] = sh \/ \A q \in Pids : Live(q) => os.group[q] # sh
    /\ \A p \in Pids : at[p] = "child" =>
          /\ p # sh /\ os.group[p] = sh
          /\ \A q \in Pids : Live(q) => os.group[q] # p

(* The command for which the shell waits is its child, in the foreground   *)
(* the leader of a group or about to become it.                            *)
Command ==
    /\ \A p \in Pids : at[p] = "child" /\ mem[p].tree.type # "BACK" =>
          at[sh] = "wait" /\ mem[sh].pid = p /\ mem[p].tree = mem[sh].tree
    /\ at[sh] = "wait" /\ mem[sh].pid # -1 =>
          LET c == mem[sh].pid IN
          /\ c \in Pids \ {sh}
          /\ IF mem[sh].tree.type = "BACK"
             THEN \A q \in Pids : Live(q) => os.group[q] # c
             ELSE /\ Live(c) /\ os.parent[c] = sh
                  /\ \/ at[c] = "child" /\ mem[c].tree = mem[sh].tree
                     \/ os.group[c] = c
-----------------------------------------------------------------------------
(* Nobody of the group runs. *)
Empty(g) == \A q \in Pids : Running(os, q) => os.group[q] # g

(* p will wait for q. *)
Attends(p, q) ==
    /\ p \in Pids /\ Running(os, p) /\ os.group[p] = os.group[q]
    /\ \/ at[p] \in Forked \cup {"wait_left"} /\ mem[p].pid_l = q
       \/ at[p] \in {"right_forked", "wait_left", "wait_right"} /\ mem[p].pid_r = q

(* As long as its leader runs, every other process of a group is waited    *)
(* for by its parent.                                                      *)
Attended ==
    /\ \A q \in Pids :
          /\ Running(os, q) /\ Running(os, os.group[q])
          /\ os.group[q] \notin {q, sh}
          => Attends(os.parent[q], q)
    /\ \A p \in Pids : at[p] = "right_forked" /\ mem[p].pid_r = -1 => os.group[p] \in {p, sh}

(* A command in the foreground ends with an error, or when its group has.  *)
Over ==
    /\ at[sh] = "wait" /\ mem[sh].pid # -1 /\ mem[sh].tree.type # "BACK" =>
          LET c == mem[sh].pid IN
          Zombie(os, c) => os.status[c] = Exited(EXIT_FAILURE) \/ Empty(c)
    /\ at[sh] = "prompt" => mem[sh].pid # sh
    /\ SuccessMeansOver
-----------------------------------------------------------------------------
(* The descriptors: the two ends of one pipe from its making until they    *)
(* are given to the standard descriptors, nothing else at other times; an  *)
(* input is never the end to write to, an output never the end to read;    *)
(* the shell and a child that starts have no pipe for either.              *)
Fits(l, f, ends) ==
    /\ IF l \in Forked \cup {"left", "right"}
       THEN \E k \in 1..NPipe : ends = {R(k), W(k)}
       ELSE ends = {}
    /\ f[Stdin][1] # "write" /\ f[Stdout][1] # "read"
    /\ \/ f[Stderr][1] \notin {"read", "write"}
       \/ l = "prog" /\ f[Stderr] = f[Stdout]
    /\ l \in Prompting \cup {"child"} => f[Stdin][1] # "read" /\ f[Stdout][1] # "write"
Descriptors == \A p \in Pids : Fits(at[p], os.fd[p], os.open[p])

(* A process at one of these labels is, or will make, a program of the     *)
(* pipeline: of the command that is left when those to its left have gone  *)
(* to processes of their own.  Its input and output are these.             *)
Staged == {"exec", "prog", "left", "right", "left_forked"}
InEnd(p) == IF at[p] \in {"right", "left_forked"} THEN ReadEnd(p) ELSE os.fd[p][Stdin]
OutEnd(p) == IF at[p] = "left" THEN WriteEnd(p) ELSE os.fd[p][Stdout]

(* An end of a pipe is the input or the output of one of them.             *)
OneOwner ==
    \A p, q \in Pids : p # q /\ at[p] \in Staged /\ at[q] \in Staged =>
        /\ InEnd(p)[1] = "read" => InEnd(p) # InEnd(q)
        /\ OutEnd(p)[1] = "write" => OutEnd(p) # OutEnd(q)

(* Its place in the line. *)
Numbering ==
    [line \in Lines |->
        CHOOSE place \in [Parts(line) -> 0..Len(line)] : Numbered(line, place)]
StartOf(l, m) ==
    LET place == Numbering[m.line]
    IN  IF l = "prog" THEN PlaceIn(m.line, m.prog)
        ELSE IF l = "exec" THEN place[m.tree]
        ELSE IF l = "left" THEN place[m.tree.leftcmd]
        ELSE place[m.tree.rightcmd]
Start(p) == StartOf(at[p], mem[p])

(* What a process is to carry out is a command of its line. *)
Carries(l, m) ==
    /\ l \in {"fork", "child", "exec", "left", "right", "left_forked"} =>
          m.line \in Lines /\ m.tree \in Parts(m.line)
    /\ l \in {"left", "right", "left_forked"} => m.tree.type = "PIPE"
    /\ l \in Staged => StartOf(l, m) \in Nat
Parsed == \A p \in Pids : Carries(at[p], mem[p])

(* It may still make a pipe. *)
Splits(p) ==
    \/ at[p] \in {"right", "left_forked"}
    \/ at[p] = "exec" /\ mem[p].tree.type = "PIPE"

Follows(p, q) ==
    \/ "file" \in {OutEnd(p)[1], InEnd(q)[1]}
    \/ \E k \in 1..NPipe : OutEnd(p) = W(k) /\ InEnd(q) = R(k)

(* In a group, each has a place of its own, the one that may still make a  *)
(* pipe the last, and each one's output is the input of the next.          *)
InLine ==
    \A p, q \in Pids :
        /\ p # q /\ at[p] \in Staged /\ at[q] \in Staged
        /\ os.group[p] = os.group[q] /\ os.group[p] # sh
        => /\ Start(p) # Start(q)
           /\ Splits(q) => Start(p) < Start(q)
           /\ Start(q) = Start(p) + 1 => Follows(p, q)
-----------------------------------------------------------------------------
(* What the system calls do *)

(* What the constants of the system are.                                   *)
LEMMA Constants ==
    /\ NProc \in Nat \ {0} /\ NPipe \in Nat /\ sh \in Pids /\ sh = 1 /\ InitPid \notin Pids
    /\ InitPid = 0 /\ -1 \notin Pids /\ 0 \notin Pids /\ Pids \subseteq Nat
    /\ Stdin..Stderr = {Stdin, Stdout, Stderr}
    /\ Stdin # Stdout /\ Stdout # Stderr /\ Stdin # Stderr
  BY UnixAssumption DEF Pids, sh, InitPid, Stdin, Stdout, Stderr

(* A set of numbers that is not empty has a least one. *)
LEMMA LowestIs ==
  ASSUME NEW A, A \subseteq Nat, A # {}
  PROVE  Lowest(A) \in A
<1> DEFINE Less == OpToRel(<, Nat)
<1>1. IsWellFoundedOn(Less, Nat) BY NatLessThanWellFounded
<1>2. \A x, y \in Nat : x < y => <<x, y>> \in Less BY DEF OpToRel
<1> HIDE DEF Less
<1>3. PICK n \in A : \A m \in A : <<m, n>> \notin Less BY <1>1, WFMin
<1>4. \A m \in A : n <= m
  <2> TAKE m \in A
  <2>1. m \in Nat /\ n \in Nat /\ ~(m < n) BY <1>2, <1>3
  <2> QED BY <2>1
<1> QED BY <1>4 DEF Lowest

(* A process that is made takes a free slot.                               *)
LEMMA NewPidIs ==
  ASSUME NEW o, FreePids(o) # {}
  PROVE  NewPid(o) \in FreePids(o) /\ FreePids(o) \subseteq Pids
<1>1. FreePids(o) \subseteq Pids /\ Pids \subseteq Nat BY Constants DEF FreePids
<1> QED BY <1>1, LowestIs DEF NewPid

(* fork *)
Forks(o, p, c, r) ==
    /\ IsSystem(r)
    /\ r.state = [o.state EXCEPT ![c] = "run"]
    /\ r.parent = [o.parent EXCEPT ![c] = p]
    /\ r.group = [o.group EXCEPT ![c] = o.group[p]]
    /\ r.status = [o.status EXCEPT ![c] = Exited(0)]
    /\ r.fd = [o.fd EXCEPT ![c] = o.fd[p]]
    /\ r.open = [o.open EXCEPT ![c] = o.open[p]]

(* The effect of fork, field by field.                                     *)
LEMMA ForkIs ==
  ASSUME NEW o, IsSystem(o), NEW p \in Pids, NEW c \in Pids
  PROVE  Forks(o, p, c, Fork(o, p, c))
  BY DEF Forks, Fork, IsSystem

(* setpgid *)
LEMMA SetpgidIs ==
  ASSUME NEW o, IsSystem(o), NEW p \in Pids
  PROVE  /\ IsSystem(Setpgid(o, p))
         /\ Setpgid(o, p).group = [o.group EXCEPT ![p] = p]
         /\ \A x \in DOMAIN o \ {"group"} : Setpgid(o, p)[x] = o[x]
  BY DEF Setpgid, IsSystem

(* exit, or death by a signal *)
LEMMA ExitIs ==
  ASSUME NEW o, IsSystem(o), NEW p \in Pids, NEW st, Running(o, p),
         NEW r, r = Exit(o, p, st)
  PROVE  /\ IsSystem(r)
         /\ r.state[p] = IF o.parent[p] = InitPid THEN "none" ELSE "zombie"
         /\ \A c \in Pids \ {p} :
              r.state[c] = o.state[c] \/ (o.state[c] = "zombie" /\ r.state[c] = "none")
         /\ \A c \in Pids :
              r.parent[c] = IF o.state[c] # "none" /\ o.parent[c] = p THEN InitPid ELSE o.parent[c]
         /\ \A c \in Pids \ {p} : o.parent[c] # p => r.state[c] = o.state[c]
         /\ r.group = o.group
         /\ r.status = [o.status EXCEPT ![p] = st]
         /\ r.fd = [o.fd EXCEPT ![p] = [n \in Stdin..Stderr |-> Closed]]
         /\ r.open = [o.open EXCEPT ![p] = {}]
         /\ r.buf = o.buf
  BY Constants DEF Exit, IsSystem, Children, Running, Zombie

(* waitpid, and the handler's loop of them *)
LEMMA ReapIs ==
  ASSUME NEW o, IsSystem(o), NEW C
  PROVE  /\ IsSystem(Reap(o, C))
         /\ Reap(o, C).state = [c \in Pids |-> IF c \in C THEN "none" ELSE o.state[c]]
         /\ \A x \in DOMAIN o \ {"state"} : Reap(o, C)[x] = o[x]
  BY DEF Reap, IsSystem

(* pipe *)
LEMMA MakePipeIs ==
  ASSUME NEW o, IsSystem(o), NEW p \in Pids, FreePipes(o) # {}
  PROVE  /\ IsSystem(MakePipe(o, p))
         /\ \E k \in FreePipes(o) :
              MakePipe(o, p).open = [o.open EXCEPT ![p] = @ \cup {R(k), W(k)}]
         /\ \A x \in DOMAIN o \ {"buf", "open"} : MakePipe(o, p)[x] = o[x]
<1> DEFINE k == NewPipe(o)
           r == [o EXCEPT !.buf[k] = <<>>]
<1>1. k \in FreePipes(o)
  <2>1. FreePipes(o) \subseteq Nat BY Constants DEF FreePipes
  <2> QED BY <2>1, LowestIs DEF NewPipe
<1>2. k \in 1..NPipe BY <1>1 DEF FreePipes
<1>3. MakePipe(o, p) = [o EXCEPT !.buf[k] = <<>>, !.open[p] = @ \cup {R(k), W(k)}]
  BY DEF MakePipe
<1> HIDE DEF k
<1>4. /\ IsSystem(MakePipe(o, p))
      /\ MakePipe(o, p).open = [o.open EXCEPT ![p] = @ \cup {R(k), W(k)}]
      /\ \A x \in DOMAIN o \ {"buf", "open"} : MakePipe(o, p)[x] = o[x]
  BY <1>2, <1>3 DEF IsSystem
<1> QED BY <1>1, <1>4

(* close, dup2 *)
LEMMA CloseIs ==
  ASSUME NEW o, IsSystem(o), NEW p \in Pids, NEW e
  PROVE  /\ IsSystem(Close(o, p, e))
         /\ Close(o, p, e).open = [o.open EXCEPT ![p] = @ \ {e}]
         /\ \A x \in DOMAIN o \ {"open"} : Close(o, p, e)[x] = o[x]
  BY DEF Close, IsSystem

(* The effect of dup2.                                                     *)
LEMMA Dup2Is ==
  ASSUME NEW o, IsSystem(o), NEW p \in Pids, NEW e, NEW n \in Stdin..Stderr
  PROVE  /\ IsSystem(Dup2(o, p, e, n))
         /\ Dup2(o, p, e, n).fd = [o.fd EXCEPT ![p] = [o.fd[p] EXCEPT ![n] = e]]
         /\ \A x \in DOMAIN o \ {"fd"} : Dup2(o, p, e, n)[x] = o[x]
  BY DEF Dup2, IsSystem
-----------------------------------------------------------------------------
(* What a step does: to the tree of processes, to the descriptors, labels  *)
(* and memories of those that do not take it, and to its own.              *)

Fields == DOMAIN Memory

Still ==
    /\ os'.state = os.state /\ os'.parent = os.parent
    /\ os'.group = os.group /\ os'.status = os.status
Apart(P) ==
    \A q \in Pids \ P :
        at'[q] = at[q] /\ mem'[q] = mem[q] /\ os'.fd[q] = os.fd[q] /\ os'.open[q] = os.open[q]
Keeps(p, F) == \A f \in Fields \ F : mem'[p][f] = mem[p][f]
SameFds(p) == os'.fd[p] = os.fd[p] /\ os'.open[p] = os.open[p]

(* p makes the child c, both of them go on at their labels. *)
Begets(p, c, parent, child, var) ==
    /\ c \in Pids \ {p} /\ Running(os, p) /\ ~Live(c)
    /\ \A q \in Pids : Live(q) => os.group[q] # c
    /\ os'.state = [os.state EXCEPT ![c] = "run"]
    /\ os'.parent = [os.parent EXCEPT ![c] = p]
    /\ os'.group = [os.group EXCEPT ![c] = os.group[p]]
    /\ \A q \in Pids \ {c} : os'.status[q] = os.status[q]
    /\ os'.fd[p] = os.fd[p] /\ os'.fd[c] = os.fd[p] /\ os'.open[c] = os'.open[p]
    /\ Apart({p, c})
    /\ at'[p] = parent /\ at'[c] = child /\ mem'[c] = mem[p]
    /\ mem'[p][var] = c /\ Keeps(p, {var})

(* p ends with the status word. *)
Ends(p, word) ==
    /\ Running(os, p) /\ at'[p] = "gone"
    /\ os'.state[p] = IF os.parent[p] = InitPid THEN "none" ELSE "zombie"
    /\ \A c \in Pids \ {p} :
         /\ \/ os'.state[c] = os.state[c]
            \/ Zombie(os, c) /\ os'.state[c] = "none"
         /\ os.parent[c] # p => os'.state[c] = os.state[c]
    /\ \A c \in Pids :
         os'.parent[c] = IF Live(c) /\ os.parent[c] = p THEN InitPid ELSE os.parent[c]
    /\ os'.group = os.group
    /\ os'.status[p] = word /\ \A q \in Pids \ {p} : os'.status[q] = os.status[q]
    /\ os'.fd[p] = [n \in Stdin..Stderr |-> Closed] /\ os'.open[p] = {}
    /\ Apart({p})

(* p takes ended children. *)
Takes(p, Z) ==
    /\ \A z \in Z : z \in Pids /\ Zombie(os, z) /\ os.parent[z] = p
    /\ os'.state = [c \in Pids |-> IF c \in Z THEN "none" ELSE os.state[c]]
    /\ os'.parent = os.parent /\ os'.group = os.group /\ os'.status = os.status
    /\ SameFds(p) /\ Apart({p})

(* The fields of a process's memory.                                       *)
LEMMA FieldsAre ==
    /\ Fields = {"tree", "line", "pid", "pid_l", "pid_r", "status", "typed", "prog",
                 "todo", "eof"}
    /\ Memory.tree = NULL /\ Memory.pid = 0 /\ Memory.status = 0
  BY DEF Fields, Memory

(* A process that dies ends with the status word.                          *)
LEMMA DieIs ==
  ASSUME Typed, NEW p \in Pids, at[p] # "gone", NEW word, Die(p, word)
  PROVE  Typed' /\ Ends(p, word)
<1>1. IsSystem(os) /\ Running(os, p) /\ os' = Exit(os, p, word) BY DEF Typed, Die
<1>2. /\ IsSystem(os')
      /\ os'.state[p] = IF os.parent[p] = InitPid THEN "none" ELSE "zombie"
      /\ \A c \in Pids \ {p} :
           os'.state[c] = os.state[c] \/ (os.state[c] = "zombie" /\ os'.state[c] = "none")
      /\ \A c \in Pids :
           os'.parent[c] = IF os.state[c] # "none" /\ os.parent[c] = p THEN InitPid ELSE os.parent[c]
      /\ \A c \in Pids \ {p} : os.parent[c] # p => os'.state[c] = os.state[c]
      /\ os'.group = os.group
      /\ os'.status = [os.status EXCEPT ![p] = word]
      /\ os'.fd = [os.fd EXCEPT ![p] = [n \in Stdin..Stderr |-> Closed]]
      /\ os'.open = [os.open EXCEPT ![p] = {}]
  BY <1>1, ExitIs
<1>3. at' = [at EXCEPT ![p] = "gone"] /\ mem' = [mem EXCEPT ![p] = NoMemory]
  BY DEF Die, Goto
<1>4. Apart({p}) BY <1>2, <1>3 DEF Apart, IsSystem, Typed
<1>5. Ends(p, word) BY <1>1, <1>2, <1>3, <1>4 DEF Ends, IsSystem, Typed, Live, Zombie
<1>6. Typed'
  <2>1. at' \in [Pids -> Labels] BY <1>3 DEF Typed, Labels
  <2>2. \A q \in Pids : Running(os', q) <=> at'[q] # "gone"
    BY <1>2, <1>3 DEF Typed, Running, IsSystem
  <2>3. DOMAIN mem' = Pids /\ \A q \in Pids : at'[q] # "gone" => DOMAIN mem'[q] = DOMAIN Memory
    BY <1>3 DEF Typed
  <2> QED BY <1>2, <2>1, <2>2, <2>3 DEF Typed
<1> QED BY <1>5, <1>6

(* A step that leaves the processes as they are and its own alone changes. *)
Local(p, l, F) == Still /\ SameFds(p) /\ Apart({p}) /\ at'[p] = l /\ Keeps(p, F)

(* The types after a step of one process to a label.                       *)
LEMMA LocalTyped ==
  ASSUME Typed, NEW p \in Pids, at[p] # "gone", IsSystem(os'),
         \A q \in Pids : Running(os', q) <=> Running(os, q),
         NEW l \in Labels \ {"gone"}, Goto(p, l),
         DOMAIN mem' = Pids, \A q \in Pids \ {p} : mem'[q] = mem[q],
         DOMAIN mem'[p] = DOMAIN Memory
  PROVE  Typed' /\ at'[p] = l /\ \A q \in Pids \ {p} : at'[q] = at[q]
<1>1. at' \in [Pids -> Labels] /\ at'[p] = l /\ \A q \in Pids \ {p} : at'[q] = at[q]
  BY DEF Typed, Goto
<1>2. \A q \in Pids : at'[q] # "gone" => DOMAIN mem'[q] = DOMAIN Memory
  BY <1>1 DEF Typed
<1>3. \A q \in Pids : Running(os', q) <=> at'[q] # "gone" BY <1>1 DEF Typed
<1> QED BY <1>1, <1>2, <1>3 DEF Typed

(* A fork that succeeds makes a child.                                     *)
LEMMA ForkToIs ==
  ASSUME Typed, NEW p \in Pids, at[p] # "gone", NEW o, IsSystem(o),
         o.state = os.state, o.parent = os.parent, o.group = os.group,
         o.status = os.status, o.fd = os.fd,
         \A q \in Pids \ {p} : o.open[q] = os.open[q],
         NEW parent \in Labels \ {"gone"}, NEW child \in Labels \ {"gone"}, NEW var \in Fields,
         FreePids(o) # {}, ForkTo(p, o, mem[p], parent, child, var)
  PROVE  Typed' /\ \E c \in Pids : Begets(p, c, parent, child, var) /\ os'.open[p] = o.open[p]
<1> DEFINE c == NewPid(o)
<1>1. /\ c \in Pids /\ o.state[c] = "none"
      /\ \A q \in Pids : o.group[q] = c => o.state[q] = "none"
  BY NewPidIs DEF FreePids
<1>2. /\ os' = Fork(o, p, c)
      /\ at' = [at EXCEPT ![p] = parent, ![c] = child]
      /\ mem' = [mem EXCEPT ![c] = mem[p], ![p] = [mem[p] EXCEPT ![var] = c]]
  BY DEF ForkTo
<1> HIDE DEF c
<1>3. Running(os, p) /\ p # c BY <1>1 DEF Typed, Running
<1>4. /\ IsSystem(os')
      /\ os'.state = [o.state EXCEPT ![c] = "run"]
      /\ os'.parent = [o.parent EXCEPT ![c] = p]
      /\ os'.group = [o.group EXCEPT ![c] = o.group[p]]
      /\ os'.status = [o.status EXCEPT ![c] = Exited(0)]
      /\ os'.fd = [o.fd EXCEPT ![c] = o.fd[p]]
      /\ os'.open = [o.open EXCEPT ![c] = o.open[p]]
  <2>1. IsSystem(o) /\ p \in Pids /\ c \in Pids /\ os' = Fork(o, p, c) BY <1>1, <1>2
  <2>2. Forks(o, p, c, os') BY <2>1, ForkIs
  <2> QED BY <2>2 DEF Forks
<1>5. /\ at' \in [Pids -> Labels] /\ at'[p] = parent /\ at'[c] = child
      /\ \A q \in Pids \ {p, c} : at'[q] = at[q]
  BY <1>1, <1>2, <1>3 DEF Typed
<1>6. /\ DOMAIN mem' = Pids /\ mem'[c] = mem[p] /\ mem'[p] = [mem[p] EXCEPT ![var] = c]
      /\ \A q \in Pids \ {p, c} : mem'[q] = mem[q]
  BY <1>1, <1>2, <1>3 DEF Typed
<1>7. DOMAIN mem[p] = Fields BY DEF Typed, Fields
<1>8. mem'[p][var] = c /\ Keeps(p, {var}) /\ DOMAIN mem'[p] = Fields
  BY <1>6, <1>7 DEF Keeps
<1>9. Typed'
  <2>1. \A q \in Pids : Running(os', q) <=> at'[q] # "gone"
    BY <1>1, <1>4, <1>5 DEF Typed, Running, IsSystem
  <2>2. \A q \in Pids : at'[q] # "gone" => DOMAIN mem'[q] = DOMAIN Memory
    BY <1>5, <1>6, <1>7, <1>8 DEF Typed, Fields
  <2> QED BY <1>4, <1>5, <1>6, <2>1, <2>2 DEF Typed
<1>10. Apart({p, c})
  BY <1>4, <1>5, <1>6 DEF Apart, IsSystem, Typed
<1>11. Begets(p, c, parent, child, var)
  BY <1>1, <1>3, <1>4, <1>5, <1>6, <1>8, <1>10 DEF Begets, IsSystem, Typed, Live
<1>12. os'.open[p] = o.open[p] BY <1>1, <1>3, <1>4 DEF IsSystem
<1> QED BY <1>1, <1>9, <1>11, <1>12

(* A process that reaps takes ended children.                              *)
LEMMA ReapsIs ==
  ASSUME Typed, NEW p \in Pids, NEW Z, os' = Reap(os, Z),
         \A z \in Z : z \in Pids /\ Zombie(os, z) /\ os.parent[z] = p,
         \A q \in Pids \ {p} : at'[q] = at[q] /\ mem'[q] = mem[q]
  PROVE  IsSystem(os') /\ Takes(p, Z) /\ \A q \in Pids : Running(os', q) <=> Running(os, q)
<1>1. /\ IsSystem(os') /\ os'.state = [c \in Pids |-> IF c \in Z THEN "none" ELSE os.state[c]]
      /\ \A x \in DOMAIN os \ {"state"} : os'[x] = os[x]
  BY ReapIs DEF Typed
<1>2. /\ os'.parent = os.parent /\ os'.group = os.group /\ os'.status = os.status
      /\ os'.fd = os.fd /\ os'.open = os.open
  BY <1>1 DEF Typed, IsSystem
<1>3. \A q \in Pids : Running(os', q) <=> Running(os, q) BY <1>1 DEF Running, Zombie
<1> QED BY <1>1, <1>2, <1>3 DEF Takes, SameFds, Apart

(* A fork, or none, of a process that has made a pipe or has not. *)
Outcome(p, open, parent, child, var) ==
    \/ \E c \in Pids : Begets(p, c, parent, child, var) /\ os'.open[p] = open
    \/ /\ Still /\ os'.fd[p] = os.fd[p] /\ os'.open[p] = open /\ Apart({p})
       /\ at'[p] = parent /\ mem'[p][var] = -1 /\ Keeps(p, {var})

(* A fork makes a child or gives an error.                                 *)
LEMMA ForkingIs ==
  ASSUME Typed, NEW p \in Pids, at[p] # "gone", NEW o, IsSystem(o),
         o.state = os.state, o.parent = os.parent, o.group = os.group,
         o.status = os.status, o.fd = os.fd,
         \A q \in Pids \ {p} : o.open[q] = os.open[q],
         NEW parent \in Labels \ {"gone"}, NEW child \in Labels \ {"gone"}, NEW var \in Fields,
         Forking(p, o, parent, child, var)
  PROVE  Typed' /\ Outcome(p, o.open[p], parent, child, var)
<1>1. CASE FreePids(o) # {} /\ ForkTo(p, o, mem[p], parent, child, var)
  BY <1>1, ForkToIs DEF Outcome
<1>2. CASE ForkFails(p, o, parent, var)
  <2>1. os' = o /\ Goto(p, parent) /\ mem' = [mem EXCEPT ![p] = [mem[p] EXCEPT ![var] = -1]]
    BY <1>2 DEF ForkFails
  <2>2. DOMAIN mem[p] = Fields /\ DOMAIN mem = Pids BY DEF Typed, Fields
  <2>3. /\ DOMAIN mem' = Pids /\ (\A q \in Pids \ {p} : mem'[q] = mem[q])
        /\ mem'[p] = [mem[p] EXCEPT ![var] = -1]
    BY <2>1, <2>2
  <2>4. mem'[p][var] = -1 /\ Keeps(p, {var}) /\ DOMAIN mem'[p] = DOMAIN Memory
    BY <2>2, <2>3 DEF Keeps, Fields
  <2>5. \A q \in Pids : Running(os', q) <=> Running(os, q) BY <2>1 DEF Running
  <2>6. Typed' /\ at'[p] = parent /\ \A q \in Pids \ {p} : at'[q] = at[q]
    BY <2>1, <2>3, <2>4, <2>5, LocalTyped
  <2>7. Still /\ os'.fd = os.fd /\ os'.open[p] = o.open[p] /\ Apart({p})
    BY <2>1, <2>3, <2>6 DEF Still, Apart
  <2> QED BY <2>4, <2>6, <2>7 DEF Outcome
<1> QED BY <1>1, <1>2 DEF Forking
-----------------------------------------------------------------------------
(* The actions, one by one *)

(* The memory of p after an assignment to some of its fields. *)
LEMMA AssignedIs ==
  ASSUME Typed, NEW p \in Pids, at[p] # "gone", NEW m, NEW F, DOMAIN m = Fields,
         mem' = [mem EXCEPT ![p] = m], \A f \in Fields \ F : m[f] = mem[p][f]
  PROVE  /\ DOMAIN mem' = Pids /\ DOMAIN mem'[p] = DOMAIN Memory /\ mem'[p] = m
         /\ Keeps(p, F) /\ \A q \in Pids \ {p} : mem'[q] = mem[q]
<1>1. DOMAIN mem = Pids BY DEF Typed
<1> QED BY <1>1 DEF Keeps, Fields

(* What a step that makes no system call leaves alone.                     *)
LEMMA UnchangedOs ==
  ASSUME Typed, NEW p \in Pids, os' = os
  PROVE  /\ IsSystem(os') /\ Still /\ SameFds(p)
         /\ \A q \in Pids : Running(os', q) <=> Running(os, q)
         /\ \A q \in Pids : os'.fd[q] = os.fd[q] /\ os'.open[q] = os.open[q]
  BY DEF Typed, Still, SameFds, Running

(* A step that changes no more of the system than the fields of os in X. *)
LEMMA LocalStep ==
  ASSUME Typed, NEW p \in Pids, at[p] # "gone", IsSystem(os'), Still,
         \A q \in Pids \ {p} : os'.fd[q] = os.fd[q] /\ os'.open[q] = os.open[q],
         NEW l \in Labels \ {"gone"}, Goto(p, l),
         NEW F, DOMAIN mem' = Pids, DOMAIN mem'[p] = DOMAIN Memory,
         \A q \in Pids \ {p} : mem'[q] = mem[q]
  PROVE  Typed' /\ at'[p] = l /\ Apart({p})
<1>1. \A q \in Pids : Running(os', q) <=> Running(os, q) BY DEF Still, Running
<1>2. Typed' /\ at'[p] = l /\ \A q \in Pids \ {p} : at'[q] = at[q] BY <1>1, LocalTyped
<1> QED BY <1>2 DEF Apart

(* What a step that writes no memory leaves alone.                         *)
LEMMA SameMemory ==
  ASSUME Typed, NEW p \in Pids, at[p] # "gone", mem' = mem
  PROVE  /\ DOMAIN mem' = Pids /\ DOMAIN mem'[p] = DOMAIN Memory /\ Keeps(p, {})
         /\ \A q \in Pids \ {p} : mem'[q] = mem[q]
  BY DEF Typed, Keeps

(* The labels of a process that runs.                                      *)
LEMMA LabelsAre ==
  Labels \ {"gone"} = {"prompt", "fork", "wait", "left_forked", "right_forked",
                       "child", "exec", "prog", "left", "right", "wait_left", "wait_right"}
  BY DEF Labels, Prompting, Forked

(* ReadLine: the end of the input, or a line and its tree.                 *)
LEMMA ReadLineIs ==
  ASSUME Typed, NEW p \in Pids, ReadLine(p)
  PROVE  /\ Typed' /\ at[p] = "prompt"
         /\ \/ Ends(p, Exited(0))
            \/ /\ Local(p, "fork", {"line", "tree", "typed"})
               /\ \E line \in Lines :
                    mem'[p].line = line /\ mem'[p].tree = parse_line[line]
<1>1. at[p] = "prompt" BY DEF ReadLine
<1>2. CASE Die(p, Exited(0)) BY <1>1, <1>2, DieIs
<1>3. ASSUME NEW line \in Lines,
             mem' = [mem EXCEPT ![p].line = line, ![p].tree = parse_line[line],
                                ![p].typed = @ + 1],
             Goto(p, "fork"), UNCHANGED os
      PROVE  Typed' /\ Local(p, "fork", {"line", "tree", "typed"})
             /\ mem'[p].line = line /\ mem'[p].tree = parse_line[line]
  <2> DEFINE m == [mem[p] EXCEPT !.line = line, !.tree = parse_line[line], !.typed = @ + 1]
             F == {"line", "tree", "typed"}
  <2>1. DOMAIN mem[p] = Fields /\ DOMAIN mem = Pids BY <1>1 DEF Typed, Fields
  <2>2. DOMAIN m = Fields /\ \A f \in Fields \ F : m[f] = mem[p][f] BY <2>1
  <2>3. m.line = line /\ m.tree = parse_line[line] BY <2>1, FieldsAre
  <2>4. mem' = [mem EXCEPT ![p] = m] BY <1>3, <2>1
  <2> HIDE DEF m, F
  <2>5. /\ DOMAIN mem' = Pids /\ DOMAIN mem'[p] = DOMAIN Memory /\ mem'[p] = m
        /\ Keeps(p, F) /\ \A q \in Pids \ {p} : mem'[q] = mem[q]
    BY <1>1, <2>2, <2>4, AssignedIs
  <2>6. Typed' /\ at'[p] = "fork" /\ Apart({p})
    BY <1>1, <1>3, <2>5, UnchangedOs, LocalStep, LabelsAre
  <2> QED BY <1>3, <2>3, <2>5, <2>6, UnchangedOs DEF Local, F
<1> QED BY <1>1, <1>2, <1>3 DEF ReadLine

(* RunCmdFork: a child for the command.                                    *)
LEMMA RunCmdForkIs ==
  ASSUME Typed, NEW p \in Pids, RunCmdFork(p)
  PROVE  Typed' /\ at[p] = "fork" /\ Outcome(p, os.open[p], "wait", "child", "pid")
<1>1. at[p] = "fork" /\ Forking(p, os, "wait", "child", "pid") BY DEF RunCmdFork
<1>2. IsSystem(os) /\ "pid" \in Fields BY FieldsAre DEF Typed
<1>3. "wait" \in Labels \ {"gone"} /\ "child" \in Labels \ {"gone"} BY LabelsAre
<1> QED BY <1>1, <1>2, <1>3, ForkingIs

(* RunCmdChild: the child enters its group.                                *)
LEMMA RunCmdChildIs ==
  ASSUME Typed, NEW p \in Pids, RunCmdChild(p)
  PROVE  /\ Typed' /\ at[p] = "child" /\ at'[p] = "exec" /\ Apart({p}) /\ SameFds(p)
         /\ mem' = mem
         /\ os'.state = os.state /\ os'.parent = os.parent /\ os'.status = os.status
         /\ os'.group = IF mem[p].tree.type # "BACK" THEN [os.group EXCEPT ![p] = p] ELSE os.group
<1>1. /\ at[p] = "child" /\ os' = OwnGroup(os, p, mem[p].tree)
      /\ Goto(p, "exec") /\ UNCHANGED mem
  BY DEF RunCmdChild
<1>2. /\ IsSystem(os') /\ \A x \in DOMAIN os \ {"group"} : os'[x] = os[x]
      /\ os'.group = IF mem[p].tree.type # "BACK" THEN [os.group EXCEPT ![p] = p] ELSE os.group
  <2>1. IsSystem(os) BY DEF Typed
  <2> QED BY <1>1, <2>1, SetpgidIs DEF OwnGroup
<1>3. /\ os'.state = os.state /\ os'.parent = os.parent /\ os'.status = os.status
      /\ os'.fd = os.fd /\ os'.open = os.open
  BY <1>2 DEF Typed, IsSystem
<1>4. \A q \in Pids : Running(os', q) <=> Running(os, q) BY <1>3 DEF Running
<1>5. Typed' /\ at'[p] = "exec" /\ \A q \in Pids \ {p} : at'[q] = at[q]
  BY <1>1, <1>2, <1>4, SameMemory, LocalTyped, LabelsAre
<1> QED BY <1>1, <1>2, <1>3, <1>5 DEF Apart, SameFds

(* waitpid *)
LEMMA WaitedIs ==
  ASSUME Typed, NEW p \in Pids, NEW c, NEW Z, Z \subseteq Done(os, p, c), os' = Reap(os, Z),
         \A q \in Pids \ {p} : at'[q] = at[q] /\ mem'[q] = mem[q]
  PROVE  /\ IsSystem(os') /\ Takes(p, Z) /\ \A q \in Pids : Running(os', q) <=> Running(os, q)
<1>1. \A z \in Z : z \in Pids /\ Zombie(os, z) /\ os.parent[z] = p
  BY DEF Done, Awaited, Children
<1> QED BY <1>1, ReapsIs

(* RunCmdWait: back to the prompt, with an ended child or with none.       *)
LEMMA RunCmdWaitIs ==
  ASSUME Typed, NEW p \in Pids, RunCmdWait(p)
  PROVE  /\ Typed' /\ at[p] = "wait" /\ at'[p] = "prompt" /\ mem'[p].tree = NULL
         /\ Keeps(p, {"status", "tree"})
         /\ \/ \E z \in Done(os, p, mem[p].pid) :
                 /\ Takes(p, {z})
                 /\ mem[p].tree.type # "BACK" =>
                      mem'[p].status = StatusInfo(mem[p].tree, os.status[z])
            \/ /\ Still /\ SameFds(p) /\ Apart({p})
               /\ Awaited(os, p, mem[p].pid) = {} \/ mem[p].tree.type = "BACK"
<1> DEFINE tree == mem[p].tree
           c == mem[p].pid
           prompt(w) == mem' = [mem EXCEPT ![p].status = w, ![p].tree = NULL]
<1>1. at[p] = "wait" /\ Goto(p, "prompt") BY DEF RunCmdWait
<1>2. DOMAIN mem[p] = Fields /\ DOMAIN mem = Pids BY <1>1 DEF Typed, Fields
<1>3. ASSUME NEW w, prompt(w)
      PROVE  /\ DOMAIN mem' = Pids /\ DOMAIN mem'[p] = DOMAIN Memory
             /\ mem'[p].status = w /\ mem'[p].tree = NULL
             /\ Keeps(p, {"status", "tree"})
             /\ \A q \in Pids \ {p} : mem'[q] = mem[q]
  <2> DEFINE m == [mem[p] EXCEPT !.status = w, !.tree = NULL]
             F == {"status", "tree"}
  <2>1. DOMAIN m = Fields /\ \A f \in Fields \ F : m[f] = mem[p][f] BY <1>2
  <2>2. m.status = w /\ m.tree = NULL BY <1>2, FieldsAre
  <2>3. mem' = [mem EXCEPT ![p] = m] BY <1>2, <1>3
  <2> HIDE DEF m
  <2> QED BY <1>1, <2>1, <2>2, <2>3, AssignedIs
<1>4. ASSUME NEW w, prompt(w), UNCHANGED os
      PROVE  Typed' /\ at'[p] = "prompt" /\ Still /\ SameFds(p) /\ Apart({p})
  BY <1>1, <1>3, <1>4, UnchangedOs, LocalStep, LabelsAre
<1>5. ASSUME NEW z \in Done(os, p, c), os' = Reap(os, {z}), NEW w, prompt(w)
      PROVE  Typed' /\ at'[p] = "prompt" /\ Takes(p, {z})
  <2> HIDE DEF c, prompt
  <2>1. \A q \in Pids \ {p} : at'[q] = at[q] /\ mem'[q] = mem[q]
    BY <1>1, <1>3, <1>5 DEF Goto, Typed
  <2> DEFINE Z == {z}
  <2>2. Z \subseteq Done(os, p, c) /\ os' = Reap(os, Z) BY <1>5
  <2> HIDE DEF Z
  <2>3. /\ IsSystem(os') /\ Takes(p, Z) /\ \A q \in Pids : Running(os', q) <=> Running(os, q)
    BY <2>1, <2>2, WaitedIs
  <2>4. Typed' /\ at'[p] = "prompt" BY <1>1, <1>3, <1>5, <2>3, LocalTyped, LabelsAre
  <2> QED BY <2>3, <2>4 DEF Z
<1>6. CASE tree.type = "BACK"
  <2>1. \/ \E z \in Done(os, p, c) : os' = Reap(os, {z}) /\ prompt(os.status[z])
        \/ UNCHANGED os /\ prompt(mem[p].status)
    BY <1>6 DEF RunCmdWait, Waited
  <2> HIDE DEF prompt, c
  <2>2. CASE UNCHANGED os /\ prompt(mem[p].status)
    BY <1>1, <1>3, <1>4, <1>6, <2>2
  <2>3. ASSUME NEW z \in Done(os, p, c), os' = Reap(os, {z}), prompt(os.status[z])
        PROVE  Typed' /\ at'[p] = "prompt" /\ mem'[p].tree = NULL
               /\ Keeps(p, {"status", "tree"}) /\ Takes(p, {z})
    BY <1>3, <1>5, <2>3
  <2> QED BY <1>1, <1>6, <2>1, <2>2, <2>3 DEF c
<1>7. CASE tree.type # "BACK"
  <2>1. \/ \E z \in Done(os, p, c) : os' = Reap(os, {z}) /\ prompt(StatusInfo(tree, os.status[z]))
        \/ Awaited(os, p, c) = {} /\ UNCHANGED os /\ prompt(StatusInfo(tree, mem[p].status))
    BY <1>7 DEF RunCmdWait, Waited
  <2> HIDE DEF prompt, c
  <2>2. CASE Awaited(os, p, c) = {} /\ UNCHANGED os /\ prompt(StatusInfo(tree, mem[p].status))
    BY <1>1, <1>3, <1>4, <2>2 DEF c
  <2>3. ASSUME NEW z \in Done(os, p, c), os' = Reap(os, {z}), prompt(StatusInfo(tree, os.status[z]))
        PROVE  Typed' /\ at'[p] = "prompt" /\ mem'[p].tree = NULL
               /\ Keeps(p, {"status", "tree"}) /\ Takes(p, {z})
               /\ mem'[p].status = StatusInfo(tree, os.status[z])
    BY <1>3, <1>5, <2>3
  <2> QED BY <1>1, <2>1, <2>2, <2>3 DEF c
<1> QED BY <1>6, <1>7

(* The handler of SIGCHLD: ended children of the process's own group.      *)
LEMMA HandlerIs ==
  ASSUME Typed, NEW p \in Pids, sigchld_handler(p)
  PROVE  /\ Typed' /\ at[p] # "prog" /\ at' = at /\ mem' = mem
         /\ \E Z \in SUBSET InGroup(os, p) : Takes(p, Z)
<1>1. /\ Running(os, p) /\ at[p] # "prog" /\ at' = at /\ mem' = mem
      /\ os' = [Reap(os, Reaped(os, p)) EXCEPT !.sigchld[p] = FALSE]
  BY DEF sigchld_handler
<1> DEFINE Z == Reaped(os, p)
           r == Reap(os, Z)
<1>2. Z \subseteq InGroup(os, p) BY DEF Reaped
<1>3. \A z \in Z : z \in Pids /\ Zombie(os, z) /\ os.parent[z] = p
  BY <1>2 DEF InGroup, Done, Awaited, Children
<1>4. os' = [r EXCEPT !.sigchld[p] = FALSE] BY <1>1
<1> HIDE DEF Z
<1>5. /\ IsSystem(r) /\ r.state = [x \in Pids |-> IF x \in Z THEN "none" ELSE os.state[x]]
      /\ \A x \in DOMAIN os \ {"state"} : r[x] = os[x]
  BY ReapIs DEF Typed
<1> HIDE DEF r
<1>6. /\ IsSystem(os') /\ os'.state = r.state /\ os'.parent = r.parent /\ os'.group = r.group
      /\ os'.status = r.status /\ os'.fd = r.fd /\ os'.open = r.open
  BY <1>4, <1>5 DEF IsSystem
<1>7. /\ r.parent = os.parent /\ r.group = os.group /\ r.status = os.status
      /\ r.fd = os.fd /\ r.open = os.open
  BY <1>5 DEF Typed, IsSystem
<1>8. Takes(p, Z) BY <1>1, <1>3, <1>5, <1>6, <1>7 DEF Takes, SameFds, Apart
<1>9. \A q \in Pids : Running(os', q) <=> Running(os, q)
  BY <1>3, <1>5, <1>6 DEF Running, Zombie
<1>10. Typed' BY <1>1, <1>6, <1>9 DEF Typed
<1> QED BY <1>1, <1>2, <1>8, <1>10

(* ExecCommand: an error, or a program and its redirections.               *)
LEMMA ExecCommandIs ==
  ASSUME Typed, NEW p \in Pids, ExecCommand(p)
  PROVE  /\ Typed' /\ at[p] = "exec" /\ mem[p].tree.type # "PIPE"
         /\ \/ Ends(p, Exited(EXIT_FAILURE))
            \/ /\ Still /\ Apart({p}) /\ at'[p] = "prog" /\ os'.open[p] = os.open[p]
               /\ os'.fd[p] = Redirected(os.fd[p], Foreground(mem[p].tree))
               /\ Keeps(p, {"tree", "prog", "todo"})
               /\ mem'[p].prog \in DOMAIN Programs /\ Names(mem[p].tree, mem'[p].prog)
<1> DEFINE c == Foreground(mem[p].tree)
           w == c.argv[1][2]
<1>1. at[p] = "exec" /\ c.type \in {"EXEC", "REDIR"} BY DEF ExecCommand
<1>2. mem[p].tree.type # "PIPE" BY <1>1 DEF Foreground
<1>3. CASE Die(p, Exited(EXIT_FAILURE)) BY <1>1, <1>2, <1>3, DieIs
<1>4. CASE ~Die(p, Exited(EXIT_FAILURE))
  <2>1. /\ c.argv # <<>> /\ w \in DOMAIN Programs
        /\ os' = [os EXCEPT !.fd[p] = Redirected(@, c), !.sigchld[p] = FALSE]
        /\ mem' = [mem EXCEPT ![p].tree = NULL, ![p].prog = w,
                              ![p].todo = Programs[w].writes]
        /\ Goto(p, "prog")
    BY <1>4 DEF ExecCommand
  <2>2. Names(mem[p].tree, w) BY <1>1, <2>1 DEF Names
  <2> DEFINE F == {"tree", "prog", "todo"}
             m == [mem[p] EXCEPT !.tree = NULL, !.prog = w, !.todo = Programs[w].writes]
             f == Redirected(os.fd[p], c)
  <2> HIDE DEF c, w
  <2>3. DOMAIN mem[p] = Fields /\ DOMAIN mem = Pids BY <1>1 DEF Typed, Fields
  <2>4. DOMAIN m = Fields /\ m.prog = w /\ \A x \in Fields \ F : m[x] = mem[p][x]
    BY <2>3, FieldsAre
  <2>5. mem' = [mem EXCEPT ![p] = m] BY <2>1, <2>3
  <2> HIDE DEF m, F
  <2>6. /\ DOMAIN mem' = Pids /\ DOMAIN mem'[p] = DOMAIN Memory /\ mem'[p] = m
        /\ Keeps(p, F) /\ \A q \in Pids \ {p} : mem'[q] = mem[q]
    BY <1>1, <2>4, <2>5, AssignedIs
  <2>7. DOMAIN f = Stdin..Stderr
    BY Constants DEF Typed, IsSystem, Redirected, ToErr, FromIn, ToOut
  <2>8. os' = [os EXCEPT !.fd[p] = f, !.sigchld[p] = FALSE] BY <2>1
  <2> HIDE DEF f
  <2>9. /\ IsSystem(os') /\ Still /\ os'.open = os.open /\ os'.fd[p] = f
        /\ \A q \in Pids \ {p} : os'.fd[q] = os.fd[q]
    BY <2>7, <2>8 DEF Typed, IsSystem, Still
  <2>10. Typed' /\ at'[p] = "prog" /\ Apart({p})
    BY <1>1, <2>1, <2>6, <2>9, LocalStep, LabelsAre
  <2>11. w = mem'[p].prog /\ Keeps(p, {"tree", "prog", "todo"}) BY <2>4, <2>6 DEF F
  <2> QED BY <1>1, <1>2, <2>1, <2>2, <2>9, <2>10, <2>11 DEF f, c
<1> QED BY <1>3, <1>4

(* ExecPipe: an error, or a free pipe and a process for its left.          *)
LEMMA ExecPipeIs ==
  ASSUME Typed, NEW p \in Pids, ExecPipe(p)
  PROVE  /\ Typed' /\ at[p] = "exec" /\ mem[p].tree.type = "PIPE"
         /\ \/ Ends(p, Exited(EXIT_FAILURE))
            \/ \E k \in FreePipes(os) :
                 Outcome(p, os.open[p] \cup {R(k), W(k)}, "left_forked", "left", "pid_l")
<1>1. at[p] = "exec" /\ mem[p].tree.type = "PIPE" BY DEF ExecPipe
<1>2. CASE Die(p, Exited(EXIT_FAILURE)) BY <1>1, <1>2, DieIs
<1>3. CASE FreePipes(os) # {} /\ Forking(p, MakePipe(os, p), "left_forked", "left", "pid_l")
  <2> DEFINE o == MakePipe(os, p)
  <2>1. PICK k \in FreePipes(os) : o.open = [os.open EXCEPT ![p] = @ \cup {R(k), W(k)}]
    BY <1>3, MakePipeIs DEF Typed
  <2>2. IsSystem(o) /\ \A x \in DOMAIN os \ {"buf", "open"} : o[x] = os[x]
    BY <1>3, MakePipeIs DEF Typed
  <2>3. Forking(p, o, "left_forked", "left", "pid_l") BY <1>3
  <2> HIDE DEF o
  <2>4. /\ o.state = os.state /\ o.parent = os.parent /\ o.group = os.group
        /\ o.status = os.status /\ o.fd = os.fd
        /\ \A q \in Pids \ {p} : o.open[q] = os.open[q]
        /\ o.open[p] = os.open[p] \cup {R(k), W(k)}
    BY <2>1, <2>2 DEF Typed, IsSystem
  <2>5. Typed' /\ Outcome(p, o.open[p], "left_forked", "left", "pid_l")
    BY <1>1, <2>2, <2>3, <2>4, LabelsAre, FieldsAre, ForkingIs
  <2> QED BY <1>1, <2>4, <2>5
<1> QED BY <1>2, <1>3 DEF ExecPipe

(* ForkRight: an error, or a process for the pipe's right.                 *)
LEMMA ForkRightIs ==
  ASSUME Typed, NEW p \in Pids, ForkRight(p)
  PROVE  /\ Typed' /\ at[p] = "left_forked"
         /\ \/ mem[p].pid_l = -1 /\ Ends(p, Exited(EXIT_FAILURE))
            \/ /\ mem[p].pid_l # -1
               /\ Outcome(p, os.open[p], "right_forked", "right", "pid_r")
<1>1. at[p] = "left_forked" BY DEF ForkRight
<1>2. CASE mem[p].pid_l = -1 BY <1>1, <1>2, DieIs DEF ForkRight
<1>3. CASE mem[p].pid_l # -1
  <2>1. Forking(p, os, "right_forked", "right", "pid_r") BY <1>3 DEF ForkRight
  <2>2. IsSystem(os) /\ "pid_r" \in Fields BY FieldsAre DEF Typed
  <2>3. "right_forked" \in Labels \ {"gone"} /\ "right" \in Labels \ {"gone"} BY LabelsAre
  <2> QED BY <1>1, <1>3, <2>1, <2>2, <2>3, ForkingIs
<1> QED BY <1>2, <1>3

(* Several calls of close and dup2 *)
SameButFds(o, r, p) ==
    /\ IsSystem(r) /\ r.state = o.state /\ r.parent = o.parent
    /\ r.group = o.group /\ r.status = o.status
    /\ \A q \in Pids \ {p} : r.fd[q] = o.fd[q] /\ r.open[q] = o.open[q]

(* The effect of close on the descriptors.                                 *)
LEMMA CloseEffect ==
  ASSUME NEW o, IsSystem(o), NEW p \in Pids, NEW e
  PROVE  /\ SameButFds(o, Close(o, p, e), p) /\ Close(o, p, e).fd[p] = o.fd[p]
         /\ Close(o, p, e).open[p] = o.open[p] \ {e}
<1> DEFINE r == Close(o, p, e)
<1>1. /\ IsSystem(r) /\ r.open = [o.open EXCEPT ![p] = @ \ {e}]
      /\ \A x \in DOMAIN o \ {"open"} : r[x] = o[x]
  BY CloseIs
<1> HIDE DEF r
<1>2. SameButFds(o, r, p) /\ r.fd[p] = o.fd[p] /\ r.open[p] = o.open[p] \ {e}
  BY <1>1 DEF SameButFds, IsSystem
<1> QED BY <1>2 DEF r

(* The effect of dup2 on the descriptors.                                  *)
LEMMA Dup2Effect ==
  ASSUME NEW o, IsSystem(o), NEW p \in Pids, NEW e, NEW n \in Stdin..Stderr
  PROVE  /\ SameButFds(o, Dup2(o, p, e, n), p)
         /\ Dup2(o, p, e, n).fd[p] = [o.fd[p] EXCEPT ![n] = e]
         /\ Dup2(o, p, e, n).open[p] = o.open[p]
<1> DEFINE r == Dup2(o, p, e, n)
<1>1. /\ IsSystem(r) /\ r.fd = [o.fd EXCEPT ![p] = [o.fd[p] EXCEPT ![n] = e]]
      /\ \A x \in DOMAIN o \ {"fd"} : r[x] = o[x]
  BY Dup2Is
<1> HIDE DEF r
<1>2. SameButFds(o, r, p) /\ r.fd[p] = [o.fd[p] EXCEPT ![n] = e] /\ r.open[p] = o.open[p]
  BY <1>1 DEF SameButFds, IsSystem
<1> QED BY <1>2 DEF r

(* the ends of a pipe *)
LEMMA EndsAre ==
  ASSUME NEW p \in Pids, NEW k, os.open[p] = {R(k), W(k)}
  PROVE  ReadEnd(p) = R(k) /\ WriteEnd(p) = W(k) /\ R(k) # W(k)
<1>1. R(k) # W(k) /\ R(k)[1] = "read" /\ W(k)[1] = "write" BY DEF R, W
<1>2. \A e \in os.open[p] : (e[1] = "read" <=> e = R(k)) /\ (e[1] = "write" <=> e = W(k))
  BY <1>1
<1> QED BY <1>1, <1>2 DEF ReadEnd, WriteEnd

(* Both ends of the pipe are closed.                                       *)
LEMMA BothClosedIs ==
  ASSUME NEW p \in Pids, NEW o, IsSystem(o)
  PROVE  /\ SameButFds(o, BothClosed(o, p), p) /\ BothClosed(o, p).fd[p] = o.fd[p]
         /\ BothClosed(o, p).open[p] = o.open[p] \ {ReadEnd(p), WriteEnd(p)}
<1> DEFINE a == Close(o, p, ReadEnd(p))
           b == Close(a, p, WriteEnd(p))
<1>1. SameButFds(o, a, p) /\ a.fd[p] = o.fd[p] /\ a.open[p] = o.open[p] \ {ReadEnd(p)}
  BY CloseEffect
<1>2. IsSystem(a) BY <1>1 DEF SameButFds
<1> HIDE DEF a
<1>3. SameButFds(a, b, p) /\ b.fd[p] = a.fd[p] /\ b.open[p] = a.open[p] \ {WriteEnd(p)}
  BY <1>2, CloseEffect
<1>4. BothClosed(o, p) = b BY DEF BothClosed, a
<1> HIDE DEF b
<1>5. SameButFds(o, b, p) BY <1>1, <1>3 DEF SameButFds
<1> QED BY <1>1, <1>3, <1>4, <1>5

(* ClosePipe: an error, or no end of the pipe is left.                     *)
LEMMA ClosePipeIs ==
  ASSUME Typed, NEW p \in Pids, ClosePipe(p)
  PROVE  /\ Typed' /\ at[p] = "right_forked"
         /\ \/ mem[p].pid_r = -1 /\ Ends(p, Exited(EXIT_FAILURE))
            \/ /\ mem[p].pid_r # -1
               /\ Still /\ Apart({p}) /\ at'[p] = "wait_left" /\ mem' = mem
               /\ os'.fd[p] = os.fd[p]
               /\ os'.open[p] = os.open[p] \ {ReadEnd(p), WriteEnd(p)}
<1>1. at[p] = "right_forked" BY DEF ClosePipe
<1>2. CASE mem[p].pid_r = -1 BY <1>1, <1>2, DieIs DEF ClosePipe
<1>3. CASE mem[p].pid_r # -1
  <2>1. os' = BothClosed(os, p) /\ Goto(p, "wait_left") /\ mem' = mem BY <1>3 DEF ClosePipe
  <2>2. /\ SameButFds(os, os', p) /\ os'.fd[p] = os.fd[p]
        /\ os'.open[p] = os.open[p] \ {ReadEnd(p), WriteEnd(p)}
    BY <2>1, BothClosedIs DEF Typed
  <2>3. /\ IsSystem(os') /\ Still
        /\ \A q \in Pids \ {p} : os'.fd[q] = os.fd[q] /\ os'.open[q] = os.open[q]
    BY <2>2 DEF SameButFds, Still
  <2>4. Typed' /\ at'[p] = "wait_left" /\ Apart({p})
    BY <1>1, <2>1, <2>3, SameMemory, LocalStep, LabelsAre
  <2> QED BY <1>1, <1>3, <2>1, <2>2, <2>3, <2>4
<1> QED BY <1>2, <1>3

(* The left process has the write end for its output, and no other.        *)
LEMMA LeftEndsIs ==
  ASSUME NEW p \in Pids, NEW o, IsSystem(o)
  PROVE  /\ SameButFds(o, LeftEnds(o, p), p)
         /\ LeftEnds(o, p).fd[p] = [o.fd[p] EXCEPT ![Stdout] = WriteEnd(p)]
         /\ LeftEnds(o, p).open[p] = o.open[p] \ {ReadEnd(p), WriteEnd(p)}
<1> DEFINE a == Dup2(o, p, WriteEnd(p), Stdout)
           b == Close(a, p, ReadEnd(p))
           c == Close(b, p, WriteEnd(p))
<1>1. /\ SameButFds(o, a, p) /\ a.fd[p] = [o.fd[p] EXCEPT ![Stdout] = WriteEnd(p)]
      /\ a.open[p] = o.open[p]
  BY Dup2Effect, Constants
<1>2. IsSystem(a) BY <1>1 DEF SameButFds
<1>3. LeftEnds(o, p) = c BY DEF LeftEnds, LeftEndsKept
<1> HIDE DEF a
<1>4. SameButFds(a, b, p) /\ b.fd[p] = a.fd[p] /\ b.open[p] = a.open[p] \ {ReadEnd(p)}
  BY <1>2, CloseEffect
<1>5. IsSystem(b) BY <1>4 DEF SameButFds
<1> HIDE DEF b
<1>6. SameButFds(b, c, p) /\ c.fd[p] = b.fd[p] /\ c.open[p] = b.open[p] \ {WriteEnd(p)}
  BY <1>5, CloseEffect
<1> HIDE DEF c
<1>7. SameButFds(o, c, p) BY <1>1, <1>4, <1>6 DEF SameButFds
<1> QED BY <1>1, <1>3, <1>4, <1>6, <1>7

(* The right process has the read end for its input, and no other.         *)
LEMMA RightEndsIs ==
  ASSUME NEW p \in Pids, NEW o, IsSystem(o)
  PROVE  /\ SameButFds(o, RightEnds(o, p), p)
         /\ RightEnds(o, p).fd[p] = [o.fd[p] EXCEPT ![Stdin] = ReadEnd(p)]
         /\ RightEnds(o, p).open[p] = o.open[p] \ {ReadEnd(p), WriteEnd(p)}
<1> DEFINE a == Close(o, p, WriteEnd(p))
           b == Dup2(a, p, ReadEnd(p), Stdin)
           c == Close(b, p, ReadEnd(p))
<1>1. SameButFds(o, a, p) /\ a.fd[p] = o.fd[p] /\ a.open[p] = o.open[p] \ {WriteEnd(p)}
  BY CloseEffect
<1>2. IsSystem(a) BY <1>1 DEF SameButFds
<1>3. RightEnds(o, p) = c BY DEF RightEnds
<1> HIDE DEF a
<1>4. /\ SameButFds(a, b, p) /\ b.fd[p] = [a.fd[p] EXCEPT ![Stdin] = ReadEnd(p)]
      /\ b.open[p] = a.open[p]
  BY <1>2, Dup2Effect, Constants
<1>5. IsSystem(b) BY <1>4 DEF SameButFds
<1> HIDE DEF b
<1>6. SameButFds(b, c, p) /\ c.fd[p] = b.fd[p] /\ c.open[p] = b.open[p] \ {ReadEnd(p)}
  BY <1>5, CloseEffect
<1> HIDE DEF c
<1>7. SameButFds(o, c, p) BY <1>1, <1>4, <1>6 DEF SameButFds
<1> QED BY <1>1, <1>3, <1>4, <1>6, <1>7

(* What the two processes of a pipe have in common.                        *)
LEMMA ChildIs ==
  ASSUME Typed, NEW p \in Pids, at[p] # "gone", SameButFds(os, os', p),
         Goto(p, "exec"), NEW x, mem' = [mem EXCEPT ![p].tree = x]
  PROVE  /\ Typed' /\ at'[p] = "exec" /\ Still /\ Apart({p})
         /\ mem'[p].tree = x /\ Keeps(p, {"tree"})
<1> DEFINE m == [mem[p] EXCEPT !.tree = x]
           F == {"tree"}
<1>1. DOMAIN mem[p] = Fields /\ DOMAIN mem = Pids BY DEF Typed, Fields
<1>2. DOMAIN m = Fields /\ m.tree = x /\ \A f \in Fields \ F : m[f] = mem[p][f]
  BY <1>1, FieldsAre
<1>3. mem' = [mem EXCEPT ![p] = m] BY <1>1
<1> HIDE DEF m
<1>4. /\ DOMAIN mem' = Pids /\ DOMAIN mem'[p] = DOMAIN Memory /\ mem'[p] = m
      /\ Keeps(p, F) /\ \A q \in Pids \ {p} : mem'[q] = mem[q]
  BY <1>2, <1>3, AssignedIs
<1>5. /\ IsSystem(os') /\ Still
      /\ \A q \in Pids \ {p} : os'.fd[q] = os.fd[q] /\ os'.open[q] = os.open[q]
  BY DEF SameButFds, Still
<1>6. Typed' /\ at'[p] = "exec" /\ Apart({p}) BY <1>4, <1>5, LocalStep, LabelsAre
<1> QED BY <1>2, <1>4, <1>5, <1>6

(* LeftChild: the command on the left, writing into the pipe.              *)
LEMMA LeftChildIs ==
  ASSUME Typed, NEW p \in Pids, LeftChild(p)
  PROVE  /\ Typed' /\ at[p] = "left" /\ at'[p] = "exec" /\ Still /\ Apart({p})
         /\ mem'[p].tree = mem[p].tree.leftcmd /\ Keeps(p, {"tree"})
         /\ os'.fd[p] = [os.fd[p] EXCEPT ![Stdout] = WriteEnd(p)]
         /\ os'.open[p] = os.open[p] \ {ReadEnd(p), WriteEnd(p)}
<1>1. at[p] = "left" /\ os' = LeftEnds(os, p) /\ Goto(p, "exec") BY DEF LeftChild
<1>2. mem' = [mem EXCEPT ![p].tree = mem[p].tree.leftcmd] BY DEF LeftChild
<1>3. /\ SameButFds(os, os', p)
      /\ os'.fd[p] = [os.fd[p] EXCEPT ![Stdout] = WriteEnd(p)]
      /\ os'.open[p] = os.open[p] \ {ReadEnd(p), WriteEnd(p)}
  BY <1>1, LeftEndsIs DEF Typed
<1> QED BY <1>1, <1>2, <1>3, ChildIs

(* RightChild: the command on the right, reading from the pipe.            *)
LEMMA RightChildIs ==
  ASSUME Typed, NEW p \in Pids, RightChild(p)
  PROVE  /\ Typed' /\ at[p] = "right" /\ at'[p] = "exec" /\ Still /\ Apart({p})
         /\ mem'[p].tree = mem[p].tree.rightcmd /\ Keeps(p, {"tree"})
         /\ os'.fd[p] = [os.fd[p] EXCEPT ![Stdin] = ReadEnd(p)]
         /\ os'.open[p] = os.open[p] \ {ReadEnd(p), WriteEnd(p)}
<1>1. at[p] = "right" /\ os' = RightEnds(os, p) /\ Goto(p, "exec") BY DEF RightChild
<1>2. mem' = [mem EXCEPT ![p].tree = mem[p].tree.rightcmd] BY DEF RightChild
<1>3. /\ SameButFds(os, os', p)
      /\ os'.fd[p] = [os.fd[p] EXCEPT ![Stdin] = ReadEnd(p)]
      /\ os'.open[p] = os.open[p] \ {ReadEnd(p), WriteEnd(p)}
  BY <1>1, RightEndsIs DEF Typed
<1> QED BY <1>1, <1>2, <1>3, ChildIs

(* WaitLeft: the left process is taken, or nobody is left to wait for.     *)
LEMMA WaitLeftIs ==
  ASSUME Typed, NEW p \in Pids, WaitLeft(p)
  PROVE  /\ Typed' /\ at[p] = "wait_left" /\ at'[p] = "wait_right" /\ mem' = mem
         /\ \/ \E z \in Done(os, p, mem[p].pid_l) : Takes(p, {z})
            \/ Still /\ SameFds(p) /\ Apart({p}) /\ Awaited(os, p, mem[p].pid_l) = {}
<1> DEFINE c == mem[p].pid_l
<1>1. at[p] = "wait_left" /\ Goto(p, "wait_right") BY DEF WaitLeft
<1>2. mem' = mem BY DEF WaitLeft, Waited
<1>3. /\ DOMAIN mem' = Pids /\ DOMAIN mem'[p] = DOMAIN Memory
      /\ \A q \in Pids \ {p} : mem'[q] = mem[q]
  BY <1>1, <1>2, SameMemory
<1>4. \/ \E z \in Done(os, p, c) : os' = Reap(os, {z})
      \/ Awaited(os, p, c) = {} /\ os' = os
  BY DEF WaitLeft, Waited
<1> HIDE DEF c
<1>5. CASE Awaited(os, p, c) = {} /\ os' = os
  <2>1. Typed' /\ at'[p] = "wait_right" /\ Still /\ SameFds(p) /\ Apart({p})
    BY <1>1, <1>3, <1>5, UnchangedOs, LocalStep, LabelsAre
  <2> QED BY <1>1, <1>2, <1>5, <2>1 DEF c
<1>6. ASSUME NEW z \in Done(os, p, c), os' = Reap(os, {z})
      PROVE  Typed' /\ at'[p] = "wait_right" /\ Takes(p, {z})
  <2> DEFINE Z == {z}
  <2>1. \A q \in Pids \ {p} : at'[q] = at[q] /\ mem'[q] = mem[q]
    BY <1>1, <1>3 DEF Goto, Typed
  <2>2. Z \subseteq Done(os, p, c) /\ os' = Reap(os, Z) BY <1>6
  <2> HIDE DEF Z
  <2>3. /\ IsSystem(os') /\ Takes(p, Z) /\ \A q \in Pids : Running(os', q) <=> Running(os, q)
    BY <2>1, <2>2, WaitedIs
  <2>4. Typed' /\ at'[p] = "wait_right" BY <1>1, <1>3, <2>3, LocalTyped, LabelsAre
  <2> QED BY <2>3, <2>4 DEF Z
<1> QED BY <1>1, <1>2, <1>4, <1>5, <1>6 DEF c

(* WaitRight: the right process has ended, and so does this one.           *)
LEMMA WaitRightIs ==
  ASSUME Typed, NEW p \in Pids, WaitRight(p)
  PROVE  /\ Typed' /\ at[p] = "wait_right" /\ WaitReturns(os, p, mem[p].pid_r)
         /\ Ends(p, Exited(0))
  BY DieIs DEF WaitRight

(* A running program ends, or goes on. *)
LEMMA ProgramIs ==
  ASSUME Typed, NEW p \in Pids, ProgramRead(p) \/ ProgramWrite(p) \/ ProgramExit(p)
  PROVE  /\ Typed' /\ at[p] = "prog"
         /\ (\E word : Ends(p, word)) \/ Local(p, "prog", {"todo", "eof"})
<1>1. at[p] = "prog" BY DEF ProgramRead, ProgramWrite, ProgramExit
<1>2. ASSUME NEW word, Die(p, word)
      PROVE  Typed' /\ Ends(p, word)
  BY <1>1, <1>2, DieIs
<1>3. ASSUME at' = at, NEW r, NEW i, os' = [os EXCEPT !.buf[i] = r] \/ os' = os,
             NEW f \in {"todo", "eof"}, NEW x, mem' = [mem EXCEPT ![p] = [mem[p] EXCEPT ![f] = x]]
      PROVE  Typed' /\ Local(p, "prog", {"todo", "eof"})
  <2> DEFINE m == [mem[p] EXCEPT ![f] = x]
             F == {"todo", "eof"}
  <2>1. DOMAIN mem[p] = Fields BY <1>1 DEF Typed, Fields
  <2>2. DOMAIN m = Fields /\ \A g \in Fields \ F : m[g] = mem[p][g] BY <2>1
  <2>3. mem' = [mem EXCEPT ![p] = m] BY <1>3
  <2> HIDE DEF m
  <2>4. /\ DOMAIN mem' = Pids /\ DOMAIN mem'[p] = DOMAIN Memory
        /\ Keeps(p, F) /\ \A q \in Pids \ {p} : mem'[q] = mem[q]
    BY <1>1, <2>2, <2>3, AssignedIs
  <2>5. /\ IsSystem(os') /\ Still
        /\ \A q \in Pids : os'.fd[q] = os.fd[q] /\ os'.open[q] = os.open[q]
    BY <1>3 DEF Typed, IsSystem, Still
  <2>6. Goto(p, "prog") BY <1>1, <1>3 DEF Goto, Typed
  <2>7. Typed' /\ at'[p] = "prog" /\ Apart({p})
    BY <1>1, <2>4, <2>5, <2>6, LocalStep, LabelsAre
  <2> QED BY <2>4, <2>5, <2>7 DEF Local, SameFds
<1>4. CASE ProgramRead(p)
  <2>1. /\ at' = at
        /\ \/ os' = os /\ mem' = [mem EXCEPT ![p].eof = TRUE]
           \/ os' = Read(os, Input(p)) /\ mem' = [mem EXCEPT ![p].todo = 1]
    BY <1>4 DEF ProgramRead
  <2> QED BY <1>1, <1>3, <2>1 DEF Read
<1>5. CASE ProgramWrite(p)
  <2>1. \/ Die(p, Killed(SIGPIPE))
        \/ at' = at /\ os' = Write(os, Output(p), "x") /\ mem' = [mem EXCEPT ![p].todo = @ - 1]
    BY <1>5 DEF ProgramWrite
  <2> QED BY <1>1, <1>2, <1>3, <2>1 DEF Write
<1>6. CASE ProgramExit(p) BY <1>1, <1>2, <1>6 DEF ProgramExit
<1> QED BY <1>4, <1>5, <1>6
-----------------------------------------------------------------------------
(* The tree of processes *)

Regroups(p) ==
    /\ at[p] = "child" /\ at'[p] = "exec" /\ Apart({p}) /\ mem' = mem
    /\ os'.state = os.state /\ os'.parent = os.parent /\ os'.status = os.status
    /\ os'.group = IF mem[p].tree.type # "BACK" THEN [os.group EXCEPT ![p] = p] ELSE os.group

(* the labels from which a process ends, those between which it forks or   *)
(* goes on by itself *)
Enders == {"prompt", "exec", "left_forked", "right_forked", "wait_right", "prog"}
Makes(p, c) ==
    \/ at[p] = "fork" /\ Begets(p, c, "wait", "child", "pid")
    \/ at[p] = "exec" /\ Begets(p, c, "left_forked", "left", "pid_l")
    \/ at[p] = "left_forked" /\ Begets(p, c, "right_forked", "right", "pid_r")
Goes(p) ==
    \/ at'[p] = at[p]
    \/ at[p] = "prompt" /\ at'[p] = "fork"
    \/ at[p] = "fork" /\ at'[p] = "wait"
    \/ at[p] = "wait" /\ at'[p] = "prompt"
    \/ at[p] \in {"exec", "left", "right", "left_forked", "right_forked", "wait_left"}
       /\ at'[p] \in {"exec", "prog", "left_forked", "right_forked", "wait_left", "wait_right"}
TreeStep(p) ==
    \/ at[p] \in Enders /\ \E word : Ends(p, word)
    \/ \E c \in Pids : Makes(p, c)
    \/ Goes(p) /\ Still /\ Apart({p})
    \/ Goes(p) /\ \E Z \in SUBSET Pids : Takes(p, Z)
    \/ Regroups(p)

(* Every step keeps the types and is one of these four.                    *)
LEMMA TreeStepIs ==
  ASSUME Typed, NEW p \in Pids, Step(p) \/ sigchld_handler(p)
  PROVE  Typed' /\ TreeStep(p)
<1>1. CASE ReadLine(p) BY <1>1, ReadLineIs DEF TreeStep, Enders, Goes, Local
<1>2. CASE RunCmdFork(p)
  <2>1. Typed' /\ at[p] = "fork" /\ Outcome(p, os.open[p], "wait", "child", "pid")
    BY <1>2, RunCmdForkIs
  <2>2. CASE \E c \in Pids : Begets(p, c, "wait", "child", "pid")
    BY <2>1, <2>2 DEF TreeStep, Makes
  <2> QED BY <2>1, <2>2 DEF Outcome, TreeStep, Goes
<1>3. CASE RunCmdChild(p) BY <1>3, RunCmdChildIs DEF TreeStep, Regroups
<1>4. CASE RunCmdWait(p)
  <2>1. /\ Typed' /\ at[p] = "wait" /\ at'[p] = "prompt"
        /\ \/ \E z \in Done(os, p, mem[p].pid) : Takes(p, {z})
           \/ Still /\ Apart({p})
    BY <1>4, RunCmdWaitIs
  <2>2. \A z \in Done(os, p, mem[p].pid) : {z} \in SUBSET Pids
    BY DEF Done, Awaited, Children
  <2> QED BY <2>1, <2>2 DEF TreeStep, Goes
<1>5. CASE ExecCommand(p) BY <1>5, ExecCommandIs DEF TreeStep, Enders, Goes
<1>6. CASE ExecPipe(p)
  <2>1. /\ Typed' /\ at[p] = "exec"
        /\ \/ Ends(p, Exited(EXIT_FAILURE))
           \/ \E k : Outcome(p, os.open[p] \cup {R(k), W(k)}, "left_forked", "left", "pid_l")
    BY <1>6, ExecPipeIs
  <2>2. CASE \E c \in Pids : Begets(p, c, "left_forked", "left", "pid_l")
    BY <2>1, <2>2 DEF TreeStep, Makes
  <2>3. CASE Ends(p, Exited(EXIT_FAILURE)) BY <2>1, <2>3 DEF TreeStep, Enders
  <2> QED BY <2>1, <2>2, <2>3 DEF Outcome, TreeStep, Goes
<1>7. CASE ForkRight(p)
  <2>1. /\ Typed' /\ at[p] = "left_forked"
        /\ \/ Ends(p, Exited(EXIT_FAILURE))
           \/ Outcome(p, os.open[p], "right_forked", "right", "pid_r")
    BY <1>7, ForkRightIs
  <2>2. CASE \E c \in Pids : Begets(p, c, "right_forked", "right", "pid_r")
    BY <2>1, <2>2 DEF TreeStep, Makes
  <2>3. CASE Ends(p, Exited(EXIT_FAILURE)) BY <2>1, <2>3 DEF TreeStep, Enders
  <2> QED BY <2>1, <2>2, <2>3 DEF Outcome, TreeStep, Goes
<1>8. CASE ClosePipe(p) BY <1>8, ClosePipeIs DEF TreeStep, Enders, Goes
<1>9. CASE LeftChild(p) BY <1>9, LeftChildIs DEF TreeStep, Goes
<1>10. CASE RightChild(p) BY <1>10, RightChildIs DEF TreeStep, Goes
<1>11. CASE WaitLeft(p)
  <2>1. /\ Typed' /\ at[p] = "wait_left" /\ at'[p] = "wait_right"
        /\ \/ \E z \in Done(os, p, mem[p].pid_l) : Takes(p, {z})
           \/ Still /\ Apart({p})
    BY <1>11, WaitLeftIs
  <2>2. \A z \in Done(os, p, mem[p].pid_l) : {z} \in SUBSET Pids
    BY DEF Done, Awaited, Children
  <2> QED BY <2>1, <2>2 DEF TreeStep, Goes
<1>12. CASE WaitRight(p) BY <1>12, WaitRightIs DEF TreeStep, Enders
<1>13. CASE ProgramRead(p) \/ ProgramWrite(p) \/ ProgramExit(p)
  BY <1>13, ProgramIs DEF TreeStep, Enders, Goes, Local
<1>14. CASE sigchld_handler(p)
  <2>1. InGroup(os, p) \subseteq Pids BY DEF InGroup, Done, Awaited, Children
  <2>2. PICK Z \in SUBSET InGroup(os, p) : Takes(p, Z) BY <1>14, HandlerIs
  <2>3. Typed' /\ at' = at BY <1>14, HandlerIs
  <2> QED BY <2>1, <2>2, <2>3 DEF TreeStep, Goes
<1> QED
  BY <1>1, <1>2, <1>3, <1>4, <1>5, <1>6, <1>7, <1>8, <1>9, <1>10, <1>11, <1>12, <1>13, <1>14
  DEF Step

(* The initial state is of the types.                                      *)
LEMMA InitTyped ==
  ASSUME Init
  PROVE  Typed
<1>1. /\ os = Booted /\ at = [q \in Pids |-> IF q = 1 THEN "prompt" ELSE "gone"]
      /\ mem = [q \in Pids |-> IF q = 1 THEN Memory ELSE NoMemory]
  BY DEF Init, Boot
<1>2. IsSystem(os) BY <1>1, Constants DEF Booted, IsSystem
<1>3. at \in [Pids -> Labels] BY <1>1 DEF Labels, Prompting
<1>4. \A q \in Pids : Running(os, q) <=> at[q] # "gone" BY <1>1 DEF Booted, Running
<1>5. DOMAIN mem = Pids /\ \A q \in Pids : at[q] # "gone" => DOMAIN mem[q] = DOMAIN Memory
  BY <1>1
<1> QED BY <1>2, <1>3, <1>4, <1>5 DEF Typed

(* The shell alone is a family.                                            *)
LEMMA InitFamily ==
  ASSUME Init
  PROVE  Family
<1>1. /\ os = Booted /\ at = [q \in Pids |-> IF q = 1 THEN "prompt" ELSE "gone"]
      /\ mem = [q \in Pids |-> IF q = 1 THEN Memory ELSE NoMemory]
  BY DEF Init, Boot
<1>2. /\ \A q \in Pids : (os.state[q] # "none" <=> q = 1) /\ os.parent[q] = InitPid
      /\ os.group = [q \in Pids |-> q]
  BY <1>1 DEF Booted
<1>3. Rooted(os)
  <2> SUFFICES ASSUME NEW A \in SUBSET Pids, A # {}
               PROVE  \E q \in A : os.parent[q] \notin A
    BY DEF Rooted
  <2>1. PICK q \in A : TRUE OBVIOUS
  <2> QED BY <1>2, <2>1, Constants
<1>4. \A q \in Pids : Live(q) => os.parent[q] = InitPid BY <1>2
<1>5. os.group[sh] = sh BY <1>2, Constants
<1>6. \A q \in Pids : at[q] # "child" /\ (at[q] \in Prompting => q = sh)
  BY <1>1, Constants DEF Prompting
<1> QED BY <1>3, <1>4, <1>5, <1>6 DEF Family

(* Fewer processes, or processes given to init. *)
LEMMA RootedLess ==
  ASSUME Rooted(os),
         \A q \in Pids : os'.state[q] # "none" =>
             /\ os.state[q] # "none"
             /\ os'.parent[q] = os.parent[q] \/ os'.parent[q] = InitPid
  PROVE  Rooted(os')
<1> SUFFICES ASSUME NEW A \in SUBSET {q \in Pids : os'.state[q] # "none"}, A # {}
             PROVE  \E q \in A : os'.parent[q] \notin A
  BY DEF Rooted
<1>1. A \in SUBSET {q \in Pids : os.state[q] # "none"} OBVIOUS
<1>2. PICK q \in A : os.parent[q] \notin A BY <1>1 DEF Rooted
<1>3. InitPid \notin A BY Constants
<1> QED BY <1>2, <1>3

(* A new process. *)
LEMMA RootedMore ==
  ASSUME Rooted(os), NEW p \in Pids, NEW c \in Pids \ {p},
         \A q \in Pids \ {c} :
             /\ os'.state[q] = os.state[q] /\ os'.parent[q] = os.parent[q]
             /\ os.state[q] # "none" => os.parent[q] # c,
         os'.parent[c] = p
  PROVE  Rooted(os')
<1> SUFFICES ASSUME NEW A \in SUBSET {q \in Pids : os'.state[q] # "none"}, A # {}
             PROVE  \E q \in A : os'.parent[q] \notin A
  BY DEF Rooted
<1> DEFINE B == A \ {c}
<1>1. CASE B = {} BY <1>1
<1>2. CASE B # {}
  <2>1. B \in SUBSET {q \in Pids : os.state[q] # "none"} OBVIOUS
  <2>2. PICK q \in B : os.parent[q] \notin B BY <1>2, <2>1 DEF Rooted
  <2> QED BY <2>1, <2>2
<1> QED BY <1>1, <1>2

(* The family when a process ends: its children go to init.                *)
LEMMA FamilyEnds ==
  ASSUME Typed, Family, NEW p \in Pids, at[p] \in Enders, NEW word, Ends(p, word)
  PROVE  Family'
<1>1. \A q \in Pids : Live(q)' => Live(q) BY DEF Ends, Live, Running, Zombie
<1>2. Rooted(os')
  <2>1. \A q \in Pids : os'.state[q] # "none" =>
             /\ os.state[q] # "none"
             /\ os'.parent[q] = os.parent[q] \/ os'.parent[q] = InitPid
    BY <1>1 DEF Ends, Live
  <2> QED BY <2>1, RootedLess DEF Family
<1>3. \A q \in Pids : Live(q)' => os'.parent[q] = InitPid \/ Running(os', os'.parent[q])
  <2> SUFFICES ASSUME NEW q \in Pids, Live(q)', os'.parent[q] # InitPid
               PROVE  Running(os', os'.parent[q])
    OBVIOUS
  <2>1. Live(q) /\ os'.parent[q] = os.parent[q] /\ os.parent[q] # p
    BY <1>1 DEF Ends
  <2>2. Running(os, os.parent[q]) /\ os.parent[q] \in Pids \ {p}
    BY <2>1 DEF Family, Typed, IsSystem
  <2> QED BY <2>1, <2>2 DEF Ends, Running, Zombie
<1>4. \A q \in Pids : at'[q] = at[q] \/ at'[q] = "gone" BY DEF Ends, Apart
<1>5. os'.group = os.group BY DEF Ends
<1> QED BY <1>1, <1>2, <1>3, <1>4, <1>5 DEF Family, Prompting

(* The family when a process only goes on or takes ended children.         *)
LEMMA FamilySame ==
  ASSUME Typed, Family, NEW p \in Pids, Goes(p), Apart({p}),
         Still \/ \E Z \in SUBSET Pids : Takes(p, Z)
  PROVE  Family'
<1>1. /\ \A q \in Pids : Live(q)' => Live(q)
      /\ \A q \in Pids : Running(os, q) => Running(os', q)
      /\ os'.parent = os.parent /\ os'.group = os.group
  BY DEF Still, Takes, Live, Running, Zombie
<1>2. Rooted(os') BY <1>1, RootedLess DEF Family, Live
<1>3. \A q \in Pids : Live(q)' => os'.parent[q] = InitPid \/ Running(os', os'.parent[q])
  BY <1>1 DEF Family, Typed, IsSystem
<1>4. /\ \A q \in Pids : at'[q] \in Prompting => at[q] \in Prompting
      /\ \A q \in Pids : at'[q] = "child" => at[q] = "child"
  BY DEF Goes, Apart, Prompting
<1> QED BY <1>1, <1>2, <1>3, <1>4 DEF Family

(* The family when a child enters a group of its own.                      *)
LEMMA FamilyRegroups ==
  ASSUME Typed, Family, NEW p \in Pids, Regroups(p)
  PROVE  Family'
<1>1. /\ \A q \in Pids : Live(q)' <=> Live(q)
      /\ \A q \in Pids : Running(os, q) => Running(os', q)
      /\ os'.parent = os.parent
      /\ \A q \in Pids \ {p} : os'.group[q] = os.group[q]
      /\ os'.group[p] \in {os.group[p], p}
  BY DEF Regroups, Live, Running, Typed, IsSystem
<1>2. Rooted(os') BY <1>1, RootedLess DEF Family, Live
<1>3. \A q \in Pids : Live(q)' => os'.parent[q] = InitPid \/ Running(os', os'.parent[q])
  BY <1>1 DEF Family, Typed, IsSystem
<1>4. at'[p] = "exec" /\ \A q \in Pids \ {p} : at'[q] = at[q]
  BY DEF Regroups, Apart
<1>5. p # sh /\ os.group[p] = sh BY DEF Family, Regroups
<1>6. \A q \in Pids : at'[q] \in Prompting => q = sh /\ os'.group[sh] = sh
  BY <1>1, <1>4, <1>5, Constants DEF Family, Prompting
<1>7. os'.group[sh] = sh \/ \A q \in Pids : Live(q)' => os'.group[q] # sh
  BY <1>1, <1>5, Constants DEF Family
<1>8. \A q \in Pids : at'[q] = "child" =>
          /\ q # sh /\ os'.group[q] = sh
          /\ \A r \in Pids : Live(r)' => os'.group[r] # q
  BY <1>1, <1>4 DEF Family
<1> QED BY <1>2, <1>3, <1>6, <1>7, <1>8 DEF Family

(* The family when a process makes another one.                            *)
LEMMA FamilyMakes ==
  ASSUME Typed, Family, NEW p \in Pids, NEW c \in Pids, Makes(p, c)
  PROVE  Family'
<1>1. PICK parent, child, var : Begets(p, c, parent, child, var) /\
          \/ at[p] = "fork" /\ parent = "wait" /\ child = "child"
          \/ at[p] \in {"exec", "left_forked"} /\ parent \in Forked /\ child \in {"left", "right"}
  BY DEF Makes, Forked
<1>2. /\ c # p /\ Running(os, p) /\ ~Live(c) /\ Live(p)
      /\ \A q \in Pids : Live(q) => os.group[q] # c
      /\ \A q \in Pids \ {c} : os'.state[q] = os.state[q] /\ os'.parent[q] = os.parent[q]
                                /\ os'.group[q] = os.group[q]
      /\ os'.state[c] = "run" /\ os'.parent[c] = p /\ os'.group[c] = os.group[p]
  BY <1>1 DEF Begets, Live, Running, Typed, IsSystem
<1>3. \A q \in Pids : Live(q) => os.parent[q] # c
  BY <1>2, Constants DEF Family, Live, Running
<1>4. Rooted(os') BY <1>2, <1>3, RootedMore DEF Family, Live
<1>5. \A q \in Pids : Running(os, q) => Running(os', q) BY <1>2 DEF Running
<1>6. \A q \in Pids : Live(q)' => os'.parent[q] = InitPid \/ Running(os', os'.parent[q])
  <2> SUFFICES ASSUME NEW q \in Pids, Live(q)', os'.parent[q] # InitPid
               PROVE  Running(os', os'.parent[q])
    OBVIOUS
  <2>1. CASE q = c BY <1>2, <1>5, <2>1
  <2>2. CASE q # c BY <1>2, <1>5, <2>2 DEF Family, Live, Typed, IsSystem
  <2> QED BY <2>1, <2>2
<1>7. /\ \A q \in Pids \ {p, c} : at'[q] = at[q]
      /\ at'[p] = parent /\ at'[c] = child
  BY <1>1 DEF Begets, Apart
<1>8. \A q \in Pids : at'[q] \in Prompting => q = sh /\ os'.group[sh] = sh
  <2> SUFFICES ASSUME NEW q \in Pids, at'[q] \in Prompting
               PROVE  q = sh /\ os'.group[q] = sh
    OBVIOUS
  <2>1. q # c /\ at[q] \in Prompting BY <1>1, <1>7 DEF Prompting, Forked
  <2> QED BY <1>2, <2>1 DEF Family
<1>9. os'.group[sh] = sh \/ \A q \in Pids : Live(q)' => os'.group[q] # sh
  <2>1. CASE c = sh
    <3>1. \A q \in Pids : Live(q) => os.group[q] # sh BY <1>2, <2>1
    <3> QED BY <1>2, <3>1 DEF Live
  <2>2. CASE c # sh BY <1>2, <2>2, Constants DEF Family, Live
  <2> QED BY <2>1, <2>2
<1>10. \A q \in Pids : at'[q] = "child" =>
          /\ q # sh /\ os'.group[q] = sh
          /\ \A r \in Pids : Live(r)' => os'.group[r] # q
  <2> SUFFICES ASSUME NEW q \in Pids, at'[q] = "child"
               PROVE  /\ q # sh /\ os'.group[q] = sh
                      /\ \A r \in Pids : Live(r)' => os'.group[r] # q
    OBVIOUS
  <2>1. CASE q = c
    <3>1. at[p] = "fork" BY <1>1, <1>7, <2>1
    <3>2. p = sh /\ os.group[sh] = sh BY <3>1 DEF Family, Prompting
    <3> QED BY <1>2, <2>1, <3>2 DEF Live
  <2>2. CASE q # c
    <3>1. at[q] = "child" BY <1>1, <1>7, <2>2 DEF Forked
    <3> QED BY <1>2, <2>2, <3>1 DEF Family, Live
  <2> QED BY <2>1, <2>2
<1> QED BY <1>4, <1>6, <1>8, <1>9, <1>10 DEF Family

(* Every step keeps the family.                                            *)
LEMMA FamilyStep ==
  ASSUME Typed, Family, NEW p \in Pids, TreeStep(p)
  PROVE  Family'
<1>1. CASE at[p] \in Enders /\ \E word : Ends(p, word) BY <1>1, FamilyEnds
<1>2. CASE \E c \in Pids : Makes(p, c) BY <1>2, FamilyMakes
<1>3. CASE Goes(p) /\ Still /\ Apart({p}) BY <1>3, FamilySame
<1>4. CASE Goes(p) /\ \E Z \in SUBSET Pids : Takes(p, Z)
  BY <1>4, FamilySame DEF Takes
<1>5. CASE Regroups(p) BY <1>5, FamilyRegroups
<1> QED BY <1>1, <1>2, <1>3, <1>4, <1>5 DEF TreeStep
-----------------------------------------------------------------------------
(* The command for which the shell waits *)

(* What waitpid for one child finds.                                       *)
LEMMA ChildrenWaited ==
  ASSUME NEW p \in Pids, NEW c \in Pids
  PROVE  /\ \A z \in Done(os, p, c) : z = c /\ Zombie(os, c) /\ os.parent[c] = p
         /\ Awaited(os, p, c) = {} => ~(Live(c) /\ os.parent[c] = p)
  BY Constants DEF Done, Awaited, Children, AnyChild, Live

(* At first the shell waits for nothing.                                   *)
LEMMA InitCommand ==
  ASSUME Init
  PROVE  Command
<1>1. \A q \in Pids : at[q] \notin {"child", "wait"} BY DEF Init, Boot
<1> QED BY <1>1, Constants DEF Command

(* The shell's command when a process ends.                                *)
LEMMA CommandEnds ==
  ASSUME Typed, Family, Command, NEW p \in Pids, at[p] \in Enders, NEW word, Ends(p, word)
  PROVE  Command'
<1>1. /\ at'[p] = "gone" /\ os'.group = os.group
      /\ \A q \in Pids \ {p} : at'[q] = at[q] /\ mem'[q] = mem[q]
      /\ \A q \in Pids : Live(q)' => Live(q)
  BY DEF Ends, Apart, Live, Running, Zombie
<1>2. at[sh] = "wait" => sh # p BY DEF Enders
<1>3. ASSUME NEW q \in Pids, at'[q] = "child", mem'[q].tree.type # "BACK"
      PROVE  at'[sh] = "wait" /\ mem'[sh].pid = q /\ mem'[q].tree = mem'[sh].tree
  <2>1. q # p /\ at[q] = "child" /\ mem'[q] = mem[q] BY <1>1, <1>3
  <2>2. at[sh] = "wait" /\ mem[sh].pid = q /\ mem[q].tree = mem[sh].tree
    BY <1>3, <2>1 DEF Command
  <2> QED BY <1>1, <1>2, <2>1, <2>2, Constants
<1>4. ASSUME at'[sh] = "wait", mem'[sh].pid # -1, NEW c, c = mem'[sh].pid
      PROVE  /\ c \in Pids \ {sh}
             /\ IF mem'[sh].tree.type = "BACK"
                THEN \A q \in Pids : Live(q)' => os'.group[q] # c
                ELSE /\ Live(c)' /\ os'.parent[c] = sh
                     /\ \/ at'[c] = "child" /\ mem'[c].tree = mem'[sh].tree
                        \/ os'.group[c] = c
  <2>1. sh # p /\ at[sh] = "wait" /\ mem'[sh] = mem[sh] BY <1>1, <1>4, Constants
  <2>2. c \in Pids \ {sh} /\ c = mem[sh].pid BY <1>4, <2>1 DEF Command
  <2>3. CASE mem[sh].tree.type = "BACK" BY <1>1, <1>4, <2>1, <2>2, <2>3 DEF Command
  <2>4. CASE mem[sh].tree.type # "BACK"
    <3>1. /\ Live(c) /\ os.parent[c] = sh
          /\ \/ at[c] = "child" /\ mem[c].tree = mem[sh].tree
             \/ os.group[c] = c
      BY <1>4, <2>1, <2>2, <2>4 DEF Command
    <3>2. Live(c)' /\ os'.parent[c] = sh
      <4>1. os'.parent[c] = sh BY <2>1, <2>2, <3>1 DEF Ends
      <4>2. os.parent[c] # InitPid BY <3>1, Constants
      <4> QED BY <2>1, <2>2, <3>1, <4>1, <4>2 DEF Ends, Live
    <3>3. at[c] = "child" => c # p BY DEF Enders
    <3> QED BY <1>1, <2>1, <2>2, <2>4, <3>1, <3>2, <3>3
  <2> QED BY <2>3, <2>4
<1> QED BY <1>3, <1>4 DEF Command

(* A step that leaves alone the shell that waits and a child that starts,  *)
(* if the shell takes only children of its own group.                      *)
LEMMA CommandSame ==
  ASSUME Typed, Family, Command, NEW p \in Pids,
         \A q \in Pids : at'[q] \in {"child", "wait"} => at'[q] = at[q] /\ mem'[q] = mem[q],
         at[sh] = "wait" => at'[sh] = "wait",
         \A q \in Pids : at[q] = "child" => at'[q] = "child",
         os'.parent = os.parent, os'.group = os.group,
         \A q \in Pids : \/ os'.state[q] = os.state[q]
                         \/ /\ Zombie(os, q) /\ os.parent[q] = p
                            /\ p = sh /\ at[sh] = "wait" => os.group[q] = os.group[sh],
         \A q \in Pids : Live(q)' => Live(q)
  PROVE  Command'
<1>1. ASSUME NEW q \in Pids, at'[q] = "child", mem'[q].tree.type # "BACK"
      PROVE  at'[sh] = "wait" /\ mem'[sh].pid = q /\ mem'[q].tree = mem'[sh].tree
  <2>1. at[q] = "child" /\ mem'[q] = mem[q] BY <1>1
  <2>2. at[sh] = "wait" /\ mem[sh].pid = q /\ mem[q].tree = mem[sh].tree
    BY <1>1, <2>1 DEF Command
  <2> QED BY <2>1, <2>2, Constants
<1>2. ASSUME at'[sh] = "wait", mem'[sh].pid # -1, NEW c, c = mem'[sh].pid
      PROVE  /\ c \in Pids \ {sh}
             /\ IF mem'[sh].tree.type = "BACK"
                THEN \A q \in Pids : Live(q)' => os'.group[q] # c
                ELSE /\ Live(c)' /\ os'.parent[c] = sh
                     /\ \/ at'[c] = "child" /\ mem'[c].tree = mem'[sh].tree
                        \/ os'.group[c] = c
  <2>1. at[sh] = "wait" /\ mem'[sh] = mem[sh] BY <1>2, Constants
  <2>2. c \in Pids \ {sh} /\ c = mem[sh].pid BY <1>2, <2>1 DEF Command
  <2>3. CASE mem[sh].tree.type = "BACK" BY <1>2, <2>1, <2>2, <2>3 DEF Command
  <2>4. CASE mem[sh].tree.type # "BACK"
    <3>1. /\ Live(c) /\ os.parent[c] = sh
          /\ \/ at[c] = "child" /\ mem[c].tree = mem[sh].tree
             \/ os.group[c] = c
      BY <1>2, <2>1, <2>2, <2>4 DEF Command
    <3>2. os.group[sh] = sh BY <2>1, Constants DEF Family, Prompting
    <3>3. os'.state[c] = os.state[c]
      <4> SUFFICES ASSUME os'.state[c] # os.state[c] PROVE FALSE
        OBVIOUS
      <4>1. Zombie(os, c) /\ os.group[c] = sh BY <2>1, <2>2, <3>1, <3>2
      <4>2. at[c] = "gone" BY <2>2, <4>1 DEF Typed, Zombie, Running
      <4> QED BY <2>2, <3>1, <4>1, <4>2
    <3>4. at[c] = "child" => at'[c] = "child" /\ mem'[c] = mem[c] BY <2>2
    <3> QED BY <2>1, <2>2, <2>4, <3>1, <3>3, <3>4 DEF Live
  <2> QED BY <2>3, <2>4
<1> QED BY <1>1, <1>2 DEF Command

(* The shell's command when another process is made.                       *)
LEMMA CommandMakes ==
  ASSUME Typed, Family, Command, NEW p \in Pids, NEW c \in Pids,
         at[p] \in {"exec", "left_forked"}, NEW parent \in Forked,
         NEW child \in {"left", "right"}, NEW var,
         Begets(p, c, parent, child, var)
  PROVE  Command'
<1>1. /\ c # p /\ Running(os, p) /\ ~Live(c) /\ Live(p)
      /\ \A q \in Pids : Live(q) => os.group[q] # c
      /\ \A q \in Pids \ {c} : os'.state[q] = os.state[q] /\ os'.parent[q] = os.parent[q]
                                /\ os'.group[q] = os.group[q]
      /\ os'.state[c] = "run" /\ os'.group[c] = os.group[p]
      /\ \A q \in Pids \ {p, c} : at'[q] = at[q] /\ mem'[q] = mem[q]
      /\ at'[p] = parent /\ at'[c] = child
  BY DEF Begets, Live, Running, Typed, IsSystem, Apart
<1>2. parent \notin {"child", "wait"} /\ child \notin {"child", "wait"} BY DEF Forked
<1>3. ASSUME NEW q \in Pids, at'[q] \in {"child", "wait"}
      PROVE  at'[q] = at[q] /\ mem'[q] = mem[q] /\ q \notin {p, c}
  BY <1>1, <1>2, <1>3
<1>4. ASSUME NEW q \in Pids, at[q] \in {"child", "wait"}, q # p
      PROVE  at'[q] = at[q] /\ mem'[q] = mem[q]
  <2>1. q # c BY <1>1, <1>4 DEF Typed, Live, Running
  <2> QED BY <1>1, <1>4, <2>1
<1>5. ASSUME NEW q \in Pids, at'[q] = "child", mem'[q].tree.type # "BACK"
      PROVE  at'[sh] = "wait" /\ mem'[sh].pid = q /\ mem'[q].tree = mem'[sh].tree
  <2>1. at[q] = "child" /\ mem'[q] = mem[q] BY <1>3, <1>5
  <2>2. at[sh] = "wait" /\ mem[sh].pid = q /\ mem[q].tree = mem[sh].tree
    BY <1>5, <2>1 DEF Command
  <2> QED BY <1>4, <2>1, <2>2, Constants
<1>6. ASSUME at'[sh] = "wait", mem'[sh].pid # -1, NEW d, d = mem'[sh].pid
      PROVE  /\ d \in Pids \ {sh}
             /\ IF mem'[sh].tree.type = "BACK"
                THEN \A q \in Pids : Live(q)' => os'.group[q] # d
                ELSE /\ Live(d)' /\ os'.parent[d] = sh
                     /\ \/ at'[d] = "child" /\ mem'[d].tree = mem'[sh].tree
                        \/ os'.group[d] = d
  <2>1. at[sh] = "wait" /\ mem'[sh] = mem[sh] BY <1>3, <1>6, Constants
  <2>2. d \in Pids \ {sh} /\ d = mem[sh].pid BY <1>6, <2>1 DEF Command
  <2>3. CASE mem[sh].tree.type = "BACK"
    <3>1. \A q \in Pids : Live(q) => os.group[q] # d BY <1>6, <2>1, <2>2, <2>3 DEF Command
    <3> QED BY <1>1, <2>1, <2>2, <2>3, <3>1 DEF Live
  <2>4. CASE mem[sh].tree.type # "BACK"
    <3>1. /\ Live(d) /\ os.parent[d] = sh
          /\ \/ at[d] = "child" /\ mem[d].tree = mem[sh].tree
             \/ os.group[d] = d
      BY <1>6, <2>1, <2>2, <2>4 DEF Command
    <3>2. d # c BY <1>1, <3>1
    <3>3. at[d] = "child" => at'[d] = "child" /\ mem'[d] = mem[d] BY <1>4, <2>2
    <3> QED BY <1>1, <2>1, <2>2, <2>4, <3>1, <3>2, <3>3 DEF Live
  <2> QED BY <2>3, <2>4
<1> QED BY <1>5, <1>6 DEF Command

(* The shell's command when it is forked.                                  *)
LEMMA CommandFork ==
  ASSUME Typed, Family, Command, NEW p \in Pids, RunCmdFork(p)
  PROVE  Command'
<1>1. at[p] = "fork" /\ Outcome(p, os.open[p], "wait", "child", "pid") BY RunCmdForkIs
<1>2. p = sh /\ os.group[sh] = sh BY <1>1 DEF Family, Prompting
<1>3. \A q \in Pids : at[q] = "child" => mem[q].tree.type = "BACK"
  BY <1>1, <1>2 DEF Command
<1>4. ASSUME NEW c \in Pids, Begets(p, c, "wait", "child", "pid")
      PROVE  Command'
  <2>1. /\ c # p /\ ~Live(c) /\ Live(p)
        /\ \A q \in Pids : Live(q) => os.group[q] # c
        /\ \A q \in Pids \ {c} : os'.state[q] = os.state[q] /\ os'.group[q] = os.group[q]
        /\ os'.state[c] = "run" /\ os'.group[c] = os.group[p] /\ os'.parent[c] = p
        /\ \A q \in Pids \ {p, c} : at'[q] = at[q] /\ mem'[q] = mem[q]
        /\ at'[p] = "wait" /\ at'[c] = "child" /\ mem'[p].pid = c /\ mem'[c] = mem[p]
    BY <1>4 DEF Begets, Live, Running, Typed, IsSystem, Apart
  <2>2. mem'[p].tree = mem[p].tree BY <1>4, FieldsAre DEF Begets, Keeps
  <2>3. \A q \in Pids : at'[q] = "child" => q = c \/ (at[q] = "child" /\ mem'[q] = mem[q])
    BY <2>1
  <2>4. \A q \in Pids : Live(q)' => os'.group[q] # c BY <1>2, <2>1 DEF Live
  <2>5. c # sh /\ Live(c)' /\ os'.parent[c] = sh BY <1>2, <2>1 DEF Live
  <2> QED BY <1>2, <1>3, <2>1, <2>2, <2>3, <2>4, <2>5 DEF Command
<1>5. CASE /\ Apart({p}) /\ at'[p] = "wait" /\ mem'[p].pid = -1
  <2>1. \A q \in Pids : at'[q] = "child" => at[q] = "child" /\ mem'[q] = mem[q]
    BY <1>5 DEF Apart
  <2> QED BY <1>2, <1>3, <1>5, <2>1 DEF Command
<1> QED BY <1>1, <1>4, <1>5 DEF Outcome

(* The shell's command when the wait for it is over.                       *)
LEMMA CommandWait ==
  ASSUME Typed, Family, Command, NEW p \in Pids, RunCmdWait(p)
  PROVE  Command'
<1>1. /\ at[p] = "wait" /\ at'[p] = "prompt" /\ Apart({p})
      /\ \/ \E z : z \in Done(os, p, mem[p].pid)
         \/ Awaited(os, p, mem[p].pid) = {} \/ mem[p].tree.type = "BACK"
  BY RunCmdWaitIs DEF Takes
<1>2. p = sh BY <1>1 DEF Family, Prompting
<1>3. ASSUME NEW q \in Pids, at'[q] = "child", mem'[q].tree.type # "BACK"
      PROVE  FALSE
  <2>1. at[q] = "child" /\ mem'[q] = mem[q] BY <1>1, <1>3 DEF Apart
  <2>2. mem[p].pid = q /\ mem[p].tree.type # "BACK" BY <1>2, <1>3, <2>1 DEF Command
  <2>3. Live(q) /\ os.parent[q] = p /\ q \in Pids
    BY <1>1, <1>2, <2>2, Constants DEF Command
  <2>4. ~Zombie(os, q) BY <2>1 DEF Typed, Zombie, Running
  <2> QED BY <1>1, <2>2, <2>3, <2>4, ChildrenWaited
<1> QED BY <1>1, <1>2, <1>3 DEF Command

(* The shell's command when it enters its group.                           *)
LEMMA CommandRegroups ==
  ASSUME Typed, Family, Command, NEW p \in Pids, Regroups(p)
  PROVE  Command'
<1>1. /\ at[p] = "child" /\ at'[p] = "exec" /\ mem' = mem
      /\ \A q \in Pids \ {p} : at'[q] = at[q] /\ os'.group[q] = os.group[q]
      /\ os'.state = os.state /\ os'.parent = os.parent
      /\ os'.group[p] = IF mem[p].tree.type # "BACK" THEN p ELSE os.group[p]
  BY DEF Regroups, Apart, Typed, IsSystem
<1>2. p # sh BY <1>1 DEF Family
<1>3. ASSUME NEW q \in Pids, at'[q] = "child", mem'[q].tree.type # "BACK"
      PROVE  at'[sh] = "wait" /\ mem'[sh].pid = q /\ mem'[q].tree = mem'[sh].tree
  <2>1. at[q] = "child" BY <1>1, <1>3
  <2> QED BY <1>1, <1>2, <1>3, <2>1, Constants DEF Command
<1>4. ASSUME at'[sh] = "wait", mem'[sh].pid # -1, NEW c, c = mem'[sh].pid
      PROVE  /\ c \in Pids \ {sh}
             /\ IF mem'[sh].tree.type = "BACK"
                THEN \A q \in Pids : Live(q)' => os'.group[q] # c
                ELSE /\ Live(c)' /\ os'.parent[c] = sh
                     /\ \/ at'[c] = "child" /\ mem'[c].tree = mem'[sh].tree
                        \/ os'.group[c] = c
  <2>1. at[sh] = "wait" BY <1>1, <1>2, <1>4, Constants
  <2>2. c \in Pids \ {sh} /\ c = mem[sh].pid BY <1>1, <1>4, <2>1 DEF Command
  <2>3. CASE mem[sh].tree.type = "BACK"
    <3>1. \A q \in Pids : Live(q) => os.group[q] # c
      BY <1>1, <1>4, <2>1, <2>2, <2>3 DEF Command
    <3>2. mem[p].tree.type = "BACK" BY <1>1, <2>3 DEF Command
    <3>3. \A q \in Pids : os'.group[q] = os.group[q] BY <1>1, <3>2
    <3> QED BY <1>1, <2>2, <2>3, <3>1, <3>3 DEF Live
  <2>4. CASE mem[sh].tree.type # "BACK"
    <3>1. /\ Live(c) /\ os.parent[c] = sh
          /\ \/ at[c] = "child" /\ mem[c].tree = mem[sh].tree
             \/ os.group[c] = c
      BY <1>1, <1>4, <2>1, <2>2, <2>4 DEF Command
    <3>2. c = p => os'.group[c] = c BY <1>1, <2>4, <3>1
    <3> QED BY <1>1, <2>2, <2>4, <3>1, <3>2 DEF Live
  <2> QED BY <2>3, <2>4
<1> QED BY <1>3, <1>4 DEF Command

(* Every step keeps what is known of the shell's command.                  *)
LEMMA CommandStep ==
  ASSUME Typed, Family, Command, NEW p \in Pids, Step(p) \/ sigchld_handler(p)
  PROVE  Command'
<1> DEFINE Quiet ==
             /\ at[p] \in {"prompt", "exec", "left_forked", "right_forked", "left", "right",
                           "wait_left", "prog"}
             /\ at'[p] \notin {"child", "wait"} /\ Apart({p})
             /\ Still \/ \E z : Takes(p, {z})
<1>1. CASE Quiet
  <2>1. \A q \in Pids : at'[q] \in {"child", "wait"} => at'[q] = at[q] /\ mem'[q] = mem[q]
    BY <1>1 DEF Apart
  <2>2. /\ at[sh] = "wait" => at'[sh] = "wait" /\ p # sh
        /\ \A q \in Pids : at[q] = "child" => at'[q] = "child"
    BY <1>1, Constants DEF Apart
  <2>3. /\ os'.parent = os.parent /\ os'.group = os.group
        /\ \A q \in Pids : os'.state[q] = os.state[q] \/ (Zombie(os, q) /\ os.parent[q] = p)
        /\ \A q \in Pids : Live(q)' => Live(q)
    BY <1>1 DEF Still, Takes, Live, Zombie
  <2> QED BY <2>1, <2>2, <2>3, CommandSame
<1>2. CASE ReadLine(p)
  <2>1. CASE Ends(p, Exited(0)) BY <1>2, <2>1, ReadLineIs, CommandEnds DEF Enders
  <2> QED BY <1>1, <1>2, <2>1, ReadLineIs DEF Local
<1>3. CASE RunCmdFork(p) BY <1>3, CommandFork
<1>4. CASE RunCmdChild(p) BY <1>4, RunCmdChildIs, CommandRegroups DEF Regroups
<1>5. CASE RunCmdWait(p) BY <1>5, CommandWait
<1>6. CASE ExecCommand(p)
  <2>1. CASE Ends(p, Exited(EXIT_FAILURE)) BY <1>6, <2>1, ExecCommandIs, CommandEnds DEF Enders
  <2> QED BY <1>1, <1>6, <2>1, ExecCommandIs
<1>7. CASE ExecPipe(p)
  <2>1. /\ at[p] = "exec"
        /\ \/ Ends(p, Exited(EXIT_FAILURE))
           \/ \E k : Outcome(p, os.open[p] \cup {R(k), W(k)}, "left_forked", "left", "pid_l")
    BY <1>7, ExecPipeIs
  <2>2. CASE \E c \in Pids : Begets(p, c, "left_forked", "left", "pid_l")
    BY <2>1, <2>2, CommandMakes DEF Forked
  <2>3. CASE Ends(p, Exited(EXIT_FAILURE)) BY <2>1, <2>3, CommandEnds DEF Enders
  <2> QED BY <1>1, <2>1, <2>2, <2>3 DEF Outcome
<1>8. CASE ForkRight(p)
  <2>1. /\ at[p] = "left_forked"
        /\ \/ Ends(p, Exited(EXIT_FAILURE))
           \/ Outcome(p, os.open[p], "right_forked", "right", "pid_r")
    BY <1>8, ForkRightIs
  <2>2. CASE \E c \in Pids : Begets(p, c, "right_forked", "right", "pid_r")
    BY <2>1, <2>2, CommandMakes DEF Forked
  <2>3. CASE Ends(p, Exited(EXIT_FAILURE)) BY <2>1, <2>3, CommandEnds DEF Enders
  <2> QED BY <1>1, <2>1, <2>2, <2>3 DEF Outcome
<1>9. CASE ClosePipe(p)
  <2>1. CASE Ends(p, Exited(EXIT_FAILURE)) BY <1>9, <2>1, ClosePipeIs, CommandEnds DEF Enders
  <2> QED BY <1>1, <1>9, <2>1, ClosePipeIs
<1>10. CASE LeftChild(p) BY <1>1, <1>10, LeftChildIs
<1>11. CASE RightChild(p) BY <1>1, <1>11, RightChildIs
<1>12. CASE WaitLeft(p) BY <1>1, <1>12, WaitLeftIs DEF Takes
<1>13. CASE WaitRight(p) BY <1>13, WaitRightIs, CommandEnds DEF Enders
<1>14. CASE ProgramRead(p) \/ ProgramWrite(p) \/ ProgramExit(p)
  <2>1. CASE \E word : Ends(p, word) BY <1>14, <2>1, ProgramIs, CommandEnds DEF Enders
  <2> QED BY <1>1, <1>14, <2>1, ProgramIs DEF Local
<1>15. CASE sigchld_handler(p)
  <2>1. /\ at' = at /\ mem' = mem
        /\ \E Z \in SUBSET InGroup(os, p) : Takes(p, Z)
    BY <1>15, HandlerIs
  <2>2. \A z \in InGroup(os, p) : os.group[z] = os.group[p] BY DEF InGroup
  <2>3. /\ os'.parent = os.parent /\ os'.group = os.group
        /\ \A q \in Pids : \/ os'.state[q] = os.state[q]
                           \/ Zombie(os, q) /\ os.parent[q] = p /\ os.group[q] = os.group[p]
        /\ \A q \in Pids : Live(q)' => Live(q)
    BY <2>1, <2>2 DEF Takes, Live, Zombie
  <2> QED BY <2>1, <2>3, CommandSame
<1> QED
  BY <1>2, <1>3, <1>4, <1>5, <1>6, <1>7, <1>8, <1>9, <1>10, <1>11, <1>12, <1>13, <1>14, <1>15
  DEF Step

(* The foreground command is taken by the shell's wait alone. *)
LEMMA ForegroundStep ==
  ASSUME Typed, Family, Command, NEW p \in Pids, Step(p) \/ sigchld_handler(p),
         at[sh] = "wait", mem[sh].tree.type # "BACK", mem[sh].pid # -1
  PROVE  IF at'[sh] = "prompt"
         THEN /\ Zombie(os, mem[sh].pid)
              /\ mem'[sh].status = StatusInfo(mem[sh].tree, os.status[mem[sh].pid])
         ELSE Zombie(os, mem[sh].pid) => Zombie(os', mem[sh].pid)
<1> DEFINE c == mem[sh].pid
<1>1. /\ c \in Pids \ {sh} /\ Live(c) /\ os.parent[c] = sh
      /\ at[c] = "child" \/ os.group[c] = c
  BY DEF Command
<1>2. os.group[sh] = sh BY Constants DEF Family, Prompting
<1>3. Zombie(os, c) => at[c] = "gone" /\ ~Running(os, c)
  BY <1>1 DEF Typed, Zombie, Running
<1> HIDE DEF c
<1>4. CASE p = sh /\ RunCmdWait(p)
  <2>1. /\ at'[p] = "prompt"
        /\ \/ \E z \in Done(os, p, c) : mem'[p].status = StatusInfo(mem[p].tree, os.status[z])
           \/ Awaited(os, p, c) = {}
    BY <1>4, RunCmdWaitIs DEF c
  <2>2. Zombie(os, c) /\ mem'[p].status = StatusInfo(mem[p].tree, os.status[c])
    BY <1>1, <1>4, <2>1, ChildrenWaited
  <2> QED BY <1>4, <2>1, <2>2 DEF c
<1>5. CASE p = sh /\ sigchld_handler(p)
  <2>1. /\ at' = at
        /\ \E Z \in SUBSET InGroup(os, p) : Takes(p, Z)
    BY <1>5, HandlerIs
  <2>2. Zombie(os, c) => c \notin InGroup(os, p) BY <1>1, <1>2, <1>3, <1>5 DEF InGroup
  <2>3. Zombie(os, c) => Zombie(os', c) BY <1>1, <2>1, <2>2 DEF Takes, Zombie
  <2> QED BY <2>1, <2>3 DEF c
<1>6. p = sh => RunCmdWait(p) \/ sigchld_handler(p)
  BY DEF Step, ReadLine, RunCmdFork, RunCmdChild, ExecCommand, ExecPipe, ForkRight, ClosePipe,
         LeftChild, RightChild, WaitLeft, WaitRight, ProgramRead, ProgramWrite, ProgramExit
<1>7. CASE p # sh
  <2>1. TreeStep(p) BY TreeStepIs
  <2>2. at'[sh] = at[sh]
    <3>1. \A d \in Pids : Makes(p, d) => at'[sh] = at[sh]
      <4> SUFFICES ASSUME NEW d \in Pids, Makes(p, d) PROVE at'[sh] = at[sh]
        OBVIOUS
      <4>1. Apart({p, d}) /\ ~Live(d) BY DEF Makes, Begets
      <4>2. sh # d BY <4>1, Constants DEF Typed, Live, Running
      <4> QED BY <1>7, <4>1, <4>2, Constants DEF Apart
    <3> QED BY <1>7, <2>1, <3>1, Constants DEF TreeStep, Ends, Takes, Regroups, Apart
  <2>3. Zombie(os, c) => Zombie(os', c)
    <3> SUFFICES ASSUME Zombie(os, c) PROVE os'.state[c] = os.state[c]
      BY DEF Zombie
    <3>1. CASE \E word : Ends(p, word) BY <1>1, <1>3, <1>7, <3>1 DEF Ends
    <3>2. CASE \E d \in Pids : Makes(p, d)
      <4>1. PICK d \in Pids : ~Live(d) /\ os'.state = [os.state EXCEPT ![d] = "run"]
        BY <3>2 DEF Makes, Begets
      <4> QED BY <1>1, <4>1 DEF Typed, IsSystem
    <3>3. CASE \E Z \in SUBSET Pids : Takes(p, Z) BY <1>1, <1>7, <3>3 DEF Takes
    <3> QED BY <2>1, <3>1, <3>2, <3>3 DEF TreeStep, Still, Regroups
  <2> QED BY <2>2, <2>3 DEF c
<1> QED BY <1>4, <1>5, <1>6, <1>7
-----------------------------------------------------------------------------
(* Who waits for whom *)

(* exec.c:204-211 leaves the left process to itself when the fork of the   *)
(* right one fails.  It does no harm in the leader of a group, which then  *)
(* ends with an error; in a process to the right of it, the leader never   *)
(* knows.  This is the step in which it does not happen.                   *)
RightForks ==
    \A p \in Pids :
        /\ at[p] = "left_forked" /\ at'[p] = "right_forked"
        /\ os.group[p] \notin {p, sh}
        => mem'[p].pid_r # -1

(* why a process ends *)
Ended(p, word) ==
    /\ at[p] \in Enders /\ Ends(p, word)
    /\ at[p] = "left_forked" => mem[p].pid_l = -1
    /\ at[p] = "right_forked" => mem[p].pid_r = -1
    /\ at[p] = "wait_right" => WaitReturns(os, p, mem[p].pid_r)
    /\ at[p] \notin {"prompt", "wait_right", "prog"} => word = Exited(EXIT_FAILURE)

(* A child for which a wait returns does not run.                          *)
LEMMA WaitReturnsIs ==
  ASSUME Typed, NEW p \in Pids, NEW c \in Pids, WaitReturns(os, p, c), os.parent[c] = p
  PROVE  ~Running(os, c)
  BY Constants DEF WaitReturns, Done, Awaited, Children, AnyChild, Zombie, Running

(* A process that ends attends nobody who runs, unless it leads the group. *)
LEMMA EndedAttends ==
  ASSUME Typed, Attended, NEW p \in Pids, NEW word, Ended(p, word), NEW q \in Pids,
         Running(os, q), os.parent[q] = p, Attends(p, q)
  PROVE  at[p] = "right_forked" /\ os.group[p] \in {p, sh}
<1>1. at[p] \in {"left_forked", "right_forked", "wait_right"}
  BY DEF Attends, Ended, Enders, Forked
<1>2. at[p] # "left_forked" BY Constants DEF Ended, Attends, Forked
<1>3. at[p] # "wait_right"
  <2> SUFFICES ASSUME at[p] = "wait_right" PROVE FALSE
    OBVIOUS
  <2>1. mem[p].pid_r = q BY DEF Attends, Forked
  <2> QED BY <2>1, WaitReturnsIs DEF Ended
<1> QED BY <1>1, <1>2, <1>3 DEF Attended, Ended

(* At first nobody waits, and no command has ended.                        *)
LEMMA InitAttended ==
  ASSUME Init
  PROVE  Attended /\ Over
<1>1. /\ at = [q \in Pids |-> IF q = 1 THEN "prompt" ELSE "gone"]
      /\ mem[sh].pid = 0
      /\ \A q \in Pids : Running(os, q) => q = sh
  BY Constants, FieldsAre DEF Init, Boot, Booted, Running
<1>2. \A q \in Pids : Running(os, q) => os.group[q] = q
  BY Constants DEF Init, Boot, Booted
<1>3. Attended BY <1>1, <1>2 DEF Attended
<1>4. Over BY <1>1, Constants DEF Over, SuccessMeansOver
<1> QED BY <1>3, <1>4

(* Everybody is still waited for when a process ends with its children done. *)
LEMMA AttendedEnds ==
  ASSUME Typed, Family, Attended, NEW p \in Pids, NEW word, Ended(p, word)
  PROVE  Attended'
<1>1. /\ Ends(p, word) /\ at'[p] = "gone" /\ os'.group = os.group
      /\ \A q \in Pids \ {p} : at'[q] = at[q] /\ mem'[q] = mem[q]
                                /\ (Running(os', q) <=> Running(os, q))
      /\ ~Running(os', p)
  BY DEF Ended, Ends, Apart, Running, Zombie
<1>2. ASSUME NEW q \in Pids, Running(os', q), Running(os', os'.group[q]), os'.group[q] \notin {q, sh}
      PROVE  Attends(os.parent[q], q)'
  <2>1. q # p /\ os.group[q] # p /\ os.group[q] \in Pids BY <1>1, <1>2 DEF Typed, IsSystem
  <2>2. Running(os, q) /\ Running(os, os.group[q]) /\ os.group[q] \notin {q, sh}
    BY <1>1, <1>2, <2>1
  <2>3. Attends(os.parent[q], q) BY <2>2 DEF Attended
  <2>4. os.parent[q] # p
    <3> SUFFICES ASSUME os.parent[q] = p PROVE FALSE
      OBVIOUS
    <3>1. os.group[p] \in {p, sh} BY <2>2, <2>3, EndedAttends
    <3>2. os.group[p] = os.group[q] BY <2>3 DEF Attends
    <3> QED BY <2>1, <2>2, <3>1, <3>2
  <2>5. os'.parent[q] = os.parent[q] BY <1>1, <2>1, <2>4 DEF Ends
  <2> QED BY <1>1, <2>3, <2>4, <2>5 DEF Attends
<1>3. \A q \in Pids : at'[q] = "right_forked" => q # p BY <1>1
<1> QED BY <1>1, <1>2, <1>3 DEF Attended

(* p goes on and keeps attending the children that run. *)
LEMMA AttendedSame ==
  ASSUME Typed, Family, Attended, NEW p \in Pids, Apart({p}),
         os'.parent = os.parent, os'.group = os.group,
         \A q \in Pids : Running(os', q) <=> Running(os, q),
         \A q \in Pids : Running(os, q) /\ os.parent[q] = p /\ Attends(p, q) => Attends(p, q)',
         at'[p] = "right_forked" /\ mem'[p].pid_r = -1 => os.group[p] \in {p, sh}
  PROVE  Attended'
<1>1. \A q \in Pids \ {p} : at'[q] = at[q] /\ mem'[q] = mem[q] BY DEF Apart
<1>2. ASSUME NEW q \in Pids, Running(os', q), Running(os', os'.group[q]), os'.group[q] \notin {q, sh}
      PROVE  Attends(os.parent[q], q)'
  <2>1. os.group[q] \in Pids BY DEF Typed, IsSystem
  <2>2. Running(os, q) /\ Running(os, os.group[q]) /\ os.group[q] \notin {q, sh}
    BY <1>2, <2>1
  <2>3. Attends(os.parent[q], q) BY <2>2 DEF Attended
  <2>4. CASE os.parent[q] = p BY <2>2, <2>3, <2>4
  <2>5. CASE os.parent[q] # p BY <1>1, <2>3, <2>5 DEF Attends
  <2> QED BY <2>4, <2>5
<1>3. ASSUME NEW q \in Pids, at'[q] = "right_forked", mem'[q].pid_r = -1
      PROVE  os'.group[q] \in {q, sh}
  BY <1>1, <1>3 DEF Attended
<1> QED BY <1>2, <1>3 DEF Attended

(* A process that is made is waited for by its maker.                      *)
LEMMA AttendedMakes ==
  ASSUME Typed, Family, Attended, NEW p \in Pids, NEW c \in Pids, Makes(p, c)
  PROVE  Attended'
<1>1. /\ c # p /\ Running(os, p) /\ ~Live(c) /\ Live(p)
      /\ \A q \in Pids : Live(q) => os.group[q] # c
      /\ \A q \in Pids \ {c} : os'.state[q] = os.state[q] /\ os'.parent[q] = os.parent[q]
                                /\ os'.group[q] = os.group[q]
      /\ os'.state[c] = "run" /\ os'.group[c] = os.group[p] /\ os'.parent[c] = p
      /\ \A q \in Pids \ {p, c} : at'[q] = at[q] /\ mem'[q] = mem[q]
      /\ at'[c] \in {"child", "left", "right"}
  BY DEF Makes, Begets, Live, Running, Typed, IsSystem, Apart
<1>2. \/ at[p] = "fork" /\ at'[p] = "wait"
      \/ at[p] = "exec" /\ at'[p] = "left_forked" /\ mem'[p].pid_l = c
      \/ /\ at[p] = "left_forked" /\ at'[p] = "right_forked" /\ mem'[p].pid_r = c
         /\ mem'[p].pid_l = mem[p].pid_l
  BY FieldsAre DEF Makes, Begets, Keeps
<1>3. ASSUME NEW q \in Pids, Running(os', q), Running(os', os'.group[q]), os'.group[q] \notin {q, sh}
      PROVE  Attends(os.parent[q], q)'
  <2>1. CASE q = c
    <3>1. at[p] # "fork" BY <1>1, <1>3, <2>1 DEF Family, Prompting
    <3>2. Running(os', p) /\ os'.group[p] = os'.group[c] BY <1>1 DEF Running
    <3> QED BY <1>1, <1>2, <2>1, <3>1, <3>2 DEF Attends, Forked
  <2>2. CASE q # c
    <3>1. Running(os, q) /\ Live(q) BY <1>1, <1>3, <2>2 DEF Running, Live
    <3>2. os.group[q] \in Pids \ {c} BY <1>1, <3>1 DEF Typed, IsSystem
    <3>3. Running(os, os.group[q]) /\ os.group[q] \notin {q, sh}
      BY <1>1, <1>3, <2>2, <3>2 DEF Running
    <3>4. Attends(os.parent[q], q) BY <3>1, <3>3 DEF Attended
    <3>5. os.parent[q] \in Pids \ {c} /\ Running(os', os.parent[q])
      BY <1>1, <3>4 DEF Attends, Live, Running
    <3>6. CASE os.parent[q] = p
      <4>1. at[p] = "left_forked" /\ mem[p].pid_l = q BY <1>2, <3>4, <3>6 DEF Attends, Forked
      <4> QED BY <1>1, <1>2, <2>2, <3>4, <3>5, <3>6, <4>1 DEF Attends, Forked
    <3>7. CASE os.parent[q] # p BY <1>1, <2>2, <3>4, <3>5, <3>7 DEF Attends
    <3> QED BY <3>6, <3>7
  <2> QED BY <2>1, <2>2
<1>4. ASSUME NEW q \in Pids, at'[q] = "right_forked", mem'[q].pid_r = -1
      PROVE  os'.group[q] \in {q, sh}
  <2>1. q # c /\ q # p BY <1>1, <1>2, <1>4, Constants
  <2> QED BY <1>1, <1>4, <2>1 DEF Attended
<1> QED BY <1>3, <1>4 DEF Attended

(* The new leader of a group need not be waited for within it.             *)
LEMMA AttendedRegroups ==
  ASSUME Typed, Family, Attended, NEW p \in Pids, Regroups(p)
  PROVE  Attended'
<1>1. /\ at[p] = "child" /\ at'[p] = "exec" /\ mem' = mem
      /\ \A q \in Pids \ {p} : at'[q] = at[q] /\ os'.group[q] = os.group[q]
      /\ os'.state = os.state /\ os'.parent = os.parent
      /\ os'.group[p] \in {p, os.group[p]}
  BY DEF Regroups, Apart, Typed, IsSystem
<1>2. os.group[p] = sh /\ \A q \in Pids : Live(q) => os.group[q] # p
  BY <1>1 DEF Family
<1>3. ASSUME NEW q \in Pids, Running(os', q), Running(os', os'.group[q]), os'.group[q] \notin {q, sh}
      PROVE  Attends(os.parent[q], q)'
  <2>1. q # p /\ os'.group[q] = os.group[q] BY <1>1, <1>2, <1>3
  <2>2. Running(os, q) /\ Running(os, os.group[q]) /\ os.group[q] \notin {q, sh}
    BY <1>1, <1>3, <2>1 DEF Running
  <2>3. Attends(os.parent[q], q) BY <2>2 DEF Attended
  <2>4. os.parent[q] # p BY <1>1, <2>3 DEF Attends, Forked
  <2> QED BY <1>1, <2>1, <2>3, <2>4 DEF Attends, Running
<1>4. ASSUME NEW q \in Pids, at'[q] = "right_forked", mem'[q].pid_r = -1
      PROVE  os'.group[q] \in {q, sh}
  BY <1>1, <1>4 DEF Attended
<1> QED BY <1>3, <1>4 DEF Attended

(* Each end of a process, with its reason. *)
LEMMA EndedIs ==
  ASSUME Typed, NEW p \in Pids, Step(p), at'[p] = "gone"
  PROVE  \E word : Ended(p, word)
<1>1. CASE ReadLine(p) BY <1>1, ReadLineIs DEF Ended, Enders, Local
<1>2. CASE ExecCommand(p) BY <1>2, ExecCommandIs DEF Ended, Enders
<1>3. CASE ExecPipe(p)
  BY <1>3, ExecPipeIs DEF Ended, Enders, Outcome, Begets
<1>4. CASE ForkRight(p)
  BY <1>4, ForkRightIs DEF Ended, Enders, Outcome, Begets
<1>5. CASE ClosePipe(p) BY <1>5, ClosePipeIs DEF Ended, Enders
<1>6. CASE WaitRight(p) BY <1>6, WaitRightIs DEF Ended, Enders
<1>7. CASE ProgramRead(p) \/ ProgramWrite(p) \/ ProgramExit(p)
  BY <1>7, ProgramIs DEF Ended, Enders, Local
<1>8. CASE RunCmdFork(p) BY <1>8, RunCmdForkIs DEF Outcome, Begets
<1>9. CASE RunCmdChild(p) BY <1>9, RunCmdChildIs
<1>10. CASE RunCmdWait(p) BY <1>10, RunCmdWaitIs
<1>11. CASE LeftChild(p) BY <1>11, LeftChildIs
<1>12. CASE RightChild(p) BY <1>12, RightChildIs
<1>13. CASE WaitLeft(p) BY <1>13, WaitLeftIs
<1> QED
  BY <1>1, <1>2, <1>3, <1>4, <1>5, <1>6, <1>7, <1>8, <1>9, <1>10, <1>11, <1>12, <1>13
  DEF Step

(* A process that goes on keeps attending its children that run. *)
LEMMA KeepsAttending ==
  ASSUME Typed, NEW p \in Pids, Step(p) \/ sigchld_handler(p), Goes(p), Apart({p}),
         Still \/ \E Z \in SUBSET Pids : Takes(p, Z),
         NEW q \in Pids, Running(os, q), os.parent[q] = p, Attends(p, q)
  PROVE  Attends(p, q)'
<1>1. at[p] \in {"left_forked", "right_forked", "wait_left", "wait_right"}
  BY DEF Attends, Forked
<1>2. Running(os', p) /\ os'.group = os.group
  BY DEF Attends, Still, Takes, Running, Zombie
<1>3. CASE ForkRight(p)
  <2>1. at[p] = "left_forked" /\ mem[p].pid_l = q BY <1>3, ForkRightIs DEF Attends, Forked
  <2>2. at'[p] = "right_forked" /\ mem'[p].pid_l = q
    <3>1. ~Ends(p, Exited(EXIT_FAILURE)) BY <1>2, Constants DEF Ends, Running
    <3>2. Outcome(p, os.open[p], "right_forked", "right", "pid_r") BY <1>3, <3>1, ForkRightIs
    <3> QED BY <2>1, <3>2, FieldsAre DEF Outcome, Begets, Keeps
  <2> QED BY <1>2, <2>2 DEF Attends, Forked
<1>4. CASE ClosePipe(p)
  <2>1. ~Ends(p, Exited(EXIT_FAILURE)) BY <1>2, Constants DEF Ends, Running
  <2>2. at[p] = "right_forked" /\ at'[p] = "wait_left" /\ mem' = mem
    BY <1>4, <2>1, ClosePipeIs
  <2> QED BY <1>2, <2>2 DEF Attends, Forked
<1>5. CASE WaitLeft(p)
  <2>1. /\ at[p] = "wait_left" /\ at'[p] = "wait_right" /\ mem' = mem
        /\ \/ \E z : z \in Done(os, p, mem[p].pid_l)
           \/ Awaited(os, p, mem[p].pid_l) = {}
    BY <1>5, WaitLeftIs
  <2>2. mem[p].pid_l # q
    <3>1. Live(q) /\ ~Zombie(os, q) BY DEF Live, Zombie, Running
    <3> QED BY <2>1, <3>1, ChildrenWaited
  <2> QED BY <1>2, <2>1, <2>2 DEF Attends, Forked
<1>6. CASE WaitRight(p)
  <2>1. ~Ends(p, Exited(0)) BY <1>2, Constants DEF Ends, Running
  <2> QED BY <1>6, <2>1, WaitRightIs
<1>7. CASE sigchld_handler(p)
  <2>1. at' = at /\ mem' = mem BY <1>7, HandlerIs
  <2> QED BY <1>2, <2>1 DEF Attends
<1> QED
  BY <1>1, <1>3, <1>4, <1>5, <1>6, <1>7
  DEF Step, ReadLine, RunCmdFork, RunCmdChild, RunCmdWait, ExecCommand, ExecPipe, LeftChild,
      RightChild, ProgramRead, ProgramWrite, ProgramExit

(* Every step in which a right fork does not fail keeps everybody waited for. *)
LEMMA AttendedStep ==
  ASSUME Typed, Family, Attended, RightForks, NEW p \in Pids, Step(p) \/ sigchld_handler(p)
  PROVE  Attended'
<1>1. TreeStep(p) BY TreeStepIs
<1>2. CASE at[p] \in Enders /\ \E word : Ends(p, word)
  <2>1. at'[p] = "gone" /\ ~sigchld_handler(p)
    <3>1. at'[p] = "gone" BY <1>2 DEF Ends
    <3>2. at[p] # "gone" BY <1>2 DEF Enders
    <3> QED BY <3>1, <3>2, HandlerIs
  <2>2. \E word : Ended(p, word) BY <2>1, EndedIs
  <2> QED BY <2>2, AttendedEnds
<1>3. CASE \E c \in Pids : Makes(p, c) BY <1>3, AttendedMakes
<1>4. CASE Regroups(p) BY <1>4, AttendedRegroups
<1>5. CASE Goes(p) /\ Apart({p}) /\ (Still \/ \E Z \in SUBSET Pids : Takes(p, Z))
  <2>1. /\ os'.parent = os.parent /\ os'.group = os.group
        /\ \A q \in Pids : Running(os', q) <=> Running(os, q)
    BY <1>5 DEF Still, Takes, Running, Zombie
  <2>2. \A q \in Pids : Running(os, q) /\ os.parent[q] = p /\ Attends(p, q) => Attends(p, q)'
    BY <1>5, KeepsAttending
  <2>3. at'[p] = "right_forked" /\ mem'[p].pid_r = -1 => os.group[p] \in {p, sh}
    <3> SUFFICES ASSUME at'[p] = "right_forked", mem'[p].pid_r = -1
                 PROVE  os.group[p] \in {p, sh}
      OBVIOUS
    <3>1. CASE at[p] = "left_forked" BY <3>1 DEF RightForks
    <3>2. CASE sigchld_handler(p) BY <3>2, HandlerIs DEF Attended
    <3>3. CASE Step(p) /\ at[p] # "left_forked"
      <4>1. at'[p] # "right_forked"
        <5>1. CASE ReadLine(p) BY <5>1, ReadLineIs DEF Local, Ends
        <5>2. CASE RunCmdFork(p) BY <5>2, RunCmdForkIs DEF Outcome, Begets
        <5>3. CASE RunCmdChild(p) BY <5>3, RunCmdChildIs
        <5>4. CASE RunCmdWait(p) BY <5>4, RunCmdWaitIs
        <5>5. CASE ExecCommand(p) BY <5>5, ExecCommandIs DEF Ends
        <5>6. CASE ExecPipe(p) BY <5>6, ExecPipeIs DEF Outcome, Begets, Ends
        <5>7. CASE ForkRight(p) BY <3>3, <5>7, ForkRightIs
        <5>8. CASE ClosePipe(p) BY <5>8, ClosePipeIs DEF Ends
        <5>9. CASE LeftChild(p) BY <5>9, LeftChildIs
        <5>10. CASE RightChild(p) BY <5>10, RightChildIs
        <5>11. CASE WaitLeft(p) BY <5>11, WaitLeftIs
        <5>12. CASE WaitRight(p) BY <5>12, WaitRightIs DEF Ends
        <5>13. CASE ProgramRead(p) \/ ProgramWrite(p) \/ ProgramExit(p)
          BY <5>13, ProgramIs DEF Ends, Local
        <5> QED
          BY <3>3, <5>1, <5>2, <5>3, <5>4, <5>5, <5>6, <5>7, <5>8, <5>9, <5>10, <5>11, <5>12,
             <5>13 DEF Step
      <4> QED BY <4>1
    <3> QED BY <3>1, <3>2, <3>3
  <2> QED BY <1>5, <2>1, <2>2, <2>3, AttendedSame
<1> QED BY <1>1, <1>2, <1>3, <1>4, <1>5 DEF TreeStep, Takes

(* When the leader of a group runs and attends none of its children that   *)
(* run, the rest of its group has ended.                                   *)
LEMMA Alone ==
  ASSUME Typed, Family, Attended, NEW c \in Pids \ {sh}, Running(os, c), os.group[c] = c,
         \A q \in Pids : Running(os, q) /\ os.parent[q] = c => ~Attends(c, q)
  PROVE  \A q \in Pids \ {c} : Running(os, q) => os.group[q] # c
<1> DEFINE A == {q \in Pids \ {c} : Running(os, q) /\ os.group[q] = c}
<1> SUFFICES ASSUME A # {} PROVE FALSE
  OBVIOUS
<1>1. A \in SUBSET {q \in Pids : os.state[q] # "none"} BY DEF Running
<1>2. PICK q \in A : os.parent[q] \notin A BY <1>1 DEF Family, Rooted
<1>3. q \in Pids /\ Running(os, q) /\ os.group[q] = c /\ q # c BY <1>2
<1>4. Attends(os.parent[q], q) BY <1>3 DEF Attended
<1>5. os.parent[q] = c BY <1>2, <1>3, <1>4 DEF Attends
<1> QED BY <1>3, <1>4, <1>5

(* the status that the shell reports for exit(-1) *)
LEMMA FailureShows ==
  ASSUME NEW tree
  PROVE  StatusInfo(tree, Exited(EXIT_FAILURE)) # 0
<1>1. Exited(EXIT_FAILURE) = 65280 BY DEF Exited, EXIT_FAILURE
<1>2. WIFEXITED(65280) /\ WEXITSTATUS(65280) = 255 BY DEF WIFEXITED, WEXITSTATUS
<1> QED BY <1>1, <1>2 DEF StatusInfo

(* what Over says of the command for which the shell waits *)
Failed(c) == os.status[c] = Exited(EXIT_FAILURE)

(* The group is empty when its leader ends without an error.               *)
LEMMA OverEnds ==
  ASSUME Typed, Family, Command, Attended, Over, NEW p \in Pids, NEW word, Ended(p, word)
  PROVE  Over'
<1>1. /\ Ends(p, word) /\ at'[p] = "gone" /\ os'.group = os.group
      /\ \A q \in Pids \ {p} :
            /\ at'[q] = at[q] /\ mem'[q] = mem[q] /\ os'.status[q] = os.status[q]
            /\ Zombie(os', q) => Zombie(os, q)
            /\ Running(os', q) <=> Running(os, q)
      /\ ~Running(os', p) /\ os'.status[p] = word
  BY DEF Ended, Ends, Apart, Running, Zombie
<1>2. ASSUME at'[sh] = "wait", NEW c, c = mem'[sh].pid, c # -1, mem'[sh].tree.type # "BACK",
             Zombie(os', c)
      PROVE  os'.status[c] = Exited(EXIT_FAILURE) \/ \A q \in Pids : Running(os', q) => os'.group[q] # c
  <2>1. sh # p /\ at[sh] = "wait" /\ mem'[sh] = mem[sh] BY <1>1, <1>2, Constants
  <2>2. /\ c \in Pids \ {sh} /\ c = mem[sh].pid
        /\ at[c] = "child" \/ os.group[c] = c
    BY <1>2, <2>1 DEF Command
  <2>3. CASE c = p
    <3>1. at[p] \notin {"prompt", "child"} BY <2>1, Constants DEF Family, Prompting, Ended, Enders
    <3>2. CASE at[p] \in {"wait_right", "prog"}
      <4>1. os.group[p] = p BY <2>2, <2>3, <3>1
      <4>2. Running(os, p) BY <3>2 DEF Typed
      <4>3. \A q \in Pids : Running(os, q) /\ os.parent[q] = p => ~Attends(p, q)
        BY <3>2, EndedAttends
      <4>4. \A q \in Pids \ {p} : Running(os, q) => os.group[q] # p
        BY <2>2, <2>3, <4>1, <4>2, <4>3, Alone
      <4> QED BY <1>1, <2>3, <4>4
    <3>3. CASE at[p] \notin {"wait_right", "prog"} BY <1>1, <2>3, <3>1, <3>3 DEF Ended
    <3> QED BY <3>2, <3>3
  <2>4. CASE c # p
    <3>1. Zombie(os, c) BY <1>1, <1>2, <2>2, <2>4
    <3>2. os.status[c] = Exited(EXIT_FAILURE) \/ Empty(c)
      BY <1>2, <2>1, <2>2, <3>1 DEF Over
    <3> QED BY <1>1, <2>2, <2>4, <3>2 DEF Empty
  <2> QED BY <2>3, <2>4
<1>3. ASSUME at'[sh] = "prompt"
      PROVE  at[sh] = "prompt" /\ mem'[sh] = mem[sh]
  BY <1>1, <1>3, Constants
<1>4. SuccessMeansOver' BY <1>1, <1>3 DEF Over, SuccessMeansOver
<1> QED BY <1>2, <1>3, <1>4 DEF Over, Empty

(* A step that changes no status, makes no process run, and lets the shell *)
(* come neither to the prompt nor to a wait.                               *)
LEMMA OverSame ==
  ASSUME Typed, Family, Command, Over, NEW p \in Pids,
         os'.status = os.status,
         \A q \in Pids : Running(os', q) <=> Running(os, q),
         \A q \in Pids : Zombie(os', q) => Zombie(os, q),
         os'.group = os.group,
         at'[sh] = "wait" => (at[sh] = "wait" /\ mem'[sh] = mem[sh]) \/ mem'[sh].pid = -1,
         at'[sh] = "prompt" => at[sh] = "prompt" /\ mem'[sh] = mem[sh]
  PROVE  Over'
<1>1. ASSUME at'[sh] = "wait", NEW c, c = mem'[sh].pid, c # -1, mem'[sh].tree.type # "BACK",
             Zombie(os', c)
      PROVE  os'.status[c] = Exited(EXIT_FAILURE) \/ \A q \in Pids : Running(os', q) => os'.group[q] # c
  <2>1. at[sh] = "wait" /\ mem'[sh] = mem[sh] BY <1>1
  <2>2. c \in Pids \ {sh} /\ c = mem[sh].pid BY <1>1, <2>1 DEF Command
  <2>3. os.status[c] = Exited(EXIT_FAILURE) \/ Empty(c) BY <1>1, <2>1, <2>2 DEF Over
  <2> QED BY <2>3 DEF Empty
<1>2. SuccessMeansOver' BY DEF Over, SuccessMeansOver
<1> QED BY <1>1, <1>2 DEF Over, Empty

(* A process that is made is in a group whose leader runs.                 *)
LEMMA OverMakes ==
  ASSUME Typed, Family, Command, Over, NEW p \in Pids, NEW c \in Pids, Makes(p, c)
  PROVE  Over'
<1>1. /\ c # p /\ Running(os, p) /\ ~Live(c) /\ Live(p)
      /\ \A q \in Pids : Live(q) => os.group[q] # c
      /\ \A q \in Pids \ {c} : os'.state[q] = os.state[q] /\ os'.group[q] = os.group[q]
                                /\ os'.status[q] = os.status[q]
      /\ os'.state[c] = "run" /\ os'.group[c] = os.group[p]
      /\ \A q \in Pids \ {p, c} : at'[q] = at[q] /\ mem'[q] = mem[q]
      /\ at'[c] \in {"child", "left", "right"}
      /\ \/ at[p] = "fork" /\ at'[p] = "wait" /\ mem'[p].pid = c
         \/ at'[p] \in Forked
  BY DEF Makes, Begets, Live, Running, Typed, IsSystem, Apart, Forked
<1>2. ASSUME at'[sh] = "wait", NEW d, d = mem'[sh].pid, d # -1, mem'[sh].tree.type # "BACK",
             Zombie(os', d)
      PROVE  os'.status[d] = Exited(EXIT_FAILURE) \/ \A q \in Pids : Running(os', q) => os'.group[q] # d
  <2>1. d # c BY <1>1, <1>2 DEF Zombie
  <2>2. sh # c /\ sh # p BY <1>1, <1>2, <2>1 DEF Forked
  <2>3. at[sh] = "wait" /\ mem'[sh] = mem[sh] BY <1>1, <1>2, <2>2, Constants
  <2>4. d \in Pids \ {sh} /\ d = mem[sh].pid BY <1>2, <2>3 DEF Command
  <2>5. Zombie(os, d) BY <1>1, <1>2, <2>1, <2>4 DEF Zombie
  <2>6. os.status[d] = Exited(EXIT_FAILURE) \/ Empty(d) BY <1>2, <2>3, <2>4, <2>5 DEF Over
  <2> QED BY <1>1, <2>1, <2>4, <2>6 DEF Empty, Running
<1>3. ASSUME at'[sh] = "prompt"
      PROVE  sh # p /\ sh # c /\ at[sh] = "prompt" /\ mem'[sh] = mem[sh]
  BY <1>1, <1>3, Constants DEF Forked
<1>4. SuccessMeansOver'
  <2> SUFFICES ASSUME at'[sh] = "prompt", mem'[sh].status = 0, NEW q \in Pids \ {sh}, Running(os', q)
               PROVE  os'.group[q] # mem'[sh].pid
    BY DEF SuccessMeansOver
  <2>1. \A r \in Pids \ {sh} : Running(os, r) => os.group[r] # mem'[sh].pid
    BY <1>3 DEF Over, SuccessMeansOver
  <2> QED BY <1>1, <1>3, <2>1 DEF Running
<1> QED BY <1>2, <1>3, <1>4 DEF Over, Empty

(* A child that enters its own group leaves no command behind.             *)
LEMMA OverRegroups ==
  ASSUME Typed, Family, Command, Over, NEW p \in Pids, Regroups(p)
  PROVE  Over'
<1>1. /\ at[p] = "child" /\ at'[p] = "exec" /\ mem' = mem
      /\ \A q \in Pids \ {p} : at'[q] = at[q] /\ os'.group[q] = os.group[q]
      /\ os'.state = os.state /\ os'.status = os.status
      /\ os'.group[p] = IF mem[p].tree.type # "BACK" THEN p ELSE os.group[p]
  BY DEF Regroups, Apart, Typed, IsSystem
<1>2. p # sh /\ Running(os, p) BY <1>1 DEF Family, Typed
<1>3. ASSUME at'[sh] = "wait", NEW c, c = mem'[sh].pid, c # -1, mem'[sh].tree.type # "BACK",
             Zombie(os', c)
      PROVE  os'.status[c] = Exited(EXIT_FAILURE) \/ \A q \in Pids : Running(os', q) => os'.group[q] # c
  <2>1. at[sh] = "wait" /\ mem'[sh] = mem[sh] BY <1>1, <1>2, <1>3, Constants
  <2>2. c \in Pids \ {sh} /\ c = mem[sh].pid BY <1>3, <2>1 DEF Command
  <2>3. Zombie(os, c) /\ c # p BY <1>1, <1>2, <1>3 DEF Zombie, Running
  <2>4. os.status[c] = Exited(EXIT_FAILURE) \/ Empty(c) BY <1>3, <2>1, <2>2, <2>3 DEF Over
  <2> QED BY <1>1, <2>3, <2>4 DEF Empty, Running
<1>4. ASSUME at'[sh] = "prompt"
      PROVE  at[sh] = "prompt" /\ mem'[sh] = mem[sh] /\ mem[p].tree.type = "BACK"
  <2>1. at[sh] = "prompt" BY <1>1, <1>2, <1>4, Constants
  <2> QED BY <1>1, <2>1 DEF Command
<1>5. SuccessMeansOver'
  <2> SUFFICES ASSUME at'[sh] = "prompt", mem'[sh].status = 0, NEW q \in Pids \ {sh}, Running(os', q)
               PROVE  os'.group[q] # mem'[sh].pid
    BY DEF SuccessMeansOver
  <2>1. os'.group[q] = os.group[q] BY <1>1, <1>4
  <2> QED BY <1>1, <1>4, <2>1 DEF Over, SuccessMeansOver, Running
<1> QED BY <1>3, <1>4, <1>5 DEF Over, Empty

(* The shell takes the status of a command that is over.                   *)
LEMMA OverWait ==
  ASSUME Typed, Family, Command, Over, NEW p \in Pids, RunCmdWait(p)
  PROVE  Over'
<1>1. /\ at[p] = "wait" /\ at'[p] = "prompt" /\ mem'[p].pid = mem[p].pid
      /\ \/ \E z \in Done(os, p, mem[p].pid) :
              mem[p].tree.type # "BACK" => mem'[p].status = StatusInfo(mem[p].tree, os.status[z])
         \/ Awaited(os, p, mem[p].pid) = {} \/ mem[p].tree.type = "BACK"
      /\ os'.group = os.group
      /\ \A q \in Pids : Running(os', q) <=> Running(os, q)
  <2>1. /\ at[p] = "wait" /\ at'[p] = "prompt" /\ Keeps(p, {"status", "tree"})
        /\ \/ \E z \in Done(os, p, mem[p].pid) :
                /\ Takes(p, {z})
                /\ mem[p].tree.type # "BACK" =>
                     mem'[p].status = StatusInfo(mem[p].tree, os.status[z])
           \/ /\ Still
              /\ Awaited(os, p, mem[p].pid) = {} \/ mem[p].tree.type = "BACK"
    BY RunCmdWaitIs
  <2>2. mem'[p].pid = mem[p].pid BY <2>1, FieldsAre DEF Keeps
  <2>3. os'.group = os.group /\ \A q \in Pids : Running(os', q) <=> Running(os, q)
    BY <2>1 DEF Still, Takes, Running, Zombie
  <2> QED BY <2>1, <2>2, <2>3
<1>2. p = sh BY <1>1 DEF Family, Prompting
<1> DEFINE c == mem[sh].pid
<1>3. c # sh BY <1>1, <1>2, Constants DEF Command
<1>4. SuccessMeansOver'
  <2> SUFFICES ASSUME mem'[sh].status = 0, NEW q \in Pids \ {sh}, Running(os, q)
               PROVE  os.group[q] # c
    BY <1>1, <1>2 DEF SuccessMeansOver
  <2>1. CASE c = -1 BY <2>1, Constants DEF Typed, IsSystem
  <2>2. CASE c # -1 /\ mem[sh].tree.type = "BACK"
    BY <1>1, <1>2, <2>2 DEF Command, Live, Running
  <2>3. CASE c # -1 /\ mem[sh].tree.type # "BACK"
    <3>1. c \in Pids \ {sh} /\ Live(c) /\ os.parent[c] = sh
      BY <1>1, <1>2, <2>3 DEF Command
    <3> HIDE DEF c
    <3>2. Zombie(os, c) /\ StatusInfo(mem[sh].tree, os.status[c]) = 0
      BY <1>1, <1>2, <2>3, <3>1, ChildrenWaited DEF c
    <3>3. os.status[c] # Exited(EXIT_FAILURE) BY <3>2, FailureShows
    <3>4. Empty(c) BY <1>1, <1>2, <2>3, <3>2, <3>3 DEF Over, c
    <3> QED BY <3>4 DEF Empty
  <2> QED BY <2>1, <2>2, <2>3
<1> QED BY <1>1, <1>2, <1>3, <1>4 DEF Over

(* Every step keeps success and the end of the command together.           *)
LEMMA OverStep ==
  ASSUME Typed, Family, Command, Attended, Over, NEW p \in Pids, Step(p) \/ sigchld_handler(p)
  PROVE  Over'
<1>1. TreeStep(p) BY TreeStepIs
<1>2. CASE at[p] \in Enders /\ \E word : Ends(p, word)
  <2>1. at'[p] = "gone" /\ ~sigchld_handler(p)
    <3>1. at'[p] = "gone" BY <1>2 DEF Ends
    <3>2. at[p] # "gone" BY <1>2 DEF Enders
    <3> QED BY <3>1, <3>2, HandlerIs
  <2>2. \E word : Ended(p, word) BY <2>1, EndedIs
  <2> QED BY <2>2, OverEnds
<1>3. CASE \E c \in Pids : Makes(p, c) BY <1>3, OverMakes
<1>4. CASE Regroups(p) BY <1>4, OverRegroups
<1>5. CASE RunCmdWait(p) BY <1>5, OverWait
<1>6. CASE /\ Goes(p) /\ Apart({p}) /\ (Still \/ \E Z \in SUBSET Pids : Takes(p, Z))
           /\ ~RunCmdWait(p)
  <2>1. /\ os'.status = os.status /\ os'.group = os.group
        /\ \A q \in Pids : Running(os', q) <=> Running(os, q)
        /\ \A q \in Pids : Zombie(os', q) => Zombie(os, q)
    BY <1>6 DEF Still, Takes, Running, Zombie
  <2>2. /\ at'[sh] = "wait" => (at[sh] = "wait" /\ mem'[sh] = mem[sh]) \/ mem'[sh].pid = -1
        /\ at'[sh] = "prompt" => at[sh] = "prompt" /\ mem'[sh] = mem[sh]
    <3>1. CASE p # sh BY <1>6, <3>1, Constants DEF Apart
    <3>2. CASE sigchld_handler(p) BY <3>2, HandlerIs
    <3>3. CASE p = sh /\ Step(p)
      <4>1. at'[p] \in {"wait", "prompt"} => RunCmdFork(p)
        <5>1. CASE ReadLine(p) BY <5>1, ReadLineIs DEF Local, Ends
        <5>3. CASE RunCmdChild(p) BY <5>3, RunCmdChildIs
        <5>5. CASE ExecCommand(p) BY <5>5, ExecCommandIs DEF Ends
        <5>6. CASE ExecPipe(p) BY <5>6, ExecPipeIs DEF Outcome, Begets, Ends
        <5>7. CASE ForkRight(p) BY <5>7, ForkRightIs DEF Outcome, Begets, Ends
        <5>8. CASE ClosePipe(p) BY <5>8, ClosePipeIs DEF Ends
        <5>9. CASE LeftChild(p) BY <5>9, LeftChildIs
        <5>10. CASE RightChild(p) BY <5>10, RightChildIs
        <5>11. CASE WaitLeft(p) BY <5>11, WaitLeftIs
        <5>12. CASE WaitRight(p) BY <5>12, WaitRightIs DEF Ends
        <5>13. CASE ProgramRead(p) \/ ProgramWrite(p) \/ ProgramExit(p)
          BY <5>13, ProgramIs DEF Ends, Local
        <5> QED
          BY <1>6, <3>3, <5>1, <5>3, <5>5, <5>6, <5>7, <5>8, <5>9, <5>10, <5>11, <5>12, <5>13
          DEF Step
      <4>2. ASSUME RunCmdFork(p) PROVE at'[p] = "wait" /\ mem'[p].pid = -1
        <5>1. ~\E c \in Pids : Begets(p, c, "wait", "child", "pid")
          <6> SUFFICES ASSUME NEW c \in Pids, Begets(p, c, "wait", "child", "pid") PROVE FALSE
            OBVIOUS
          <6>1. os'.state[c] = "run" /\ os.state[c] # "run"
            BY DEF Begets, Live, Typed, IsSystem
          <6> QED BY <2>1, <6>1 DEF Running
        <5> QED BY <4>2, <5>1, RunCmdForkIs DEF Outcome
      <4> QED BY <3>3, <4>1, <4>2
    <3> QED BY <3>1, <3>2, <3>3
  <2> QED BY <2>1, <2>2, OverSame
<1> QED BY <1>1, <1>2, <1>3, <1>4, <1>5, <1>6 DEF TreeStep, Takes
-----------------------------------------------------------------------------
(* Descriptors *)

(* The terminal and a closed descriptor are no pipes.                      *)
LEMMA NoPipeIs ==
    Closed[1] = "closed" /\ Tty[1] = "tty"
<1>1. Closed[1] = "closed" BY Zenon DEF Closed
<1>2. Tty[1] = "tty" BY DEF Tty
<1> QED BY <1>1, <1>2

(* The shell starts on its terminal, with no pipe and no line.             *)
LEMMA InitDescriptors ==
  ASSUME Init
  PROVE  Descriptors /\ OneOwner /\ Parsed /\ InLine
<1>1. /\ \A q \in Pids : at[q] \in {"prompt", "gone"}
      /\ \A q \in Pids : os.open[q] = {} /\ \A n \in Stdin..Stderr : os.fd[q][n] \in {Tty, Closed}
  BY DEF Init, Boot, Booted
<1>2. \A x \in {Tty, Closed} : x[1] \notin {"read", "write"} BY NoPipeIs
<1>3. Descriptors BY <1>1, <1>2, Constants DEF Descriptors, Fits, Forked
<1>4. \A q \in Pids : at[q] \notin Staged BY <1>1 DEF Staged
<1>5. OneOwner /\ InLine BY <1>4 DEF OneOwner, InLine
<1>6. Parsed BY <1>1, <1>4 DEF Parsed, Carries
<1> QED BY <1>3, <1>5, <1>6

(* A redirection replaces a descriptor by a file, or errors by the output. *)
LEMMA RedirectedIs ==
  ASSUME NEW f, DOMAIN f = Stdin..Stderr, NEW c, NEW r, r = Redirected(f, c)
  PROVE  /\ r[Stdin] = f[Stdin] \/ r[Stdin][1] = "file"
         /\ r[Stdout] = f[Stdout] \/ r[Stdout][1] = "file"
         /\ r[Stderr] \in {f[Stderr], r[Stdout]} \/ r[Stderr][1] = "file"
<1>1. \A x : File(x)[1] = "file" BY DEF File
<1> DEFINE g == ToOut(f, c)
           h == FromIn(g, c)
<1>2. /\ DOMAIN g = Stdin..Stderr /\ g[Stdin] = f[Stdin] /\ g[Stderr] = f[Stderr]
      /\ g[Stdout] = f[Stdout] \/ g[Stdout][1] = "file"
  BY <1>1, Constants DEF ToOut
<1> HIDE DEF g
<1>3. /\ DOMAIN h = Stdin..Stderr /\ h[Stdout] = g[Stdout] /\ h[Stderr] = g[Stderr]
      /\ h[Stdin] = g[Stdin] \/ h[Stdin][1] = "file"
  BY <1>1, <1>2, Constants DEF FromIn
<1> DEFINE Kept == c.err_file \in {""} \cup Unopenable
<1>4. r = IF Kept THEN h
          ELSE [h EXCEPT ![Stderr] = IF c.err_file = "&1" THEN h[Stdout] ELSE File(c.err_file)]
  BY Zenon DEF Redirected, ToErr, g
<1> HIDE DEF h, Kept
<1>5. /\ r[Stdin] = h[Stdin] /\ r[Stdout] = h[Stdout]
      /\ r[Stderr] \in {h[Stderr], h[Stdout]} \/ r[Stderr][1] = "file"
  BY ONLY <1>1, <1>3, <1>4, Constants
<1> QED BY <1>2, <1>3, <1>5

(* It is enough to look at the processes that take the step.               *)
LEMMA DescriptorsOthers ==
  ASSUME Descriptors, NEW P, Apart(P),
         \A q \in Pids \cap P : Fits(at'[q], os'.fd[q], os'.open[q])
  PROVE  Descriptors'
<1>1. \A q \in Pids \ P : Fits(at'[q], os'.fd[q], os'.open[q]) BY DEF Apart, Descriptors
<1>2. \A q \in Pids : Fits(at'[q], os'.fd[q], os'.open[q]) BY <1>1
<1>3. (\A q \in Pids : Fits(at[q], os.fd[q], os.open[q]))' BY <1>2 DEF Fits
<1> QED BY <1>3 DEF Descriptors

(* A process that ends has no descriptors.                                 *)
LEMMA DescriptorsEnds ==
  ASSUME Typed, Descriptors, NEW p \in Pids, NEW word, Ends(p, word)
  PROVE  Descriptors'
<1>1. Fits(at'[p], os'.fd[p], os'.open[p])
  <2>1. \A n \in Stdin..Stderr : os'.fd[p][n] = Closed BY DEF Ends
  <2>2. at'[p] = "gone" /\ os'.open[p] = {} BY DEF Ends
  <2> QED BY <2>1, <2>2, Constants, NoPipeIs DEF Fits, Prompting, Forked
<1> QED BY <1>1, DescriptorsOthers DEF Ends

(* A child has copies of its parent's descriptors.                         *)
LEMMA DescriptorsMakes ==
  ASSUME Typed, Descriptors, NEW p \in Pids, NEW c \in Pids, NEW parent, NEW child, NEW var,
         Begets(p, c, parent, child, var),
         Fits(parent, os.fd[p], os'.open[p]), Fits(child, os.fd[p], os'.open[p])
  PROVE  Descriptors'
<1>1. Fits(at'[p], os'.fd[p], os'.open[p]) /\ Fits(at'[c], os'.fd[c], os'.open[c])
  BY DEF Begets
<1> QED BY <1>1, DescriptorsOthers DEF Begets

(* The descriptors after a fork, successful or not.                        *)
LEMMA DescriptorsOutcome ==
  ASSUME Typed, Descriptors, NEW p \in Pids, NEW ends, NEW parent, NEW child, NEW var,
         Outcome(p, ends, parent, child, var),
         Fits(parent, os.fd[p], ends), Fits(child, os.fd[p], ends)
  PROVE  Descriptors'
<1>1. CASE \E c \in Pids : Begets(p, c, parent, child, var) /\ os'.open[p] = ends
  BY <1>1, DescriptorsMakes
<1>2. CASE os'.fd[p] = os.fd[p] /\ os'.open[p] = ends /\ Apart({p}) /\ at'[p] = parent
  BY <1>2, DescriptorsOthers
<1> QED BY <1>1, <1>2 DEF Outcome

(* Every step keeps the descriptors as their labels say.                   *)
LEMMA DescriptorsStep ==
  ASSUME Typed, Descriptors, NEW p \in Pids, Step(p) \/ sigchld_handler(p)
  PROVE  Descriptors'
<1> DEFINE Own == Fits(at'[p], os'.fd[p], os'.open[p])
<1>1. Fits(at[p], os.fd[p], os.open[p]) BY DEF Descriptors
<1>2. ASSUME Apart({p}), Own PROVE Descriptors' BY <1>2, DescriptorsOthers
<1>3. ASSUME at[p] \in {"left", "right", "right_forked"}
      PROVE  \E k \in 1..NPipe : /\ os.open[p] = {R(k), W(k)}
                                 /\ os.open[p] \ {ReadEnd(p), WriteEnd(p)} = {}
                                 /\ ReadEnd(p) = R(k) /\ WriteEnd(p) = W(k)
  <2>1. PICK k \in 1..NPipe : os.open[p] = {R(k), W(k)} BY <1>1, <1>3 DEF Fits, Forked
  <2> QED BY <2>1, EndsAre
<1>4. CASE ReadLine(p)
  <2>1. CASE Ends(p, Exited(0)) BY <2>1, DescriptorsEnds
  <2> QED BY <1>1, <1>2, <1>4, <2>1, ReadLineIs DEF Local, SameFds, Fits, Prompting, Forked
<1>5. CASE RunCmdFork(p)
  <2>1. at[p] = "fork" /\ Outcome(p, os.open[p], "wait", "child", "pid") BY <1>5, RunCmdForkIs
  <2>2. Fits("wait", os.fd[p], os.open[p]) /\ Fits("child", os.fd[p], os.open[p])
    BY <1>1, <2>1 DEF Fits, Prompting, Forked
  <2> QED BY <2>1, <2>2, DescriptorsOutcome
<1>6. CASE RunCmdChild(p)
  BY <1>1, <1>2, <1>6, RunCmdChildIs DEF SameFds, Fits, Prompting, Forked
<1>7. CASE RunCmdWait(p)
  BY <1>1, <1>2, <1>7, RunCmdWaitIs DEF SameFds, Takes, Fits, Prompting, Forked
<1>8. CASE ExecCommand(p)
  <2>1. CASE Ends(p, Exited(EXIT_FAILURE)) BY <2>1, DescriptorsEnds
  <2>2. CASE ~Ends(p, Exited(EXIT_FAILURE))
    <3>1. /\ at[p] = "exec" /\ Apart({p}) /\ at'[p] = "prog" /\ os'.open[p] = os.open[p]
          /\ os'.fd[p] = Redirected(os.fd[p], Foreground(mem[p].tree))
      BY <1>8, <2>2, ExecCommandIs
    <3>2. DOMAIN os.fd[p] = Stdin..Stderr BY DEF Typed, IsSystem
    <3>3. /\ os'.fd[p][Stdin] = os.fd[p][Stdin] \/ os'.fd[p][Stdin][1] = "file"
          /\ os'.fd[p][Stdout] = os.fd[p][Stdout] \/ os'.fd[p][Stdout][1] = "file"
          /\ \/ os'.fd[p][Stderr] \in {os.fd[p][Stderr], os'.fd[p][Stdout]}
             \/ os'.fd[p][Stderr][1] = "file"
      BY <3>1, <3>2, RedirectedIs
    <3>4. Own BY <1>1, <3>1, <3>3 DEF Fits, Prompting, Forked
    <3> QED BY <1>2, <3>1, <3>4
  <2> QED BY <2>1, <2>2
<1>9. CASE ExecPipe(p)
  <2>1. CASE Ends(p, Exited(EXIT_FAILURE)) BY <2>1, DescriptorsEnds
  <2>2. CASE ~Ends(p, Exited(EXIT_FAILURE))
    <3>1. PICK k \in FreePipes(os) :
             Outcome(p, os.open[p] \cup {R(k), W(k)}, "left_forked", "left", "pid_l")
      BY <1>9, <2>2, ExecPipeIs
    <3>2. at[p] = "exec" /\ k \in 1..NPipe BY <1>9, ExecPipeIs DEF FreePipes
    <3>3. os.open[p] \cup {R(k), W(k)} = {R(k), W(k)} BY <1>1, <3>2 DEF Fits, Forked
    <3>4. /\ Fits("left_forked", os.fd[p], {R(k), W(k)})
          /\ Fits("left", os.fd[p], {R(k), W(k)})
      BY <1>1, <3>2 DEF Fits, Prompting, Forked
    <3> QED BY <3>1, <3>3, <3>4, DescriptorsOutcome
  <2> QED BY <2>1, <2>2
<1>10. CASE ForkRight(p)
  <2>1. CASE Ends(p, Exited(EXIT_FAILURE)) BY <2>1, DescriptorsEnds
  <2>2. CASE ~Ends(p, Exited(EXIT_FAILURE))
    <3>1. at[p] = "left_forked" /\ Outcome(p, os.open[p], "right_forked", "right", "pid_r")
      BY <1>10, <2>2, ForkRightIs
    <3>2. Fits("right_forked", os.fd[p], os.open[p]) /\ Fits("right", os.fd[p], os.open[p])
      BY <1>1, <3>1 DEF Fits, Prompting, Forked
    <3> QED BY <3>1, <3>2, DescriptorsOutcome
  <2> QED BY <2>1, <2>2
<1>11. CASE ClosePipe(p)
  <2>1. CASE Ends(p, Exited(EXIT_FAILURE)) BY <2>1, DescriptorsEnds
  <2>2. CASE ~Ends(p, Exited(EXIT_FAILURE))
    <3>1. /\ at[p] = "right_forked" /\ Apart({p}) /\ at'[p] = "wait_left"
          /\ os'.fd[p] = os.fd[p] /\ os'.open[p] = {}
      BY <1>3, <1>11, <2>2, ClosePipeIs
    <3> QED BY <1>1, <1>2, <3>1 DEF Fits, Prompting, Forked
  <2> QED BY <2>1, <2>2
<1>12. CASE LeftChild(p)
  <2>1. PICK k \in 1..NPipe : /\ os.open[p] \ {ReadEnd(p), WriteEnd(p)} = {}
                              /\ WriteEnd(p) = W(k)
    BY <1>3, <1>12, LeftChildIs
  <2>2. /\ at[p] = "left" /\ at'[p] = "exec" /\ Apart({p}) /\ os'.open[p] = {}
        /\ os'.fd[p] = [os.fd[p] EXCEPT ![Stdout] = W(k)]
    BY <1>12, <2>1, LeftChildIs
  <2>3. /\ os'.fd[p][Stdin] = os.fd[p][Stdin] /\ os'.fd[p][Stderr] = os.fd[p][Stderr]
        /\ os'.fd[p][Stdout] = W(k) /\ W(k)[1] = "write"
    <3>1. DOMAIN os.fd[p] = {Stdin, Stdout, Stderr} BY Constants DEF Typed, IsSystem
    <3> QED BY <2>2, <3>1, Constants DEF W
  <2>4. Own BY <1>1, <2>2, <2>3 DEF Fits, Prompting, Forked
  <2> QED BY <1>2, <2>2, <2>4
<1>13. CASE RightChild(p)
  <2>1. PICK k \in 1..NPipe : /\ os.open[p] \ {ReadEnd(p), WriteEnd(p)} = {}
                              /\ ReadEnd(p) = R(k)
    BY <1>3, <1>13, RightChildIs
  <2>2. /\ at[p] = "right" /\ at'[p] = "exec" /\ Apart({p}) /\ os'.open[p] = {}
        /\ os'.fd[p] = [os.fd[p] EXCEPT ![Stdin] = R(k)]
    BY <1>13, <2>1, RightChildIs
  <2>3. /\ os'.fd[p][Stdout] = os.fd[p][Stdout] /\ os'.fd[p][Stderr] = os.fd[p][Stderr]
        /\ os'.fd[p][Stdin] = R(k) /\ R(k)[1] = "read"
    <3>1. DOMAIN os.fd[p] = {Stdin, Stdout, Stderr} BY Constants DEF Typed, IsSystem
    <3> QED BY <2>2, <3>1, Constants DEF R
  <2>4. Own BY <1>1, <2>2, <2>3 DEF Fits, Prompting, Forked
  <2> QED BY <1>2, <2>2, <2>4
<1>14. CASE WaitLeft(p)
  BY <1>1, <1>2, <1>14, WaitLeftIs DEF SameFds, Takes, Fits, Prompting, Forked
<1>15. CASE WaitRight(p) BY <1>15, WaitRightIs, DescriptorsEnds
<1>16. CASE ProgramRead(p) \/ ProgramWrite(p) \/ ProgramExit(p)
  <2>1. CASE \E word : Ends(p, word) BY <2>1, DescriptorsEnds
  <2> QED BY <1>1, <1>2, <1>16, <2>1, ProgramIs DEF Local, SameFds
<1>17. CASE sigchld_handler(p)
  BY <1>1, <1>2, <1>17, HandlerIs DEF SameFds, Takes
<1> QED
  BY <1>4, <1>5, <1>6, <1>7, <1>8, <1>9, <1>10, <1>11, <1>12, <1>13, <1>14, <1>15, <1>16, <1>17
  DEF Step
-----------------------------------------------------------------------------
(* The places of the commands of a line *)

(* The numbering of a line is one by which its commands are numbered.      *)
LEMMA NumberingIs ==
  ASSUME ParsedInOrder, NEW line \in Lines, NEW place, place = Numbering[line]
  PROVE  Numbered(line, place) /\ place \in [Parts(line) -> 0..Len(line)]
<1>1. \E pl \in [Parts(line) -> 0..Len(line)] : Numbered(line, pl) BY DEF ParsedInOrder
<1>2. place = CHOOSE pl \in [Parts(line) -> 0..Len(line)] : Numbered(line, pl)
  BY DEF Numbering
<1> QED BY <1>1, <1>2

(* The places of a command and of the two sides of a pipe.                 *)
LEMMA PlacesAre ==
  ASSUME ParsedInOrder, NEW line \in Lines, NEW place, place = Numbering[line]
  PROVE  /\ parse_line[line] \in Parts(line)
         /\ \A t \in Parts(line) :
              /\ place[t] \in Nat
              /\ t.type = "PIPE" =>
                   /\ t.leftcmd \in Parts(line) /\ t.rightcmd \in Parts(line)
                   /\ t.leftcmd.type # "PIPE"
                   /\ place[t.leftcmd] = place[t] /\ place[t.rightcmd] = place[t] + 1
              /\ t.type # "PIPE" =>
                   \A w \in DOMAIN Programs : Names(t, w) => PlaceIn(line, w) = place[t]
<1>1. Numbered(line, place) /\ place \in [Parts(line) -> 0..Len(line)] BY NumberingIs
<1>2. \A t \in Parts(line) : place[t] \in Nat BY <1>1
<1> QED BY <1>1, <1>2 DEF Numbered

(* What a process that goes on in the line has before it and after it. *)
Becomes(a, x) ==
    /\ at[a] \in Staged /\ a \in Pids
    /\ InEnd(x)' = InEnd(a) \/ InEnd(x)'[1] = "file"
    /\ OutEnd(x)' = OutEnd(a) \/ OutEnd(x)'[1] = "file"
    /\ Start(x)' = Start(a)
    /\ Splits(x)' => Splits(a)
    /\ os'.group[x] = os.group[a]

(* A process that is as before has its place, input and output as before.  *)
LEMMA StaysItself ==
  ASSUME NEW q \in Pids, at'[q] = at[q], at[q] \in Staged, mem'[q] = mem[q],
         os'.fd[q] = os.fd[q], os'.open[q] = os.open[q], os'.group[q] = os.group[q]
  PROVE  /\ Becomes(q, q)
         /\ InEnd(q)' = InEnd(q) /\ OutEnd(q)' = OutEnd(q) /\ Start(q)' = Start(q)
         /\ Splits(q)' <=> Splits(q)
<1>1. ReadEnd(q)' = ReadEnd(q) /\ WriteEnd(q)' = WriteEnd(q) BY DEF ReadEnd, WriteEnd
<1>2. InEnd(q)' = InEnd(q) /\ OutEnd(q)' = OutEnd(q) BY <1>1 DEF InEnd, OutEnd
<1>3. Start(q)' = Start(q) BY DEF Start
<1>4. Splits(q)' <=> Splits(q) BY DEF Splits
<1> QED BY <1>2, <1>3, <1>4 DEF Becomes

(* Two processes stay wired when their ends stay or are redirected.        *)
LEMMA FollowsFrom ==
  ASSUME NEW a \in Pids, NEW b \in Pids, NEW x \in Pids, NEW y \in Pids, Follows(a, b),
         OutEnd(x)' = OutEnd(a) \/ OutEnd(x)'[1] = "file",
         InEnd(y)' = InEnd(b) \/ InEnd(y)'[1] = "file"
  PROVE  Follows(x, y)'
<1>1. \A k : R(k)[1] = "read" /\ W(k)[1] = "write" BY DEF R, W
<1>2. \A k : R(k)' = R(k) /\ W(k)' = W(k) BY DEF R, W
<1>3. CASE "file" \in {OutEnd(a)[1], InEnd(b)[1]}
  BY <1>3 DEF Follows
<1>4. CASE \E k \in 1..NPipe : OutEnd(a) = W(k) /\ InEnd(b) = R(k)
  BY <1>2, <1>4 DEF Follows
<1> QED BY <1>3, <1>4 DEF Follows

(* Two processes stay wired in those that take their places.               *)
LEMMA FollowsBecomes ==
  ASSUME NEW a \in Pids, NEW b \in Pids, NEW x \in Pids, NEW y \in Pids,
         Becomes(a, x), Becomes(b, y), Follows(a, b)
  PROVE  Follows(x, y)'
  BY FollowsFrom DEF Becomes

(* The properties of the pipeline depend on no more than that. *)
LEMMA LineMoves ==
  ASSUME OneOwner, InLine,
         \A x, y \in Pids : x # y /\ at'[x] \in Staged /\ at'[y] \in Staged =>
             \E a, b \in Pids : a # b /\ Becomes(a, x) /\ Becomes(b, y)
  PROVE  OneOwner' /\ InLine'
<1>1. ASSUME NEW x \in Pids, NEW y \in Pids, x # y, at'[x] \in Staged, at'[y] \in Staged
      PROVE  /\ InEnd(x)'[1] = "read" => InEnd(x)' # InEnd(y)'
             /\ OutEnd(x)'[1] = "write" => OutEnd(x)' # OutEnd(y)'
             /\ os'.group[x] = os'.group[y] /\ os'.group[x] # sh =>
                  /\ Start(x)' # Start(y)'
                  /\ Splits(y)' => Start(x)' < Start(y)'
                  /\ Start(y)' = Start(x)' + 1 => Follows(x, y)'
  <2>1. PICK a \in Pids, b \in Pids : a # b /\ Becomes(a, x) /\ Becomes(b, y) BY <1>1
  <2>2. at[a] \in Staged /\ at[b] \in Staged BY <2>1 DEF Becomes
  <2>3. InEnd(x)'[1] = "read" => InEnd(x)' # InEnd(y)' BY <2>1, <2>2 DEF Becomes, OneOwner
  <2>4. OutEnd(x)'[1] = "write" => OutEnd(x)' # OutEnd(y)' BY <2>1, <2>2 DEF Becomes, OneOwner
  <2>5. ASSUME os'.group[x] = os'.group[y], os'.group[x] # sh
        PROVE  /\ Start(x)' # Start(y)'
               /\ Splits(y)' => Start(x)' < Start(y)'
               /\ Start(y)' = Start(x)' + 1 => Follows(x, y)'
    <3>1. os.group[a] = os.group[b] /\ os.group[a] # sh BY <2>1, <2>5 DEF Becomes
    <3>2. /\ Start(a) # Start(b)
          /\ Splits(b) => Start(a) < Start(b)
          /\ Start(b) = Start(a) + 1 => Follows(a, b)
      BY <2>1, <2>2, <3>1 DEF InLine
    <3>3. Start(x)' = Start(a) /\ Start(y)' = Start(b) /\ (Splits(y)' => Splits(b))
      BY <2>1 DEF Becomes
    <3>4. Follows(a, b) => Follows(x, y)' BY <2>1, FollowsBecomes
    <3> QED BY <3>2, <3>3, <3>4
  <2> QED BY <2>3, <2>4, <2>5
<1>2. OneOwner' BY <1>1 DEF OneOwner
<1>3. InLine' BY <1>1 DEF InLine
<1> QED BY <1>2, <1>3

(* OneOwner and InLine, for two processes *)
Ordered(x, y) ==
    /\ InEnd(x)[1] = "read" => InEnd(x) # InEnd(y)
    /\ OutEnd(x)[1] = "write" => OutEnd(x) # OutEnd(y)
    /\ os.group[x] = os.group[y] /\ os.group[x] # sh =>
          /\ Start(x) # Start(y)
          /\ Splits(y) => Start(x) < Start(y)
          /\ Start(y) = Start(x) + 1 => Follows(x, y)

(* OneOwner and InLine are about any two processes.                        *)
LEMMA OrderedAll ==
  ASSUME \A x, y \in Pids : x # y /\ at'[x] \in Staged /\ at'[y] \in Staged => Ordered(x, y)'
  PROVE  OneOwner' /\ InLine'
<1>1. OneOwner' BY DEF Ordered, OneOwner
<1>2. InLine' BY DEF Ordered, InLine
<1> QED BY <1>1, <1>2

(* Two processes that keep their places stay in order.                     *)
LEMMA OrderedSame ==
  ASSUME OneOwner, InLine, NEW x \in Pids, NEW y \in Pids, x # y, Becomes(x, x), Becomes(y, y)
  PROVE  Ordered(x, y)'
<1>1. at[x] \in Staged /\ at[y] \in Staged BY DEF Becomes
<1>2. /\ InEnd(x)'[1] = "read" => InEnd(x)' # InEnd(y)'
      /\ OutEnd(x)'[1] = "write" => OutEnd(x)' # OutEnd(y)'
  BY <1>1 DEF Becomes, OneOwner
<1>3. os'.group[x] = os'.group[y] /\ os'.group[x] # sh =>
          /\ Start(x)' # Start(y)'
          /\ Splits(y)' => Start(x)' < Start(y)'
          /\ Start(y)' = Start(x)' + 1 => Follows(x, y)
  BY <1>1 DEF Becomes, InLine
<1>4. Follows(x, y) => Follows(x, y)' BY FollowsBecomes
<1> QED BY <1>2, <1>3, <1>4 DEF Ordered

(* It is enough to look at the processes that take the step.               *)
LEMMA ParsedOthers ==
  ASSUME Parsed, NEW P, Apart(P), \A q \in Pids \cap P : Carries(at'[q], mem'[q])
  PROVE  Parsed'
<1>1. \A q \in Pids \ P : Carries(at'[q], mem'[q]) BY DEF Apart, Parsed
<1>2. \A q \in Pids : Carries(at'[q], mem'[q]) BY <1>1
<1>3. (\A q \in Pids : Carries(at[q], mem[q]))'
  BY <1>2 DEF Carries, StartOf
<1> QED BY <1>3 DEF Parsed

(* The processes that take no part keep their places.                      *)
LEMMA OthersStay ==
  ASSUME NEW P, Apart(P), \A q \in Pids \ P : os'.group[q] = os.group[q]
  PROVE  \A q \in Pids \ P : at'[q] \in Staged => Becomes(q, q)
  BY StaysItself DEF Apart

(* p alone takes the step. *)
LEMMA GoesOn ==
  ASSUME OneOwner, InLine, NEW p \in Pids, Apart({p}),
         \A q \in Pids \ {p} : os'.group[q] = os.group[q],
         at'[p] \in Staged => Becomes(p, p)
  PROVE  OneOwner' /\ InLine'
<1>1. \A q \in Pids : at'[q] \in Staged => Becomes(q, q) BY OthersStay
<1> QED BY <1>1, LineMoves

(* p alone takes the step, its descriptors, memory and group being the     *)
(* same, and stays where it is or goes where it has no place in the line.  *)
LEMMA StaysOrLeaves ==
  ASSUME OneOwner, InLine, NEW p \in Pids, Apart({p}), os'.group = os.group,
         at'[p] \in Staged => at'[p] = at[p] /\ mem'[p] = mem[p] /\ SameFds(p)
  PROVE  OneOwner' /\ InLine'
<1>1. at'[p] \in Staged => Becomes(p, p) BY StaysItself DEF SameFds
<1> QED BY <1>1, GoesOn

(* c takes the place of p. *)
LEMMA HandsOn ==
  ASSUME OneOwner, InLine, NEW p \in Pids, NEW c \in Pids, Apart({p, c}),
         \A q \in Pids \ {c} : os'.group[q] = os.group[q],
         at[c] \notin Staged, at'[p] \notin Staged, at'[c] \in Staged => Becomes(p, c)
  PROVE  OneOwner' /\ InLine'
<1>1. \A q \in Pids \ {p, c} : at'[q] \in Staged => Becomes(q, q) BY OthersStay
<1>2. ASSUME NEW x \in Pids, NEW y \in Pids, x # y, at'[x] \in Staged, at'[y] \in Staged
      PROVE  \E a, b \in Pids : a # b /\ Becomes(a, x) /\ Becomes(b, y)
  <2>1. x # p /\ y # p BY <1>2
  <2>2. CASE x # c /\ y # c BY <1>1, <1>2, <2>1, <2>2
  <2>3. CASE x = c BY <1>1, <1>2, <2>1, <2>3
  <2>4. CASE y = c BY <1>1, <1>2, <2>1, <2>4
  <2> QED BY <2>2, <2>3, <2>4
<1> QED BY <1>2, LineMoves

(* A free pipe is nobody's input or output.                                *)
LEMMA NotHeld ==
  ASSUME Typed, Descriptors, NEW k \in FreePipes(os), NEW q \in Pids, at[q] \in Staged
  PROVE  InEnd(q) # R(k) /\ OutEnd(q) # W(k)
<1>1. Running(os, q) BY DEF Typed, Staged
<1>2. R(k) \notin Held(os, q) /\ W(k) \notin Held(os, q) BY <1>1 DEF FreePipes, Holders
<1>3. os.fd[q][Stdin] \in Held(os, q) /\ os.fd[q][Stdout] \in Held(os, q)
  BY Constants DEF Held, Range, Typed, IsSystem
<1>4. at[q] \in {"left", "right", "left_forked"} => ReadEnd(q) \in Held(os, q) /\ WriteEnd(q) \in Held(os, q)
  <2> SUFFICES ASSUME at[q] \in {"left", "right", "left_forked"}
               PROVE  ReadEnd(q) \in Held(os, q) /\ WriteEnd(q) \in Held(os, q)
    OBVIOUS
  <2>1. PICK j \in 1..NPipe : os.open[q] = {R(j), W(j)} BY DEF Descriptors, Fits, Forked
  <2>2. ReadEnd(q) \in os.open[q] /\ WriteEnd(q) \in os.open[q] BY <2>1, EndsAre
  <2> QED BY <2>2 DEF Held
<1> QED BY <1>2, <1>3, <1>4 DEF InEnd, OutEnd

-----------------------------------------------------------------------------
(* The steps of a pipeline *)

Pipeline == Descriptors /\ OneOwner /\ Parsed /\ InLine

(* A process that ends leaves the others in order.                         *)
LEMMA LineEnds ==
  ASSUME Typed, Pipeline, NEW p \in Pids, NEW word, Ends(p, word)
  PROVE  Parsed' /\ OneOwner' /\ InLine'
<1>1. at'[p] = "gone" /\ Apart({p}) /\ os'.group = os.group BY DEF Ends
<1>2. Parsed' BY <1>1, ParsedOthers DEF Pipeline, Carries, Staged
<1> QED BY <1>1, <1>2, StaysOrLeaves DEF Pipeline, Staged

(* A child that enters a group of its own is alone in it.                  *)
LEMMA LineRegroups ==
  ASSUME Typed, Family, Pipeline, ParsedInOrder, NEW p \in Pids, RunCmdChild(p)
  PROVE  Parsed' /\ OneOwner' /\ InLine'
<1>1. /\ at[p] = "child" /\ at'[p] = "exec" /\ Apart({p}) /\ SameFds(p) /\ mem' = mem
      /\ os'.group = IF mem[p].tree.type # "BACK" THEN [os.group EXCEPT ![p] = p] ELSE os.group
  BY RunCmdChildIs
<1>2. /\ \A q \in Pids \ {p} : os'.group[q] = os.group[q]
      /\ os'.group[p] = IF mem[p].tree.type # "BACK" THEN p ELSE os.group[p]
  BY <1>1 DEF Typed, IsSystem
<1>3. /\ os.group[p] = sh
      /\ \A q \in Pids : at[q] # "gone" => os.group[q] # p
  BY <1>1 DEF Family, Typed, Live, Running
<1>4. mem[p].line \in Lines /\ mem[p].tree \in Parts(mem[p].line)
  BY <1>1 DEF Pipeline, Parsed, Carries
<1>5. Carries(at'[p], mem'[p])
  <2>1. StartOf("exec", mem[p]) \in Nat BY <1>4, PlacesAre DEF StartOf
  <2> QED BY <1>1, <1>4, <2>1 DEF Carries
<1>6. Parsed' BY <1>1, <1>5, ParsedOthers DEF Pipeline
<1>7. InEnd(p)'[1] # "read" /\ OutEnd(p)'[1] # "write"
  <2>1. os.fd[p][Stdin][1] # "read" /\ os.fd[p][Stdout][1] # "write"
    BY <1>1 DEF Pipeline, Descriptors, Fits
  <2> QED BY <1>1, <2>1 DEF InEnd, OutEnd, SameFds
<1>8. ASSUME NEW q \in Pids \ {p}, at'[q] \in Staged
      PROVE  /\ at[q] \in Staged /\ InEnd(q)' = InEnd(q) /\ OutEnd(q)' = OutEnd(q)
             /\ Start(q)' = Start(q) /\ (Splits(q)' => Splits(q))
             /\ Becomes(q, q)
             /\ os'.group[p] # sh => os'.group[q] # os'.group[p]
  <2>1. at[q] \in Staged /\ at'[q] = at[q] /\ mem'[q] = mem[q]
        /\ os'.fd[q] = os.fd[q] /\ os'.open[q] = os.open[q]
    BY <1>1, <1>8 DEF Apart
  <2>2. at[q] # "gone" BY <2>1 DEF Staged
  <2> QED BY <1>2, <1>3, <2>1, <2>2, StaysItself
<1>9. OneOwner'
  <2> SUFFICES ASSUME NEW x \in Pids, NEW y \in Pids, x # y, at'[x] \in Staged, at'[y] \in Staged
               PROVE  /\ InEnd(x)'[1] = "read" => InEnd(x)' # InEnd(y)'
                      /\ OutEnd(x)'[1] = "write" => OutEnd(x)' # OutEnd(y)'
    BY DEF OneOwner
  <2>1. CASE x = p \/ y = p BY <1>7, <2>1
  <2>2. CASE x # p /\ y # p BY <1>8, <2>2 DEF Pipeline, OneOwner
  <2> QED BY <2>1, <2>2
<1>10. InLine'
  <2> SUFFICES ASSUME NEW x \in Pids, NEW y \in Pids, x # y, at'[x] \in Staged, at'[y] \in Staged,
                      os'.group[x] = os'.group[y], os'.group[x] # sh
               PROVE  /\ Start(x)' # Start(y)'
                      /\ Splits(y)' => Start(x)' < Start(y)'
                      /\ Start(y)' = Start(x)' + 1 => Follows(x, y)'
    BY DEF InLine
  <2>1. x # p /\ y # p BY <1>8
  <2>2. /\ Start(x) # Start(y)
        /\ Splits(y) => Start(x) < Start(y)
        /\ Start(y) = Start(x) + 1 => Follows(x, y)
    BY <1>2, <1>8, <2>1 DEF Pipeline, InLine
  <2>3. Follows(x, y) => Follows(x, y)' BY <1>8, <2>1, FollowsBecomes
  <2> QED BY <1>8, <2>1, <2>2, <2>3
<1> QED BY <1>6, <1>9, <1>10

(* A program has the place of the command that named it.                   *)
LEMMA LineProgram ==
  ASSUME Typed, Pipeline, ParsedInOrder, NEW p \in Pids, ExecCommand(p)
  PROVE  Parsed' /\ OneOwner' /\ InLine'
<1>1. CASE Ends(p, Exited(EXIT_FAILURE)) BY <1>1, LineEnds
<1>2. CASE ~Ends(p, Exited(EXIT_FAILURE))
  <2> DEFINE w == mem'[p].prog
             tree == mem[p].tree
             line == mem[p].line
  <2>1. /\ at[p] = "exec" /\ tree.type # "PIPE"
        /\ Still /\ Apart({p}) /\ at'[p] = "prog" /\ os'.open[p] = os.open[p]
        /\ os'.fd[p] = Redirected(os.fd[p], Foreground(tree))
        /\ Keeps(p, {"tree", "prog", "todo"})
        /\ w \in DOMAIN Programs /\ Names(tree, w)
    BY <1>2, ExecCommandIs
  <2>2. line \in Lines /\ tree \in Parts(line) BY <2>1 DEF Pipeline, Parsed, Carries
  <2>3. mem'[p].line = line BY <2>1, FieldsAre DEF Keeps
  <2>4. Start(p)' = Start(p) /\ Start(p) \in Nat
    <3>1. PlaceIn(line, w) = Numbering[line][tree] /\ Numbering[line][tree] \in Nat
      BY <2>1, <2>2, PlacesAre
    <3>2. StartOf("prog", mem'[p]) = PlaceIn(line, w) BY <2>3 DEF StartOf
    <3>3. StartOf("exec", mem[p]) = Numbering[line][tree] BY DEF StartOf
    <3> QED BY <2>1, <3>1, <3>2, <3>3 DEF Start
  <2>5. Parsed'
    <3>1. Carries(at'[p], mem'[p]) BY <2>1, <2>4 DEF Carries, Start
    <3> QED BY <2>1, <3>1, ParsedOthers DEF Pipeline
  <2>6. Becomes(p, p)
    <3>1. DOMAIN os.fd[p] = Stdin..Stderr BY DEF Typed, IsSystem
    <3>2. /\ os'.fd[p][Stdin] = os.fd[p][Stdin] \/ os'.fd[p][Stdin][1] = "file"
          /\ os'.fd[p][Stdout] = os.fd[p][Stdout] \/ os'.fd[p][Stdout][1] = "file"
      BY <2>1, <3>1, RedirectedIs
    <3>3. /\ InEnd(p) = os.fd[p][Stdin] /\ OutEnd(p) = os.fd[p][Stdout]
          /\ InEnd(p)' = os'.fd[p][Stdin] /\ OutEnd(p)' = os'.fd[p][Stdout]
      BY <2>1 DEF InEnd, OutEnd
    <3>4. ~Splits(p)' /\ at[p] \in Staged /\ os'.group = os.group
      BY <2>1 DEF Splits, Staged, Still
    <3> QED BY <2>4, <3>2, <3>3, <3>4 DEF Becomes
  <2> QED BY <2>1, <2>5, <2>6, GoesOn DEF Pipeline, Still
<1> QED BY <1>1, <1>2

(* A pipe is made: its left process c, when the fork succeeds, has the     *)
(* place of p, and p the next one.                                         *)
LEMMA LineSplits ==
  ASSUME Typed, Pipeline, ParsedInOrder, NEW p \in Pids, ExecPipe(p)
  PROVE  Parsed' /\ OneOwner' /\ InLine'
<1>1. CASE Ends(p, Exited(EXIT_FAILURE)) BY <1>1, LineEnds
<1>2. CASE ~Ends(p, Exited(EXIT_FAILURE))
  <2> DEFINE tree == mem[p].tree
             line == mem[p].line
             place == Numbering[line]
             s == place[tree]
  <2>1. PICK k \in FreePipes(os) :
           Outcome(p, os.open[p] \cup {R(k), W(k)}, "left_forked", "left", "pid_l")
    BY <1>2, ExecPipeIs
  <2>2. at[p] = "exec" /\ tree.type = "PIPE" /\ k \in 1..NPipe BY ExecPipeIs DEF FreePipes
  <2>3. line \in Lines /\ tree \in Parts(line) BY <2>2 DEF Pipeline, Parsed, Carries
  <2>4. /\ s \in Nat /\ place[tree.leftcmd] = s /\ place[tree.rightcmd] = s + 1
        /\ Start(p) = s
    <3>1. Start(p) = s BY <2>2 DEF Start, StartOf
    <3> QED BY <2>2, <2>3, <3>1, PlacesAre
  <2>5. os.open[p] \cup {R(k), W(k)} = {R(k), W(k)}
    BY <2>2 DEF Pipeline, Descriptors, Fits, Forked
  <2>6. /\ at'[p] = "left_forked" /\ os'.fd[p] = os.fd[p] /\ os'.open[p] = {R(k), W(k)}
        /\ Keeps(p, {"pid_l"})
        /\ os'.group[p] = os.group[p]
    BY <2>1, <2>5 DEF Outcome, Begets, Still, Typed, IsSystem
  <2>7. mem'[p].line = line /\ mem'[p].tree = tree BY <2>6, FieldsAre DEF Keeps
  <2>8. InEnd(p) = os.fd[p][Stdin] /\ OutEnd(p) = os.fd[p][Stdout] /\ Splits(p)
    BY <2>2 DEF InEnd, OutEnd, Splits
  <2>9. ReadEnd(p)' = R(k)
    <3>1. R(k)[1] = "read" /\ W(k)[1] = "write" BY DEF R, W
    <3>2. \A e \in os'.open[p] : e[1] = "read" <=> e = R(k) BY <2>6, <3>1
    <3>3. (CHOOSE e \in os'.open[p] : e[1] = "read") = R(k) BY <2>6, <3>1, <3>2
    <3> QED BY <3>3 DEF ReadEnd
  <2>10. /\ InEnd(p)' = R(k) /\ OutEnd(p)' = OutEnd(p) /\ Start(p)' = s + 1
    <3>1. InEnd(p)' = ReadEnd(p)' BY <2>6 DEF InEnd
    <3>2. OutEnd(p)' = os'.fd[p][Stdout] BY <2>6 DEF OutEnd
    <3>3. Start(p)' = StartOf("left_forked", mem'[p]) BY <2>6 DEF Start
    <3>4. StartOf("left_forked", mem'[p]) = place[tree.rightcmd] BY <2>7 DEF StartOf
    <3> QED BY <2>4, <2>6, <2>8, <2>9, <3>1, <3>2, <3>3, <3>4
  <2>11. Carries(at'[p], mem'[p])
    <3>1. Start(p)' \in Nat BY <2>4, <2>10
    <3> QED BY <2>2, <2>3, <2>6, <2>7, <3>1 DEF Carries, Start
  <2>12. R(k)[1] = "read" /\ W(k)[1] = "write" BY DEF R, W
  <2> HIDE DEF tree, line, place, s
  (* one of the others *)
  <2>13. ASSUME NEW q \in Pids \ {p}, at'[q] \in Staged, Becomes(q, q)
         PROVE  /\ at[q] \in Staged
                /\ InEnd(q)' # R(k) /\ OutEnd(q)' # W(k)
                /\ InEnd(q)'[1] = "read" => InEnd(q)' # InEnd(p)
                /\ OutEnd(q)'[1] = "write" => OutEnd(q)' # OutEnd(p)
                /\ os'.group[q] = os.group[p] /\ os.group[p] # sh =>
                     /\ Start(q)' < s /\ Start(q)' \in Nat /\ ~Splits(q)'
                     /\ Start(q)' + 1 = s => Follows(q, p)
    <3>1. /\ at[q] \in Staged
          /\ InEnd(q)' = InEnd(q) \/ InEnd(q)'[1] = "file"
          /\ OutEnd(q)' = OutEnd(q) \/ OutEnd(q)'[1] = "file"
          /\ Start(q)' = Start(q) /\ (Splits(q)' => Splits(q))
          /\ os'.group[q] = os.group[q]
      BY <2>13 DEF Becomes
    <3>2. InEnd(q) # R(k) /\ OutEnd(q) # W(k) BY <3>1, NotHeld DEF Pipeline
    <3>3. /\ InEnd(q)[1] = "read" => InEnd(q) # InEnd(p)
          /\ OutEnd(q)[1] = "write" => OutEnd(q) # OutEnd(p)
      BY <2>2, <3>1 DEF Pipeline, OneOwner, Staged
    <3>4. ASSUME os.group[q] = os.group[p], os.group[p] # sh
          PROVE  /\ Start(q) < s /\ Start(q) \in Nat /\ ~Splits(q)
                 /\ Start(q) + 1 = s => Follows(q, p)
      <4>1. /\ Start(q) # Start(p)
            /\ Splits(p) => Start(q) < Start(p)
            /\ Start(p) = Start(q) + 1 => Follows(q, p)
            /\ Splits(q) => Start(p) < Start(q)
        BY <2>2, <3>1, <3>4 DEF Pipeline, InLine, Staged
      <4>2. Start(q) \in Nat BY <3>1 DEF Pipeline, Parsed, Carries, Start
      <4> QED BY <2>4, <2>8, <4>1, <4>2
    <3> QED BY <2>12, <3>1, <3>2, <3>3, <3>4
  <2>14. InEnd(p) # R(k) /\ OutEnd(p) # W(k)
    BY <2>2, NotHeld DEF Pipeline, Staged
  (* p and one of the others *)
  <2>15. ASSUME NEW q \in Pids \ {p}, at'[q] \in Staged, Becomes(q, q)
         PROVE  Ordered(p, q)' /\ Ordered(q, p)'
    <3>1. /\ InEnd(q)' # R(k)
          /\ OutEnd(q)'[1] = "write" => OutEnd(q)' # OutEnd(p)
      BY <2>13, <2>15
    <3>2. ASSUME os'.group[q] = os.group[p], os.group[p] # sh
          PROVE  Start(q)' < s /\ Start(q)' \in Nat /\ ~Splits(q)'
      BY <2>13, <2>15, <3>2
    <3>3. ASSUME os'.group[q] = os'.group[p], os'.group[p] # sh
          PROVE  /\ Start(q)' < Start(p)' /\ ~Splits(q)'
                 /\ Start(p)' # Start(q)' + 1 /\ Start(q)' # Start(p)' + 1
                 /\ Start(q)' # Start(p)'
      BY <2>4, <2>6, <2>10, <3>2, <3>3
    <3> QED BY <2>10, <3>1, <3>3 DEF Ordered
  <2>16. CASE Still /\ Apart({p})
    <3>1. \A q \in Pids \ {p} : at'[q] \in Staged => Becomes(q, q)
      BY <2>16, OthersStay DEF Still
    <3>2. Parsed' BY <2>11, <2>16, ParsedOthers DEF Pipeline
    <3>3. ASSUME NEW x \in Pids, NEW y \in Pids, x # y, at'[x] \in Staged, at'[y] \in Staged
          PROVE  Ordered(x, y)'
      <4>1. CASE x = p BY <2>15, <3>1, <3>3, <4>1
      <4>2. CASE y = p BY <2>15, <3>1, <3>3, <4>2
      <4>3. CASE x # p /\ y # p BY <3>1, <3>3, <4>3, OrderedSame DEF Pipeline
      <4> QED BY <4>1, <4>2, <4>3
    <3> QED BY <3>2, <3>3, OrderedAll
  <2>17. ASSUME NEW c \in Pids, Begets(p, c, "left_forked", "left", "pid_l")
         PROVE  Parsed' /\ OneOwner' /\ InLine'
    <3>1. /\ c # p /\ Apart({p, c}) /\ at'[c] = "left" /\ mem'[c] = mem[p]
          /\ os'.fd[c] = os.fd[p] /\ os'.open[c] = {R(k), W(k)}
          /\ os'.group[c] = os.group[p] /\ \A q \in Pids \ {c} : os'.group[q] = os.group[q]
      BY <2>6, <2>17 DEF Begets, Typed, IsSystem
    <3>2. \A q \in Pids \ {p, c} : at'[q] \in Staged => Becomes(q, q)
      BY <3>1, OthersStay
    <3>3. WriteEnd(c)' = W(k)
      <4>1. \A e \in os'.open[c] : e[1] = "write" <=> e = W(k) BY <2>12, <3>1
      <4>2. (CHOOSE e \in os'.open[c] : e[1] = "write") = W(k) BY <2>12, <3>1, <4>1
      <4> QED BY <4>2 DEF WriteEnd
    <3>4. /\ InEnd(c)' = InEnd(p) /\ OutEnd(c)' = W(k) /\ Start(c)' = s /\ ~Splits(c)'
      <4>1. InEnd(c)' = InEnd(p) BY <2>8, <3>1 DEF InEnd
      <4>2. OutEnd(c)' = W(k) BY <3>1, <3>3 DEF OutEnd
      <4>3. Start(c)' = s
        <5>1. Start(c)' = StartOf("left", mem[p]) BY <3>1 DEF Start
        <5>2. StartOf("left", mem[p]) = place[tree.leftcmd] BY DEF StartOf, place, tree, line
        <5> QED BY <2>4, <5>1, <5>2
      <4>4. ~Splits(c)' BY <3>1 DEF Splits
      <4> QED BY <4>1, <4>2, <4>3, <4>4
    <3>5. Parsed'
      <4>1. Carries(at'[c], mem'[c])
        BY <2>2, <2>3, <2>4, <3>1, <3>4 DEF Carries, Start, tree, line
      <4> QED BY <2>11, <3>1, <4>1, ParsedOthers DEF Pipeline
    (* c and p *)
    <3>6. Ordered(c, p)' /\ Ordered(p, c)'
      <4>1. InEnd(c)' # InEnd(p)' /\ OutEnd(c)' # OutEnd(p)' BY <2>10, <2>14, <3>4
      <4>2. Start(c)' < Start(p)' /\ Start(c)' # Start(p)' /\ Start(c)' # Start(p)' + 1
        BY <2>4, <2>10, <3>4
      <4>3. Follows(c, p)'
        <5>1. \A j : R(j)' = R(j) /\ W(j)' = W(j) BY DEF R, W
        <5> QED BY <2>2, <2>10, <3>4, <5>1 DEF Follows
      <4> QED BY <3>4, <4>1, <4>2, <4>3 DEF Ordered
    (* c and one of the others *)
    <3>7. ASSUME NEW q \in Pids \ {p}, at'[q] \in Staged, Becomes(q, q)
          PROVE  Ordered(c, q)' /\ Ordered(q, c)'
      <4>1. /\ InEnd(q)'[1] = "read" => InEnd(q)' # InEnd(c)'
            /\ OutEnd(q)' # OutEnd(c)'
        BY <2>13, <3>4, <3>7
      <4>2. ASSUME os'.group[q] = os'.group[c], os'.group[c] # sh
            PROVE  /\ Start(q)' < Start(c)' /\ ~Splits(q)' /\ Start(q)' # Start(c)' + 1
                   /\ Start(q)' # Start(c)'
                   /\ Start(c)' = Start(q)' + 1 => Follows(q, c)'
        <5>1. /\ Start(q)' < s /\ Start(q)' \in Nat /\ ~Splits(q)'
              /\ Start(q)' + 1 = s => Follows(q, p)
          BY <2>13, <3>1, <3>7, <4>2
        <5>2. Follows(q, p) => Follows(q, c)' BY <3>4, <3>7, FollowsFrom DEF Becomes
        <5> QED BY <2>4, <3>4, <5>1, <5>2
      <4> QED BY <3>4, <4>1, <4>2 DEF Ordered
    <3>8. ASSUME NEW x \in Pids, NEW y \in Pids, x # y, at'[x] \in Staged, at'[y] \in Staged
          PROVE  Ordered(x, y)'
      <4>1. CASE {x, y} = {p, c} BY <3>6, <4>1
      <4>2. CASE x \in {p, c} /\ y \notin {p, c} BY <2>15, <3>2, <3>7, <3>8, <4>2
      <4>3. CASE y \in {p, c} /\ x \notin {p, c} BY <2>15, <3>2, <3>7, <3>8, <4>3
      <4>4. CASE x \notin {p, c} /\ y \notin {p, c} BY <3>2, <3>8, <4>4, OrderedSame DEF Pipeline
      <4> QED BY <3>8, <4>1, <4>2, <4>3, <4>4
    <3> QED BY <3>5, <3>8, OrderedAll
  <2> QED BY <2>1, <2>16, <2>17 DEF Outcome
<1> QED BY <1>1, <1>2

(* The right process c takes the place of p. *)
LEMMA LineRight ==
  ASSUME Typed, Pipeline, NEW p \in Pids, ForkRight(p)
  PROVE  Parsed' /\ OneOwner' /\ InLine'
<1>1. CASE Ends(p, Exited(EXIT_FAILURE)) BY <1>1, LineEnds
<1>2. CASE ~Ends(p, Exited(EXIT_FAILURE))
  <2>1. at[p] = "left_forked" /\ Outcome(p, os.open[p], "right_forked", "right", "pid_r")
    BY <1>2, ForkRightIs
  <2>2. Carries("right_forked", mem'[p]) BY DEF Carries, Staged
  <2>3. CASE Still /\ Apart({p}) /\ at'[p] = "right_forked"
    <3>1. Parsed' BY <2>2, <2>3, ParsedOthers DEF Pipeline
    <3> QED BY <2>3, <3>1, StaysOrLeaves DEF Pipeline, Still, Staged
  <2>4. ASSUME NEW c \in Pids, Begets(p, c, "right_forked", "right", "pid_r"),
               os'.open[p] = os.open[p]
        PROVE  Parsed' /\ OneOwner' /\ InLine'
    <3>1. /\ c # p /\ Apart({p, c}) /\ at'[p] = "right_forked" /\ at'[c] = "right"
          /\ mem'[c] = mem[p] /\ os'.fd[c] = os.fd[p] /\ os'.open[c] = os.open[p]
          /\ os'.group[c] = os.group[p] /\ \A q \in Pids \ {c} : os'.group[q] = os.group[q]
      BY <2>4 DEF Begets, Typed, IsSystem
    <3>2. at[c] \notin Staged BY <2>4 DEF Begets, Typed, Live, Running, Staged
    <3>3. Start(c)' = Start(p)
      <4>1. Start(c)' = StartOf("right", mem[p]) BY <3>1 DEF Start
      <4>2. StartOf("right", mem[p]) = StartOf("left_forked", mem[p]) BY DEF StartOf
      <4> QED BY <2>1, <4>1, <4>2 DEF Start
    <3>4. Parsed'
      <4>1. Carries("left_forked", mem[p]) BY <2>1 DEF Pipeline, Parsed
      <4>2. StartOf("right", mem[p]) = StartOf("left_forked", mem[p]) BY DEF StartOf
      <4>3. Carries(at'[c], mem'[c]) BY <3>1, <4>1, <4>2 DEF Carries, Staged
      <4> QED BY <2>2, <3>1, <4>3, ParsedOthers DEF Pipeline
    <3>5. InEnd(c)' = InEnd(p) /\ OutEnd(c)' = OutEnd(p)
      <4>1. ReadEnd(c)' = ReadEnd(p) BY <3>1 DEF ReadEnd
      <4> QED BY <2>1, <3>1, <4>1 DEF InEnd, OutEnd
    <3>6. Becomes(p, c) BY <2>1, <3>1, <3>3, <3>5 DEF Becomes, Staged, Splits
    <3>7. at'[p] \notin Staged BY <3>1 DEF Staged
    <3>8. OneOwner' /\ InLine' BY <3>1, <3>2, <3>6, <3>7, HandsOn DEF Pipeline
    <3> QED BY <3>4, <3>8
  <2> QED BY <2>1, <2>3, <2>4 DEF Outcome
<1> QED BY <1>1, <1>2

(* The two processes of a pipe give its ends to their standard descriptors. *)
LEMMA LineChild ==
  ASSUME Typed, Pipeline, ParsedInOrder, NEW p \in Pids, LeftChild(p) \/ RightChild(p)
  PROVE  Parsed' /\ OneOwner' /\ InLine'
<1> DEFINE tree == mem[p].tree
           line == mem[p].line
           place == Numbering[line]
<1>1. /\ at[p] \in {"left", "right"} /\ at'[p] = "exec" /\ Still /\ Apart({p})
      /\ Keeps(p, {"tree"})
      /\ mem'[p].tree = IF at[p] = "left" THEN tree.leftcmd ELSE tree.rightcmd
      /\ os'.fd[p] = IF at[p] = "left" THEN [os.fd[p] EXCEPT ![Stdout] = WriteEnd(p)]
                     ELSE [os.fd[p] EXCEPT ![Stdin] = ReadEnd(p)]
  <2>1. CASE LeftChild(p) BY <2>1, LeftChildIs
  <2>2. CASE RightChild(p) BY <2>2, RightChildIs
  <2> QED BY <2>1, <2>2
<1>2. /\ line \in Lines /\ tree \in Parts(line) /\ tree.type = "PIPE"
      /\ StartOf(at[p], mem[p]) \in Nat
  BY <1>1 DEF Pipeline, Parsed, Carries, Staged
<1>3. mem'[p].line = line BY <1>1, FieldsAre DEF Keeps
<1>4. /\ tree.leftcmd \in Parts(line) /\ tree.rightcmd \in Parts(line)
      /\ tree.leftcmd.type # "PIPE"
  BY <1>2, PlacesAre
<1>5. StartOf("exec", mem'[p]) = StartOf(at[p], mem[p]) BY <1>1, <1>3 DEF StartOf
<1>6. Parsed'
  <2>1. Carries(at'[p], mem'[p]) BY <1>1, <1>2, <1>3, <1>4, <1>5 DEF Carries, Staged
  <2> QED BY <1>1, <2>1, ParsedOthers DEF Pipeline
<1>7. InEnd(p)' = InEnd(p) /\ OutEnd(p)' = OutEnd(p)
  <2>1. DOMAIN os.fd[p] = {Stdin, Stdout, Stderr} BY Constants DEF Typed, IsSystem
  <2>2. InEnd(p)' = os'.fd[p][Stdin] /\ OutEnd(p)' = os'.fd[p][Stdout]
    BY <1>1 DEF InEnd, OutEnd
  <2>3. CASE at[p] = "left"
    <3>1. InEnd(p) = os.fd[p][Stdin] /\ OutEnd(p) = WriteEnd(p) BY <2>3 DEF InEnd, OutEnd
    <3>2. os'.fd[p] = [os.fd[p] EXCEPT ![Stdout] = WriteEnd(p)] BY <1>1, <2>3
    <3> HIDE DEF tree, line, place
    <3>3. os'.fd[p][Stdin] = os.fd[p][Stdin] /\ os'.fd[p][Stdout] = WriteEnd(p)
      BY <2>1, <3>2, Constants
    <3> QED BY <2>2, <3>1, <3>3
  <2>4. CASE at[p] = "right"
    <3>1. InEnd(p) = ReadEnd(p) /\ OutEnd(p) = os.fd[p][Stdout] BY <2>4 DEF InEnd, OutEnd
    <3>2. os'.fd[p] = [os.fd[p] EXCEPT ![Stdin] = ReadEnd(p)] BY <1>1, <2>4
    <3>3. os'.fd[p][Stdin] = ReadEnd(p) /\ os'.fd[p][Stdout] = os.fd[p][Stdout]
      BY <2>1, <3>2, Constants
    <3> QED BY <2>2, <3>1, <3>3
  <2> QED BY <1>1, <2>3, <2>4
<1>8. Becomes(p, p)
  <2>1. Start(p)' = Start(p) BY <1>1, <1>5 DEF Start
  <2>2. Splits(p)' => Splits(p) BY <1>1, <1>4 DEF Splits
  <2> QED BY <1>1, <1>7, <2>1, <2>2 DEF Becomes, Staged, Still
<1> QED BY <1>1, <1>6, <1>8, GoesOn DEF Pipeline, Still

(* A step to where a process has no place in the line. *)
LEMMA LineLeaves ==
  ASSUME Typed, Pipeline, NEW p \in Pids, Apart({p}), os'.group = os.group,
         at'[p] \notin Staged, Carries(at'[p], mem'[p])
  PROVE  Parsed' /\ OneOwner' /\ InLine'
<1>1. Parsed' BY ParsedOthers DEF Pipeline
<1> QED BY <1>1, StaysOrLeaves DEF Pipeline

(* A program goes on. *)
LEMMA LineRuns ==
  ASSUME Typed, Pipeline, NEW p \in Pids, at[p] = "prog", Local(p, "prog", {"todo", "eof"})
  PROVE  Parsed' /\ OneOwner' /\ InLine'
<1>1. /\ at'[p] = "prog" /\ SameFds(p) /\ Still /\ Apart({p})
      /\ mem'[p].line = mem[p].line /\ mem'[p].prog = mem[p].prog
  BY FieldsAre DEF Local, Keeps
<1>2. StartOf("prog", mem'[p]) = StartOf("prog", mem[p]) BY <1>1 DEF StartOf
<1>3. Parsed'
  <2>1. StartOf("prog", mem[p]) \in Nat BY DEF Pipeline, Parsed, Carries, Staged
  <2>2. Carries("prog", mem'[p]) BY <1>2, <2>1 DEF Carries
  <2> QED BY <1>1, <2>2, ParsedOthers DEF Pipeline
<1>4. Becomes(p, p)
  <2>1. Start(p)' = Start(p) BY <1>1, <1>2 DEF Start
  <2>2. InEnd(p)' = InEnd(p) /\ OutEnd(p)' = OutEnd(p) BY <1>1 DEF InEnd, OutEnd, SameFds
  <2> QED BY <1>1, <2>1, <2>2 DEF Becomes, Staged, Splits, Still
<1> QED BY <1>1, <1>3, <1>4, GoesOn DEF Pipeline, Still

(* A child of the shell has no place in a line yet.                        *)
LEMMA LineFork ==
  ASSUME Typed, Pipeline, NEW p \in Pids, RunCmdFork(p)
  PROVE  Parsed' /\ OneOwner' /\ InLine'
<1>1. at[p] = "fork" /\ Outcome(p, os.open[p], "wait", "child", "pid") BY RunCmdForkIs
<1>2. Carries("wait", mem'[p]) BY DEF Carries, Staged
<1>3. CASE Still /\ Apart({p}) /\ at'[p] = "wait"
  <2>1. at'[p] \notin Staged BY <1>3 DEF Staged
  <2> QED BY <1>2, <1>3, <2>1, LineLeaves DEF Still
<1>4. ASSUME NEW c \in Pids, Begets(p, c, "wait", "child", "pid")
      PROVE  Parsed' /\ OneOwner' /\ InLine'
  <2>1. /\ Apart({p, c}) /\ at'[p] = "wait" /\ at'[c] = "child" /\ mem'[c] = mem[p]
        /\ \A q \in Pids \ {c} : os'.group[q] = os.group[q]
    BY <1>4 DEF Begets, Typed, IsSystem
  <2>2. at[c] \notin Staged BY <1>4 DEF Begets, Typed, Live, Running, Staged
  <2>3. Parsed'
    <3>1. Carries("child", mem[p]) BY <1>1 DEF Pipeline, Parsed, Carries, Staged
    <3> QED BY <1>2, <2>1, <3>1, ParsedOthers DEF Pipeline
  <2>4. at'[p] \notin Staged /\ at'[c] \notin Staged BY <2>1 DEF Staged
  <2> QED BY <2>1, <2>2, <2>3, <2>4, HandsOn DEF Pipeline
<1> QED BY <1>1, <1>3, <1>4 DEF Outcome

(* Whatever the step, the line stays in order. *)
LEMMA LineStays ==
  ASSUME Typed, Family, Pipeline, ParsedInOrder, NEW p \in Pids, Step(p) \/ sigchld_handler(p)
  PROVE  Parsed' /\ OneOwner' /\ InLine'
<1>1. \A l \in {"prompt", "wait", "wait_left", "wait_right"} :
        l \notin Staged /\ \A m : Carries(l, m)
  BY DEF Carries, Staged
<1>2. CASE ReadLine(p)
  <2>1. CASE Ends(p, Exited(0)) BY <2>1, LineEnds
  <2>2. CASE ~Ends(p, Exited(0))
    <3>1. PICK line \in Lines : mem'[p].line = line /\ mem'[p].tree = parse_line[line]
      BY <1>2, <2>2, ReadLineIs
    <3>2. at'[p] = "fork" /\ Still /\ Apart({p}) BY <1>2, <2>2, ReadLineIs DEF Local
    <3>3. Carries("fork", mem'[p]) BY <3>1, PlacesAre DEF Carries, Staged
    <3>4. at'[p] \notin Staged BY <3>2 DEF Staged
    <3> QED BY <3>2, <3>3, <3>4, LineLeaves DEF Still
  <2> QED BY <2>1, <2>2
<1>3. CASE RunCmdFork(p) BY <1>3, LineFork
<1>4. CASE RunCmdChild(p) BY <1>4, LineRegroups
<1>5. CASE RunCmdWait(p)
  <2>1. at'[p] = "prompt" /\ Apart({p}) /\ os'.group = os.group
    BY <1>5, RunCmdWaitIs DEF Takes, Still
  <2> QED BY <1>1, <2>1, LineLeaves
<1>6. CASE ExecCommand(p) BY <1>6, LineProgram
<1>7. CASE ExecPipe(p) BY <1>7, LineSplits
<1>8. CASE ForkRight(p) BY <1>8, LineRight
<1>9. CASE ClosePipe(p)
  <2>1. CASE Ends(p, Exited(EXIT_FAILURE)) BY <2>1, LineEnds
  <2>2. CASE ~Ends(p, Exited(EXIT_FAILURE))
    <3>1. at'[p] = "wait_left" /\ Apart({p}) /\ os'.group = os.group
      BY <1>9, <2>2, ClosePipeIs DEF Still
    <3> QED BY <1>1, <3>1, LineLeaves
  <2> QED BY <2>1, <2>2
<1>10. CASE LeftChild(p) \/ RightChild(p) BY <1>10, LineChild
<1>11. CASE WaitLeft(p)
  <2>1. at'[p] = "wait_right" /\ Apart({p}) /\ os'.group = os.group
    BY <1>11, WaitLeftIs DEF Takes, Still
  <2> QED BY <1>1, <2>1, LineLeaves
<1>12. CASE WaitRight(p) BY <1>12, WaitRightIs, LineEnds
<1>13. CASE ProgramRead(p) \/ ProgramWrite(p) \/ ProgramExit(p)
  <2>1. CASE \E word : Ends(p, word) BY <2>1, LineEnds
  <2>2. CASE Local(p, "prog", {"todo", "eof"}) BY <1>13, <2>2, ProgramIs, LineRuns
  <2> QED BY <1>13, <2>1, <2>2, ProgramIs
<1>14. CASE sigchld_handler(p)
  <2>1. /\ at' = at /\ mem' = mem /\ Apart({p}) /\ SameFds(p) /\ os'.group = os.group
    BY <1>14, HandlerIs DEF Takes
  <2>2. Parsed' BY <2>1 DEF Pipeline, Parsed, Carries, StartOf
  <2> QED BY <2>1, <2>2, StaysOrLeaves DEF Pipeline
<1> QED
  BY <1>2, <1>3, <1>4, <1>5, <1>6, <1>7, <1>8, <1>9, <1>10, <1>11, <1>12, <1>13, <1>14
  DEF Step

(* A step of the system keeps the pipelines wired. *)
LEMMA LineStep ==
  ASSUME Typed, Family, Pipeline, ParsedInOrder, NEW p \in Pids, Step(p) \/ sigchld_handler(p)
  PROVE  Pipeline'
<1>1. Parsed' /\ OneOwner' /\ InLine' BY LineStays
<1>2. Descriptors' BY DescriptorsStep DEF Pipeline
<1> QED BY <1>1, <1>2 DEF Pipeline
-----------------------------------------------------------------------------
(* The theorems *)

(* The processes, with their types, parents, groups and the shell's command. *)
Household == Typed /\ Family /\ Command

(* A step is some process's.                                               *)
LEMMA NextIs ==
  ASSUME Next
  PROVE  \E p \in Pids : Step(p) \/ sigchld_handler(p)
  BY DEF Next

(* The initial state.                                                      *)
LEMMA HouseholdInit == Init => Household
  BY InitTyped, InitFamily, InitCommand DEF Household

(* Every step keeps the three invariants.                                  *)
LEMMA HouseholdNext == Household /\ [Next]_vars => Household'
<1> SUFFICES ASSUME Household, [Next]_vars PROVE Household' OBVIOUS
<1>1. Typed /\ Family /\ Command BY DEF Household
<1>2. CASE Next
  <2>1. PICK p \in Pids : Step(p) \/ sigchld_handler(p) BY <1>2, NextIs
  <2>2. Typed' /\ TreeStep(p) BY <1>1, <2>1, TreeStepIs
  <2>3. Family' BY <1>1, <2>2, FamilyStep
  <2>4. Command' BY <1>1, <2>1, CommandStep
  <2> QED BY <2>2, <2>3, <2>4 DEF Household
<1>3. CASE UNCHANGED vars
  <2>1. os' = os /\ at' = at /\ mem' = mem BY <1>3 DEF vars
  <2>2. Typed' BY <1>1, <2>1 DEF Typed, IsSystem, Running
  <2>3. Family' BY <1>1, <2>1 DEF Family, Live, Running, Rooted
  <2>4. Command' BY <1>1, <2>1 DEF Command, Live
  <2> QED BY <2>2, <2>3, <2>4 DEF Household
<1> QED BY <1>2, <1>3

(* The processes, their family and the shell's command are always as stated. *)
THEOREM HouseholdInvariance == Spec => []Household
  BY HouseholdInit, HouseholdNext, PTL DEF Spec

(* Type correctness, and a family of processes in which nobody is its own  *)
(* ancestor, every parent runs, and only the shell prompts.                *)
THEOREM TypeCorrect == Spec => [](Typed /\ Family)
<1>1. Household => Typed /\ Family BY DEF Household
<1> QED BY <1>1, HouseholdInvariance, PTL

(* The shell's own wait takes the command in the foreground, never the     *)
(* handler of SIGCHLD, and reports that command's status (sh.c:28,         *)
(* runcmd.c:47-63): the handler knows the shell's group only, and such a   *)
(* command is still to enter its own, or has.                              *)
THEOREM ForegroundReapedByWaitHolds == Spec => ForegroundReapedByWait
<1> DEFINE Kept ==
      at[sh] = "wait" /\ mem[sh].tree.type # "BACK" /\ mem[sh].pid # -1 =>
          IF at'[sh] = "prompt"
          THEN /\ Zombie(os, mem[sh].pid)
               /\ mem'[sh].status = StatusInfo(mem[sh].tree, os.status[mem[sh].pid])
          ELSE Zombie(os, mem[sh].pid) => Zombie(os', mem[sh].pid)
<1>1. Household /\ [Next]_vars => [Kept]_vars
  <2> SUFFICES ASSUME Household, Next PROVE Kept OBVIOUS
  <2>1. PICK p \in Pids : Step(p) \/ sigchld_handler(p) BY NextIs
  <2> QED BY <2>1, ForegroundStep DEF Household
<1>2. Spec => [][Kept]_vars BY <1>1, HouseholdInvariance, PTL DEF Spec
<1> QED BY <1>2 DEF ForegroundReapedByWait

(* A step in which no right fork fails keeps Attended and Over.            *)
LEMMA AttendedNext ==
  Household /\ Attended /\ Over /\ [Next]_vars /\ [RightForks]_vars => Attended' /\ Over'
<1> SUFFICES ASSUME Household, Attended, Over, [Next]_vars, [RightForks]_vars
             PROVE  Attended' /\ Over'
  OBVIOUS
<1>1. CASE UNCHANGED vars
  <2>1. os' = os /\ at' = at /\ mem' = mem BY <1>1 DEF vars
  <2>2. Attended' BY <2>1 DEF Attended, Attends, Running
  <2>3. Over' BY <2>1 DEF Over, Empty, Running, Zombie, SuccessMeansOver
  <2> QED BY <2>2, <2>3
<1>2. CASE vars' # vars
  <2>1. Next /\ RightForks BY <1>2
  <2>2. PICK p \in Pids : Step(p) \/ sigchld_handler(p) BY <2>1, NextIs
  <2>3. Attended' BY <2>1, <2>2, AttendedStep DEF Household
  <2>4. Over' BY <2>2, OverStep DEF Household
  <2> QED BY <2>3, <2>4
<1> QED BY <1>1, <1>2

(* When the shell says that a command has succeeded no process of it is left *)
(* (exec.c:221-225), provided that a pipe's right process can be made      *)
(* (exec.c:204-211) wherever another pipe waits for this one.              *)
THEOREM SuccessMeansOverHolds == Spec /\ [][RightForks]_vars => []SuccessMeansOver
<1>1. Init => Attended /\ Over BY InitAttended
<1>2. Over => SuccessMeansOver BY DEF Over
<1>3. Spec /\ [][RightForks]_vars => [](Attended /\ Over)
  BY <1>1, AttendedNext, HouseholdInvariance, PTL DEF Spec
<1> QED BY <1>2, <1>3, PTL

(* Every step keeps the pipelines wired, for lines parsed in order.        *)
LEMMA PipelineNext ==
  ASSUME ParsedInOrder
  PROVE  Household /\ Pipeline /\ [Next]_vars => Pipeline'
<1> SUFFICES ASSUME Household, Pipeline, [Next]_vars PROVE Pipeline' OBVIOUS
<1>1. CASE Next
  <2>1. PICK p \in Pids : Step(p) \/ sigchld_handler(p) BY <1>1, NextIs
  <2> QED BY <2>1, LineStep DEF Household
<1>2. CASE UNCHANGED vars
  <2>1. os' = os /\ at' = at /\ mem' = mem BY <1>2 DEF vars
  <2>2. Descriptors' BY <2>1 DEF Pipeline, Descriptors, Fits
  <2>3. \A q \in Pids : InEnd(q)' = InEnd(q) /\ OutEnd(q)' = OutEnd(q) /\ Start(q)' = Start(q)
                        /\ (Splits(q)' <=> Splits(q))
    BY <2>1 DEF InEnd, OutEnd, ReadEnd, WriteEnd, Start, Splits
  <2>4. OneOwner' BY <2>1, <2>3 DEF Pipeline, OneOwner
  <2>5. Parsed' BY <2>1 DEF Pipeline, Parsed, Carries, StartOf
  <2>6. InLine' BY <2>1, <2>3 DEF Pipeline, InLine, Follows
  <2> QED BY <2>2, <2>4, <2>5, <2>6 DEF Pipeline
<1> QED BY <1>1, <1>2

(* What the invariant says of the programs.                                *)
LEMMA PipelineWires ==
  ASSUME Household, Pipeline
  PROVE  PipesWired
<1>1. Typed /\ Family /\ Descriptors /\ OneOwner /\ InLine BY DEF Household, Pipeline
<1>2. ASSUME NEW p \in Pids, at[p] = "prog"
      PROVE  /\ Fits("prog", os.fd[p], os.open[p]) /\ os.open[p] = {}
             /\ Held(os, p) = {Input(p), Output(p), os.fd[p][Stderr]}
             /\ InEnd(p) = Input(p) /\ OutEnd(p) = Output(p) /\ Start(p) = Place(p)
             /\ at[p] \in Staged /\ Live(p)
  <2>1. Fits("prog", os.fd[p], os.open[p]) BY <1>1, <1>2 DEF Descriptors
  <2>2. os.open[p] = {} BY <2>1 DEF Fits, Forked
  <2>3. Held(os, p) = {Input(p), Output(p), os.fd[p][Stderr]}
    <3>1. DOMAIN os.fd[p] = {Stdin, Stdout, Stderr} BY <1>1, Constants DEF Typed, IsSystem
    <3>2. Range(os.fd[p]) = {os.fd[p][Stdin], os.fd[p][Stdout], os.fd[p][Stderr]}
      BY <3>1 DEF Range
    <3> QED BY <2>2, <3>2 DEF Held, Input, Output
  <2>4. InEnd(p) = Input(p) /\ OutEnd(p) = Output(p) BY <1>2 DEF InEnd, OutEnd, Input, Output
  <2>5. Start(p) = Place(p) BY <1>2 DEF Start, StartOf, Place
  <2>6. at[p] \in Staged /\ Live(p) BY <1>1, <1>2 DEF Staged, Typed, Running, Live
  <2> QED BY <2>1, <2>2, <2>3, <2>4, <2>5, <2>6
<1>3. ASSUME NEW p \in Pids, at[p] = "prog", NEW e \in Held(os, p)
      PROVE  /\ e[1] = "read" => e = InEnd(p)
             /\ e[1] = "write" => e = OutEnd(p)
  <2>1. e \in {Input(p), Output(p), os.fd[p][Stderr]} BY <1>2, <1>3
  <2>2. Input(p)[1] # "write" /\ Output(p)[1] # "read"
        /\ \/ os.fd[p][Stderr][1] \notin {"read", "write"}
           \/ os.fd[p][Stderr] = Output(p)
    BY <1>2, <1>3 DEF Fits, Input, Output
  <2> QED BY <1>2, <1>3, <2>1, <2>2
<1>4. ASSUME NEW p \in Pids, NEW q \in Pids \ {p}, at[p] = "prog", at[q] = "prog",
             NEW e \in Held(os, p) \cap Held(os, q)
      PROVE  e[1] \notin {"read", "write"}
  <2>1. at[p] \in Staged /\ at[q] \in Staged BY <1>2, <1>4
  <2>2. /\ InEnd(p)[1] = "read" => InEnd(p) # InEnd(q)
        /\ OutEnd(p)[1] = "write" => OutEnd(p) # OutEnd(q)
    BY <1>1, <2>1 DEF OneOwner
  <2> QED BY <1>3, <1>4, <2>2
<1>5. ASSUME NEW p \in Pids, NEW q \in Pids \ {p}, at[p] = "prog", at[q] = "prog",
             SameLine(p, q), Place(q) = Place(p) + 1
      PROVE  \/ Output(p)[1] = "file" \/ Input(q)[1] = "file"
             \/ \E k \in 1..NPipe : Output(p) = W(k) /\ Input(q) = R(k)
  <2>1. os.group[p] # sh /\ os.group[p] = os.group[q]
    BY <1>1, <1>2, <1>5 DEF SameLine, Family
  <2>2. at[p] \in Staged /\ at[q] \in Staged /\ Start(q) = Start(p) + 1 BY <1>2, <1>5
  <2>3. Follows(p, q) BY <1>1, <2>1, <2>2 DEF InLine
  <2> QED BY <1>2, <1>5, <2>3 DEF Follows
<1> QED BY <1>2, <1>4, <1>5 DEF PipesWired

(* For every set of lines whose words tell their places, the programs of a *)
(* pipeline hold their standard descriptors only, share no end of a pipe, and *)
(* are wired in the order in which they were typed (exec.c:186-231).       *)
THEOREM PipesWiredHolds ==
  ASSUME ParsedInOrder
  PROVE  Spec => []PipesWired
<1>1. Init => Pipeline BY InitDescriptors DEF Pipeline
<1>2. Household /\ Pipeline /\ [Next]_vars => Pipeline' BY PipelineNext
<1>3. Spec => []Pipeline BY <1>1, <1>2, HouseholdInvariance, PTL DEF Spec
<1>4. Household /\ Pipeline => PipesWired BY PipelineWires
<1> QED BY <1>3, <1>4, HouseholdInvariance, PTL

-----------------------------------------------------------------------------
(* Timeout, with its constant and the variables that are its own *)
CONSTANT Commands
VARIABLES command, timer
T == INSTANCE Timeout

(* The system of Timeout is that of Shell. *)
LEMMA TimeoutSystem ==
    /\ T!Pids = Pids /\ T!InitPid = InitPid
    /\ \A o, p, st : T!Exit(o, p, st) = Exit(o, p, st)
    /\ \A o, p, c : T!Fork(o, p, c) = Fork(o, p, c)
    /\ \A o, B : T!Reap(o, B) = Reap(o, B)
    /\ \A o : T!FreePids(o) = FreePids(o)
    /\ \A o : T!NewPid(o) = NewPid(o)
    /\ \A o, p : T!Children(o, p) = Children(o, p)
    /\ \A o, p, c : T!Done(o, p, c) = Done(o, p, c)
    /\ \A o, p, c : T!WaitReturns(o, p, c) <=> WaitReturns(o, p, c)
    /\ \A o, p : T!Zombie(o, p) <=> Zombie(o, p)
<1>1. T!Pids = Pids /\ T!InitPid = InitPid BY DEF T!Pids, Pids, T!InitPid, InitPid
<1>2. \A o, p : T!Zombie(o, p) <=> Zombie(o, p) BY DEF T!Zombie, Zombie
<1>3. \A o, p : T!Children(o, p) = Children(o, p) BY <1>1 DEF T!Children, Children
<1>4. \A o, p, st : T!Exit(o, p, st) = Exit(o, p, st)
  <2> SUFFICES ASSUME NEW o, NEW p, NEW st PROVE T!Exit(o, p, st) = Exit(o, p, st)
    OBVIOUS
  <2>1. [n \in T!Stdin..T!Stderr |-> T!Closed] = [n \in Stdin..Stderr |-> Closed]
    BY Zenon DEF T!Stdin, T!Stderr, Stdin, Stderr, T!Closed, Closed
  <2>2. [c \in T!Pids |-> IF c = p THEN IF o.parent[p] = T!InitPid THEN "none" ELSE "zombie"
                 ELSE IF c \in T!Children(o, p) /\ T!Zombie(o, c) THEN "none" ELSE o.state[c]]
        = [c \in Pids |-> IF c = p THEN IF o.parent[p] = InitPid THEN "none" ELSE "zombie"
                 ELSE IF c \in Children(o, p) /\ Zombie(o, c) THEN "none" ELSE o.state[c]]
    BY <1>1, <1>2, <1>3
  <2>3. [c \in T!Pids |-> IF c \in T!Children(o, p) THEN T!InitPid ELSE o.parent[c]]
        = [c \in Pids |-> IF c \in Children(o, p) THEN InitPid ELSE o.parent[c]]
    BY <1>1, <1>3
  <2> QED BY <1>1, <2>1, <2>2, <2>3, Zenon DEF T!Exit, Exit
<1>5. \A o, p, c : T!Fork(o, p, c) = Fork(o, p, c)
  BY DEF T!Fork, Fork, T!Exited, Exited
<1>6. \A o, B : T!Reap(o, B) = Reap(o, B) BY <1>1 DEF T!Reap, Reap
<1>7. \A o : T!FreePids(o) = FreePids(o) BY <1>1 DEF T!FreePids, FreePids
<1>8. \A o : T!NewPid(o) = NewPid(o) BY <1>7 DEF T!NewPid, NewPid, T!Lowest, Lowest
<1>9. \A o, p, c : T!Done(o, p, c) = Done(o, p, c)
  BY <1>2, <1>3 DEF T!Done, Done, T!Awaited, Awaited, T!AnyChild, AnyChild
<1>10. \A o, p, c : T!WaitReturns(o, p, c) <=> WaitReturns(o, p, c)
  BY <1>3, <1>9 DEF T!WaitReturns, WaitReturns, T!Awaited, Awaited, T!AnyChild, AnyChild
<1> QED BY <1>1, <1>2, <1>3, <1>4, <1>5, <1>6, <1>7, <1>8, <1>9, <1>10

(* timeout is process 1; its command, once it is forked, the only other.   *)
Waiting == {"parent", "wait", "handler", "delete"}
TimeoutTyped ==
    /\ IsSystem(os) /\ DOMAIN mem = Pids
    /\ at \in [Pids -> {"main", "child", "command", "gone"} \cup Waiting]
    /\ \A p \in Pids : Running(os, p) <=> at[p] # "gone"
    /\ \A p \in Pids \ {1} : at[p] \in {"child", "command", "gone"}
    /\ at[1] \notin {"child", "command"} /\ os.parent[1] = InitPid

(* Nobody but timeout and its command; the command has ended when timeout  *)
(* goes on to delete the timer.                                            *)
CommandKnown ==
    /\ at[1] = "main" =>
          mem[1] = [pid |-> 0] /\ \A p \in Pids \ {1} : os.state[p] = "none"
    /\ at[1] \in Waiting =>
          LET c == mem[1].pid IN
          /\ c \in Pids \ {1} /\ os.parent[c] = 1
          /\ \A p \in Pids \ {1, c} : os.state[p] = "none"
          /\ at[1] = "delete" => ~Running(os, c)
    /\ at[1] = "gone" => \A p \in Pids : at[p] = "gone"

TimeoutInv == TimeoutTyped /\ CommandKnown

(* A process that runs beside timeout is its command. *)
LEMMA OnlyCommand ==
  ASSUME TimeoutInv, NEW c \in Pids \ {1}, Running(os, c)
  PROVE  at[1] \in Waiting \ {"delete"} /\ c = mem[1].pid
<1>1. at[1] \in {"main", "gone"} \cup Waiting
  BY Constants DEF TimeoutInv, TimeoutTyped
<1>2. at[1] \notin {"main", "gone"} BY DEF TimeoutInv, TimeoutTyped, CommandKnown, Running
<1> QED BY <1>1, <1>2 DEF TimeoutInv, CommandKnown, Running

(* What the end of a process leaves, of the system as it is. *)
LEMMA ExitNow ==
  ASSUME IsSystem(os), NEW p \in Pids, Running(os, p), NEW word, os' = Exit(os, p, word)
  PROVE  /\ IsSystem(os')
         /\ os'.state[p] = IF os.parent[p] = InitPid THEN "none" ELSE "zombie"
         /\ \A q \in Pids \ {p} :
              os'.state[q] = os.state[q] \/ (os.state[q] = "zombie" /\ os'.state[q] = "none")
         /\ \A q \in Pids :
              os'.parent[q] = IF os.state[q] # "none" /\ os.parent[q] = p THEN InitPid ELSE os.parent[q]
<1>1. /\ IsSystem(os')
      /\ os'.state[p] = IF os.parent[p] = InitPid THEN "none" ELSE "zombie"
      /\ \A q \in Pids \ {p} :
           os'.state[q] = os.state[q] \/ (os.state[q] = "zombie" /\ os'.state[q] = "none")
      /\ \A q \in Pids :
           os'.parent[q] = IF os.state[q] # "none" /\ os.parent[q] = p THEN InitPid ELSE os.parent[q]
      /\ \A q \in Pids \ {p} : os.parent[q] # p => os'.state[q] = os.state[q]
      /\ os'.group = os.group
      /\ os'.status = [os.status EXCEPT ![p] = word]
      /\ os'.fd = [os.fd EXCEPT ![p] = [n \in Stdin..Stderr |-> Closed]]
      /\ os'.open = [os.open EXCEPT ![p] = {}]
      /\ os'.buf = os.buf
  BY ExitIs
<1> QED BY <1>1

(* timeout ends, after its command. *)
LEMMA TimeoutDies ==
  ASSUME TimeoutInv, Running(os, 1), \A q \in Pids \ {1} : ~Running(os, q),
         NEW word, os' = Exit(os, 1, word), at' = [at EXCEPT ![1] = "gone"], DOMAIN mem' = Pids
  PROVE  TimeoutInv'
<1>1. IsSystem(os) /\ 1 \in Pids BY Constants DEF TimeoutInv, TimeoutTyped
<1>2. /\ IsSystem(os') /\ os.parent[1] = InitPid /\ os'.parent[1] = InitPid
      /\ os'.state[1] = "none"
      /\ \A c \in Pids \ {1} : os'.state[c] = os.state[c] \/ os'.state[c] = "none"
  <2>1. /\ IsSystem(os')
        /\ os'.state[1] = IF os.parent[1] = InitPid THEN "none" ELSE "zombie"
        /\ \A q \in Pids \ {1} :
             os'.state[q] = os.state[q] \/ (os.state[q] = "zombie" /\ os'.state[q] = "none")
        /\ \A q \in Pids :
             os'.parent[q] = IF os.state[q] # "none" /\ os.parent[q] = 1 THEN InitPid ELSE os.parent[q]
    <3>1. 1 \in Pids BY <1>1
    <3> QED BY <1>1, <3>1, ExitNow
  <2>2. os.parent[1] = InitPid /\ InitPid # 1 BY Constants DEF TimeoutInv, TimeoutTyped
  <2> QED BY <1>1, <2>1, <2>2
<1>3. \A q \in Pids : at'[q] = "gone" BY <1>1 DEF TimeoutInv, TimeoutTyped
<1>4. \A q \in Pids : ~Running(os', q) BY <1>2 DEF Running
<1>5. TimeoutTyped' BY <1>1, <1>2, <1>3, <1>4 DEF TimeoutInv, TimeoutTyped, Waiting
<1>6. CommandKnown' BY <1>1, <1>3 DEF CommandKnown, Waiting
<1> QED BY <1>5, <1>6 DEF TimeoutInv

(* The command ends while timeout is still there: TimeoutInv keeps it known. *)
LEMMA CommandKilled ==
  ASSUME TimeoutInv, NEW c \in Pids \ {1}, Running(os, c), NEW word, os' = Exit(os, c, word),
         NEW l \in Waiting, at' = [at EXCEPT ![1] = l, ![c] = "gone"],
         DOMAIN mem' = Pids, mem'[1] = mem[1]
  PROVE  TimeoutInv'
<1>1. IsSystem(os) /\ 1 \in Pids BY Constants DEF TimeoutInv, TimeoutTyped
<1>2. at[1] \in Waiting /\ c = mem[1].pid BY OnlyCommand
<1>3. os.parent[c] = 1 /\ os.parent[1] = InitPid /\ 1 # InitPid
      /\ \A p \in Pids \ {1, c} : os.state[p] = "none"
  BY <1>2, Constants DEF TimeoutInv, TimeoutTyped, CommandKnown
<1>4. /\ IsSystem(os') /\ os'.state[c] = "zombie" /\ os'.state[1] = os.state[1]
      /\ os'.parent[c] = 1 /\ os'.parent[1] = InitPid
      /\ \A p \in Pids \ {1, c} : os'.state[p] = "none"
  <2>1. /\ IsSystem(os')
        /\ os'.state[c] = IF os.parent[c] = InitPid THEN "none" ELSE "zombie"
        /\ \A q \in Pids \ {c} :
             os'.state[q] = os.state[q] \/ (os.state[q] = "zombie" /\ os'.state[q] = "none")
        /\ \A q \in Pids :
             os'.parent[q] = IF os.state[q] # "none" /\ os.parent[q] = c THEN InitPid ELSE os.parent[q]
    <3>1. c \in Pids BY <1>1
    <3> QED BY <1>1, <3>1, ExitNow
  <2>2. Running(os, 1) BY <1>1, <1>2 DEF TimeoutInv, TimeoutTyped, Waiting
  <2> QED BY <1>1, <1>3, <2>1, <2>2 DEF Running
<1>5. /\ at'[1] = l /\ at'[c] = "gone" /\ \A q \in Pids \ {1, c} : at'[q] = at[q]
      /\ at' \in [Pids -> {"main", "child", "command", "gone"} \cup Waiting]
  BY <1>1 DEF TimeoutInv, TimeoutTyped
<1>6. \A q \in Pids : Running(os', q) <=> at'[q] # "gone"
  <2>1. \A q \in Pids \ {1, c} : ~Running(os, q) BY <1>3 DEF Running
  <2>2. Running(os, 1) /\ l # "gone" BY <1>1, <1>2 DEF TimeoutInv, TimeoutTyped, Waiting
  <2> QED BY <1>4, <1>5, <2>1, <2>2 DEF TimeoutInv, TimeoutTyped, Running
<1>7. TimeoutTyped' BY <1>4, <1>5, <1>6 DEF TimeoutInv, TimeoutTyped, Waiting
<1>8. CommandKnown' BY <1>2, <1>4, <1>5 DEF CommandKnown, Waiting, Running
<1> QED BY <1>7, <1>8 DEF TimeoutInv

(* A step by which timeout or its command goes on, taking ended children. *)
LEMMA TimeoutGoes ==
  ASSUME TimeoutInv, NEW p \in Pids, at[p] # "gone", at[p] # "main", NEW B,
         os' = os \/ (os' = Reap(os, B) /\ \A z \in B : Zombie(os, z)),
         NEW l, at' = [at EXCEPT ![p] = l], mem' = mem,
         l \in IF p = 1 THEN Waiting ELSE {"child", "command"},
         p = 1 /\ l = "delete" => \A q \in Pids \ {1} : ~Running(os, q)
  PROVE  TimeoutInv'
<1>1. IsSystem(os) /\ 1 \in Pids BY Constants DEF TimeoutInv, TimeoutTyped
<1>2. /\ IsSystem(os') /\ os'.parent = os.parent
      /\ \A q \in Pids : Running(os', q) <=> Running(os, q)
      /\ \A q \in Pids : os.state[q] = "none" => os'.state[q] = "none"
  <2>1. CASE os' = os BY <1>1, <2>1
  <2>2. CASE os' = Reap(os, B) /\ \A z \in B : Zombie(os, z)
    <3>1. /\ IsSystem(os') /\ os'.parent = os.parent
          /\ os'.state = [c \in Pids |-> IF c \in B THEN "none" ELSE os.state[c]]
      BY <1>1, <2>2, ReapIs DEF IsSystem
    <3> QED BY <2>2, <3>1 DEF Running, Zombie
  <2> QED BY <2>1, <2>2
<1>3. at'[p] = l /\ \A q \in Pids \ {p} : at'[q] = at[q]
  BY DEF TimeoutInv, TimeoutTyped
<1>4. at[1] \in Waiting /\ at'[1] \in Waiting
  <2>1. CASE p = 1 BY <1>1, <1>3, <2>1 DEF TimeoutInv, TimeoutTyped
  <2>2. CASE p # 1
    <3>1. Running(os, p) BY DEF TimeoutInv, TimeoutTyped
    <3> QED BY <1>1, <1>3, <2>2, <3>1, OnlyCommand
  <2> QED BY <2>1, <2>2
<1>5. TimeoutTyped'
  <2>1. at' \in [Pids -> {"main", "child", "command", "gone"} \cup Waiting]
    BY DEF TimeoutInv, TimeoutTyped
  <2>2. \A q \in Pids \ {1} : at'[q] \in {"child", "command", "gone"}
    BY <1>3 DEF TimeoutInv, TimeoutTyped
  <2>3. \A q \in Pids : Running(os', q) <=> at'[q] # "gone"
    BY <1>2, <1>3 DEF TimeoutInv, TimeoutTyped, Waiting
  <2>4. DOMAIN mem' = Pids /\ os'.parent[1] = InitPid /\ at'[1] \notin {"child", "command"}
    BY <1>2, <1>4 DEF TimeoutInv, TimeoutTyped, Waiting
  <2> QED BY <1>2, <2>1, <2>2, <2>3, <2>4 DEF TimeoutTyped
<1>6. CommandKnown'
  <2> DEFINE c == mem[1].pid
  <2>1. /\ c \in Pids \ {1} /\ os.parent[c] = 1
        /\ \A q \in Pids \ {1, c} : os.state[q] = "none"
        /\ at[1] = "delete" => ~Running(os, c)
    BY <1>4 DEF TimeoutInv, CommandKnown
  <2>2. at'[1] = "delete" => ~Running(os, c)
    <3>1. CASE p = 1 BY <1>3, <2>1, <3>1
    <3>2. CASE p # 1 BY <1>1, <1>3, <2>1, <3>2
    <3> QED BY <3>1, <3>2
  <2>3. at'[1] \notin {"main", "gone"} BY <1>4 DEF Waiting
  <2> QED BY <1>2, <2>1, <2>2, <2>3 DEF CommandKnown
<1> QED BY <1>5, <1>6 DEF TimeoutInv

(* A wait that returns has taken the command. *)
LEMMA WaitEndsCommand ==
  ASSUME TimeoutInv, at[1] \in Waiting, WaitReturns(os, 1, AnyChild)
  PROVE  /\ \A q \in Pids \ {1} : ~Running(os, q)
         /\ \A z \in Done(os, 1, AnyChild) : Zombie(os, z)
<1>1. \A z \in Done(os, 1, AnyChild) : Zombie(os, z) /\ z \in Children(os, 1)
  BY DEF Done, Awaited
<1>2. ASSUME NEW q \in Pids \ {1}, Running(os, q) PROVE FALSE
  <2>1. q = mem[1].pid BY <1>2, OnlyCommand
  <2>2. os.parent[q] = 1 /\ \A r \in Pids \ {1, q} : os.state[r] = "none"
    BY <2>1 DEF TimeoutInv, CommandKnown
  <2>3. q \in Children(os, 1) BY <1>2, <2>2 DEF Children, Running
  <2>4. PICK z \in Done(os, 1, AnyChild) : TRUE BY <2>3 DEF WaitReturns, Awaited
  <2>5. z \in Pids /\ os.parent[z] = 1 /\ Zombie(os, z) BY <1>1, <2>4 DEF Children
  <2>6. z # 1 BY <2>5, Constants DEF TimeoutInv, TimeoutTyped
  <2>7. z = q BY <2>2, <2>5, <2>6 DEF Zombie
  <2> QED BY <1>2, <2>5, <2>7 DEF Running, Zombie
<1> QED BY <1>1, <1>2

(* What a fork that succeeds does. *)
LEMMA CommandForked ==
  ASSUME TimeoutInv, at[1] = "main", FreePids(os) # {}, NEW c, c = NewPid(os),
         os' = Fork(os, 1, c), at' = [at EXCEPT ![1] = "parent", ![c] = "child"],
         mem' = [mem EXCEPT ![c] = mem[1], ![1] = [mem[1] EXCEPT !["pid"] = c]]
  PROVE  TimeoutInv'
<1>1. IsSystem(os) /\ 1 \in Pids /\ os.parent[1] = InitPid BY Constants DEF TimeoutInv, TimeoutTyped
<1>2. c \in Pids /\ os.state[c] = "none" BY NewPidIs DEF FreePids
<1>3. Running(os, 1) /\ c # 1 BY <1>1, <1>2 DEF TimeoutInv, TimeoutTyped, Running
<1>4. Forks(os, 1, c, os') BY <1>1, <1>2, ForkIs
<1>5. /\ IsSystem(os') /\ os'.state = [os.state EXCEPT ![c] = "run"]
      /\ os'.parent[c] = 1 /\ os'.parent[1] = InitPid
  BY <1>1, <1>2, <1>3, <1>4 DEF Forks, IsSystem
<1>6. /\ at'[1] = "parent" /\ at'[c] = "child" /\ \A q \in Pids \ {1, c} : at'[q] = at[q]
      /\ at' \in [Pids -> {"main", "child", "command", "gone"} \cup Waiting]
  BY <1>1, <1>2, <1>3 DEF TimeoutInv, TimeoutTyped, Waiting
<1>7. DOMAIN mem' = Pids /\ mem'[1].pid = c
  <2>1. mem[1] = [pid |-> 0] BY DEF TimeoutInv, CommandKnown
  <2>2. [mem[1] EXCEPT !["pid"] = c].pid = c BY <2>1
  <2>3. DOMAIN mem = Pids BY DEF TimeoutInv, TimeoutTyped
  <2> QED BY <1>1, <1>2, <1>3, <2>2, <2>3
<1>8. \A q \in Pids \ {1, c} : os'.state[q] = "none"
  BY <1>1, <1>2, <1>5 DEF TimeoutInv, CommandKnown, IsSystem
<1>9. \A q \in Pids : Running(os', q) <=> at'[q] # "gone"
  BY <1>1, <1>2, <1>3, <1>5, <1>6 DEF TimeoutInv, TimeoutTyped, Running, IsSystem
<1>10. TimeoutTyped'
  <2>1. \A q \in Pids \ {1} : at'[q] \in {"child", "command", "gone"}
    BY <1>6 DEF TimeoutInv, TimeoutTyped
  <2> QED BY <1>5, <1>6, <1>7, <1>9, <2>1 DEF TimeoutTyped
<1>11. CommandKnown' BY <1>2, <1>3, <1>5, <1>6, <1>7, <1>8 DEF CommandKnown, Waiting
<1> QED BY <1>10, <1>11 DEF TimeoutInv

(* At the start there is nobody but timeout. *)
LEMMA TimeoutInit == T!Init => TimeoutInv
<1> SUFFICES ASSUME T!Init PROVE TimeoutInv OBVIOUS
<1>1. /\ os = T!Booted
      /\ at = [p \in Pids |-> IF p = 1 THEN "main" ELSE "gone"]
      /\ mem = [p \in Pids |-> IF p = 1 THEN [pid |-> 0] ELSE T!NoMemory]
  BY TimeoutSystem DEF T!Init, T!Boot
<1>2. T!Booted = Booted
  <2>1. [n \in T!Stdin..T!Stderr |-> T!Closed] = [n \in Stdin..Stderr |-> Closed]
    BY Zenon DEF T!Stdin, T!Stderr, Stdin, Stderr, T!Closed, Closed
  <2>2. T!Stdin = Stdin /\ T!Stderr = Stderr /\ T!Closed = Closed /\ T!Tty = Tty
        /\ T!InitPid = InitPid /\ T!Pids = Pids
    BY Zenon DEF T!Stdin, T!Stderr, Stdin, Stderr, T!Closed, Closed, T!Tty, Tty,
                 T!InitPid, InitPid, T!Pids, Pids
  <2>3. T!Exited(0) = Exited(0) BY Zenon DEF T!Exited, Exited
  <2> QED BY <2>2, <2>3, Zenon DEF T!Booted, Booted
<1>3. IsSystem(os) /\ 1 \in Pids /\ os.parent[1] = InitPid
      /\ os.state = [p \in Pids |-> IF p = 1 THEN "run" ELSE "none"]
  BY <1>1, <1>2, Constants DEF Booted, IsSystem
<1>4. TimeoutTyped BY <1>1, <1>3 DEF TimeoutTyped, Running, Waiting
<1>5. CommandKnown BY <1>1, <1>3 DEF CommandKnown, Waiting
<1> QED BY <1>4, <1>5 DEF TimeoutInv

(* One lemma for each kind of step. *)
LEMMA TimeoutMain ==
  ASSUME TimeoutInv, NEW p \in Pids, T!main(p) PROVE TimeoutInv'
<1>1. at[p] = "main" /\ p = 1 BY DEF TimeoutInv, TimeoutTyped, T!main
<1>2. mem[1] = [pid |-> 0] /\ (\A q \in Pids \ {1} : ~Running(os, q)) /\ Running(os, 1)
  BY <1>1 DEF TimeoutInv, TimeoutTyped, CommandKnown, Running
<1>3. CASE FreePids(os) = {}
  <2>1. T!Die(1, T!Exited(255)) BY <1>1, <1>3, TimeoutSystem DEF T!main
  <2>2. os' = Exit(os, 1, T!Exited(255)) /\ at' = [at EXCEPT ![1] = "gone"]
        /\ mem' = [mem EXCEPT ![1] = T!NoMemory]
    BY <2>1, TimeoutSystem DEF T!Die, T!Goto
  <2>3. DOMAIN mem' = Pids BY <2>2 DEF TimeoutInv, TimeoutTyped
  <2> QED BY <1>2, <2>2, <2>3, TimeoutDies
<1>4. CASE FreePids(os) # {}
  <2>1. T!ForkTo(1, os, mem[1], "parent", "child", "pid")
    BY <1>1, <1>4, TimeoutSystem DEF T!main
  <2>2. PICK c \in {NewPid(os)} :
          /\ os' = Fork(os, 1, c)
          /\ at' = [at EXCEPT ![1] = "parent", ![c] = "child"]
          /\ mem' = [mem EXCEPT ![c] = mem[1], ![1] = [mem[1] EXCEPT !["pid"] = c]]
    BY <2>1, TimeoutSystem DEF T!ForkTo
  <2> QED BY <1>1, <1>4, <2>2, CommandForked
<1> QED BY <1>3, <1>4

(* The command ends by itself. *)
LEMMA TimeoutCommandDies ==
  ASSUME TimeoutInv, NEW p \in Pids \ {1}, Running(os, p), NEW word, T!Die(p, word)
  PROVE  TimeoutInv'
<1>1. os' = Exit(os, p, word) /\ at' = [at EXCEPT ![p] = "gone"]
      /\ mem' = [mem EXCEPT ![p] = T!NoMemory]
  BY TimeoutSystem DEF T!Die, T!Goto
<1>2. DOMAIN mem' = Pids /\ mem'[1] = mem[1] /\ at[1] \in Waiting /\ 1 \in Pids
  BY <1>1, OnlyCommand, Constants DEF TimeoutInv, TimeoutTyped
<1>3. at' = [at EXCEPT ![1] = at[1], ![p] = "gone"]
  BY <1>1, <1>2 DEF TimeoutInv, TimeoutTyped
<1> QED BY <1>1, <1>2, <1>3, CommandKilled

(* The child becomes the command, or cannot and ends. *)
LEMMA TimeoutChild ==
  ASSUME TimeoutInv, NEW p \in Pids, T!Child(p) \/ T!CommandEnds(p) PROVE TimeoutInv'
<1>1. at[p] \in {"child", "command"} /\ p # 1 /\ Running(os, p)
  BY DEF TimeoutInv, TimeoutTyped, T!Child, T!CommandEnds
<1>2. CASE \E word : T!Die(p, word) BY <1>1, <1>2, TimeoutCommandDies
<1>3. CASE T!Goto(p, "command") /\ UNCHANGED <<os, mem>>
  <2>1. at' = [at EXCEPT ![p] = "command"] /\ os' = os /\ mem' = mem BY <1>3 DEF T!Goto
  <2>2. "command" \in IF p = 1 THEN Waiting ELSE {"child", "command"} BY <1>1
  <2> QED BY <1>1, <2>1, <2>2, TimeoutGoes
<1> QED BY <1>2, <1>3 DEF T!Child, T!CommandEnds

(* Where the parent is, it waits for its command. *)
LEMMA TimeoutParent ==
  ASSUME TimeoutInv, NEW p \in Pids, at[p] \in Waiting
  PROVE  p = 1 /\ Running(os, 1)
BY DEF TimeoutInv, TimeoutTyped, Waiting

(* The timer is set before timeout waits. *)
LEMMA TimeoutSetTimer ==
  ASSUME TimeoutInv, NEW p \in Pids, T!SetTimer(p) PROVE TimeoutInv'
<1>1. at[p] = "parent" /\ p = 1 BY TimeoutParent DEF T!SetTimer, Waiting
<1>2. at' = [at EXCEPT ![p] = "wait"] /\ os' = os /\ mem' = mem BY DEF T!SetTimer, T!Goto
<1>3. "wait" \in IF p = 1 THEN Waiting ELSE {"child", "command"} BY <1>1 DEF Waiting
<1> QED BY <1>1, <1>2, <1>3, TimeoutGoes

(* waitpid returns when the command has ended. *)
LEMMA TimeoutWait ==
  ASSUME TimeoutInv, NEW p \in Pids, T!Wait(p) \/ T!HandlerWait(p) PROVE TimeoutInv'
<1>1. at[p] \in {"wait", "handler"} /\ p = 1 /\ at[1] \in Waiting
  BY TimeoutParent DEF T!Wait, T!HandlerWait, Waiting
<1>2. WaitReturns(os, 1, AnyChild)
      /\ os' = Reap(os, Done(os, 1, AnyChild))
      /\ at' = [at EXCEPT ![p] = "delete"] /\ mem' = mem
  <2>1. T!AnyChild = AnyChild BY DEF T!AnyChild, AnyChild
  <2>2. T!WaitReturns(os, 1, AnyChild) /\ os' = T!Reap(os, T!Done(os, 1, AnyChild))
        /\ at' = [at EXCEPT ![p] = "delete"] /\ mem' = mem
    BY <1>1, <2>1 DEF T!Wait, T!HandlerWait, T!Goto
  <2> QED BY <2>2, TimeoutSystem
<1>3. (\A q \in Pids \ {1} : ~Running(os, q)) /\ \A z \in Done(os, 1, AnyChild) : Zombie(os, z)
  BY <1>1, <1>2, WaitEndsCommand
<1>4. "delete" \in IF p = 1 THEN Waiting ELSE {"child", "command"} BY <1>1 DEF Waiting
<1> QED BY <1>1, <1>2, <1>3, <1>4, TimeoutGoes

(* timeout deletes the timer and ends. *)
LEMMA TimeoutDelete ==
  ASSUME TimeoutInv, NEW p \in Pids, T!DeleteTimer(p) PROVE TimeoutInv'
<1>1. at[p] = "delete" /\ p = 1 /\ Running(os, 1) BY TimeoutParent DEF T!DeleteTimer, Waiting
<1>2. os' = Exit(os, 1, T!Exited(0)) /\ at' = [at EXCEPT ![1] = "gone"]
      /\ mem' = [mem EXCEPT ![1] = T!NoMemory]
  BY <1>1, TimeoutSystem DEF T!DeleteTimer, T!Die, T!Goto
<1>3. DOMAIN mem' = Pids BY <1>2 DEF TimeoutInv, TimeoutTyped
<1>4. ASSUME NEW q \in Pids \ {1}, Running(os, q) PROVE FALSE BY <1>1, <1>4, OnlyCommand
<1> QED BY <1>1, <1>2, <1>3, <1>4, TimeoutDies

(* The signal of the timer: the handler kills what is left of the command. *)
LEMMA TimeoutExpire ==
  ASSUME TimeoutInv, NEW p \in Pids, T!Expire(p) PROVE TimeoutInv'
<1> DEFINE c == mem[1].pid
<1>1. at[p] \in {"wait", "delete"} /\ p = 1 /\ Running(os, 1) /\ at[1] \in Waiting /\ 1 \in Pids
  BY TimeoutParent DEF T!Expire, Waiting
<1>2. c \in Pids \ {1} /\ os.parent[c] = 1 BY <1>1 DEF TimeoutInv, CommandKnown
<1>3. CASE c \notin Children(os, 1) /\ T!Die(1, T!Exited(255))
  <2>1. os' = Exit(os, 1, T!Exited(255)) /\ at' = [at EXCEPT ![1] = "gone"]
        /\ mem' = [mem EXCEPT ![1] = T!NoMemory]
    BY <1>3, TimeoutSystem DEF T!Die, T!Goto
  <2>2. DOMAIN mem' = Pids BY <2>1 DEF TimeoutInv, TimeoutTyped
  <2>3. ASSUME NEW q \in Pids \ {1}, Running(os, q) PROVE FALSE
    <3>1. q = c BY <2>3, OnlyCommand
    <3> QED BY <1>2, <1>3, <2>3, <3>1 DEF Children, Running
  <2> QED BY <1>1, <2>1, <2>2, <2>3, TimeoutDies
<1>4. CASE T!Goto(1, "handler") /\ UNCHANGED <<os, mem>>
  <2>1. at' = [at EXCEPT ![1] = "handler"] /\ os' = os /\ mem' = mem BY <1>4 DEF T!Goto
  <2>2. "handler" \in IF 1 = 1 THEN Waiting ELSE {"child", "command"} BY DEF Waiting
  <2>3. at[1] # "gone" /\ at[1] # "main" /\ "handler" # "delete" BY <1>1
  <2> QED BY <1>1, <2>1, <2>2, <2>3, TimeoutGoes
<1>5. CASE /\ c \in Children(os, 1) /\ ~Zombie(os, c)
           /\ os' = T!Exit(os, c, T!Killed(T!SIGTERM))
           /\ at' = [at EXCEPT ![1] = "handler", ![c] = "gone"]
           /\ mem' = [mem EXCEPT ![c] = T!NoMemory]
  <2>1. Running(os, c)
    <3>1. os.state[c] \in {"none", "run", "zombie"} BY <1>2 DEF TimeoutInv, TimeoutTyped, IsSystem
    <3> QED BY <1>5, <3>1 DEF Children, Zombie, Running
  <2>2. os' = Exit(os, c, T!Killed(T!SIGTERM)) BY <1>5, TimeoutSystem
  <2>3. DOMAIN mem' = Pids /\ mem'[1] = mem[1] /\ "handler" \in Waiting
    BY <1>1, <1>2, <1>5 DEF TimeoutInv, TimeoutTyped, Waiting
  <2> HIDE DEF c
  <2> QED BY <1>2, <1>5, <2>1, <2>2, <2>3, CommandKilled
<1>6. \/ c \notin Children(os, 1) /\ T!Die(1, T!Exited(255))
      \/ T!Goto(1, "handler") /\ UNCHANGED <<os, mem>>
      \/ /\ c \in Children(os, 1) /\ ~Zombie(os, c)
         /\ os' = T!Exit(os, c, T!Killed(T!SIGTERM))
         /\ at' = [at EXCEPT ![1] = "handler", ![c] = "gone"]
         /\ mem' = [mem EXCEPT ![c] = T!NoMemory]
  BY <1>1, TimeoutSystem DEF T!Expire
<1> QED BY <1>3, <1>4, <1>5, <1>6

(* TimeoutInv is inductive. *)
LEMMA TimeoutNext ==
  ASSUME TimeoutInv, [T!Next]_(T!vars) PROVE TimeoutInv'
<1>1. CASE UNCHANGED T!vars
  BY <1>1 DEF T!vars, TimeoutInv, TimeoutTyped, CommandKnown, Running
<1>2. CASE T!Next
  <2>1. PICK p \in Pids : T!Step(p) BY <1>2, TimeoutSystem DEF T!Next
  <2> QED BY <2>1, TimeoutMain, TimeoutChild, TimeoutSetTimer, TimeoutWait, TimeoutDelete,
             TimeoutExpire DEF T!Step
<1> QED BY <1>1, <1>2

(* When timeout has ended, its command has: whether the command ends by    *)
(* itself, there is none, or the timer strikes, before the wait, in it, or *)
(* after it (timeout.c:30-135).                                             *)
THEOREM NoCommandLeftHolds ==
  T!Init /\ [][T!Next]_(T!vars) => []T!NoCommandLeft
<1>1. TimeoutInv => T!NoCommandLeft
  BY TimeoutSystem DEF TimeoutInv, CommandKnown, T!NoCommandLeft
<1> QED BY <1>1, TimeoutInit, TimeoutNext, PTL

-----------------------------------------------------------------------------
(* Xargs, with its constants and the variables that are its own *)
CONSTANTS NARGS, MaxInput
VARIABLES out, exists
X == INSTANCE Xargs

(* The system of Xargs is that of Shell. *)
LEMMA XargsSystem ==
    /\ X!Pids = Pids /\ X!InitPid = InitPid
    /\ \A o, p, st : X!Exit(o, p, st) = Exit(o, p, st)
    /\ \A o, p, c : X!Fork(o, p, c) = Fork(o, p, c)
    /\ \A o, B : X!Reap(o, B) = Reap(o, B)
    /\ \A o : X!FreePids(o) = FreePids(o)
    /\ \A o : X!NewPid(o) = NewPid(o)
    /\ \A o, p : X!Children(o, p) = Children(o, p)
    /\ \A o, p, c : X!Done(o, p, c) = Done(o, p, c)
    /\ \A o, p, c : X!WaitReturns(o, p, c) <=> WaitReturns(o, p, c)
    /\ \A o, p : X!Zombie(o, p) <=> Zombie(o, p)
<1>1. X!Pids = Pids /\ X!InitPid = InitPid BY DEF X!Pids, Pids, X!InitPid, InitPid
<1>2. \A o, p : X!Zombie(o, p) <=> Zombie(o, p) BY DEF X!Zombie, Zombie
<1>3. \A o, p : X!Children(o, p) = Children(o, p) BY <1>1 DEF X!Children, Children
<1>4. \A o, p, st : X!Exit(o, p, st) = Exit(o, p, st)
  <2> SUFFICES ASSUME NEW o, NEW p, NEW st PROVE X!Exit(o, p, st) = Exit(o, p, st)
    OBVIOUS
  <2>1. [n \in X!Stdin..X!Stderr |-> X!Closed] = [n \in Stdin..Stderr |-> Closed]
    BY Zenon DEF X!Stdin, X!Stderr, Stdin, Stderr, X!Closed, Closed
  <2>2. [c \in X!Pids |-> IF c = p THEN IF o.parent[p] = X!InitPid THEN "none" ELSE "zombie"
                 ELSE IF c \in X!Children(o, p) /\ X!Zombie(o, c) THEN "none" ELSE o.state[c]]
        = [c \in Pids |-> IF c = p THEN IF o.parent[p] = InitPid THEN "none" ELSE "zombie"
                 ELSE IF c \in Children(o, p) /\ Zombie(o, c) THEN "none" ELSE o.state[c]]
    BY <1>1, <1>2, <1>3
  <2>3. [c \in X!Pids |-> IF c \in X!Children(o, p) THEN X!InitPid ELSE o.parent[c]]
        = [c \in Pids |-> IF c \in Children(o, p) THEN InitPid ELSE o.parent[c]]
    BY <1>1, <1>3
  <2> QED BY <1>1, <2>1, <2>2, <2>3, Zenon DEF X!Exit, Exit
<1>5. \A o, p, c : X!Fork(o, p, c) = Fork(o, p, c)
  BY DEF X!Fork, Fork, X!Exited, Exited
<1>6. \A o, B : X!Reap(o, B) = Reap(o, B) BY <1>1 DEF X!Reap, Reap
<1>7. \A o : X!FreePids(o) = FreePids(o) BY <1>1 DEF X!FreePids, FreePids
<1>8. \A o : X!NewPid(o) = NewPid(o) BY <1>7 DEF X!NewPid, NewPid, X!Lowest, Lowest
<1>9. \A o, p, c : X!Done(o, p, c) = Done(o, p, c)
  BY <1>2, <1>3 DEF X!Done, Done, X!Awaited, Awaited, X!AnyChild, AnyChild
<1>10. \A o, p, c : X!WaitReturns(o, p, c) <=> WaitReturns(o, p, c)
  BY <1>3, <1>9 DEF X!WaitReturns, WaitReturns, X!Awaited, Awaited, X!AnyChild, AnyChild
<1> QED BY <1>1, <1>2, <1>3, <1>4, <1>5, <1>6, <1>7, <1>8, <1>9, <1>10

(* A batch of n lines, after k full ones. *)
Batch(k, n) == [j \in 1..n |-> k * NARGS + j]

(* What is left to read when s lines have been read. *)
Left(rest, s) == \E r \in Nat : rest = [j \in 1..r |-> s + j]

(* xargs is process 1; its command, once it is forked, the only other. *)
Attending == {"wait", "wait_last"}
Starting == {"exec", "exec_last"}
XargsTyped ==
    /\ IsSystem(os) /\ DOMAIN mem = Pids
    /\ at \in [Pids -> {"main", "check", "last", "command", "gone"} \cup Attending \cup Starting]
    /\ \A p \in Pids : Running(os, p) <=> at[p] # "gone"
    /\ \A p \in Pids \ {1} : at[p] \in Starting \cup {"command", "gone"}
    /\ at[1] \notin Starting \cup {"command"} /\ os.parent[1] = InitPid
    /\ at[1] # "gone" => DOMAIN mem[1] = {"pid", "rest", "comandos", "iterador"}

OneCommand ==
    /\ at[1] \in {"main", "check", "last"} => \A p \in Pids \ {1} : os.state[p] = "none"
    /\ at[1] \in Attending =>
          LET c == mem[1].pid IN
          /\ c \in Pids \ {1} /\ os.parent[c] = 1
          /\ \A p \in Pids \ {1, c} : os.state[p] = "none"
          /\ at[c] \in Starting => at[1] = "wait" <=> at[c] = "exec"
    /\ at[1] = "gone" => \A p \in Pids : at[p] = "gone"

(* The batches run so far, that of the child, and the one being gathered. *)
AllFull == \A i \in DOMAIN out : out[i] = Batch(i - 1, NARGS)
Gathered(n) == mem[1].comandos = Batch(Len(out), n) /\ Left(mem[1].rest, Len(out) * NARGS + n)
Batches ==
    /\ out \in Seq(Seq(Nat))
    /\ \A i \in DOMAIN out :
          \E n \in 0..NARGS : out[i] = Batch(i - 1, n) /\ (i < Len(out) => n = NARGS)
    /\ at[1] \in {"main", "check", "last"} =>
          /\ AllFull /\ mem[1].iterador \in 1..NARGS
          /\ Gathered(IF at[1] = "check" THEN mem[1].iterador ELSE mem[1].iterador - 1)
    /\ at[1] = "wait" =>
          LET c == mem[1].pid IN
          /\ AllFull
          /\ IF at[c] = "exec"
             THEN mem[c].comandos = Batch(Len(out), NARGS) /\ Left(mem[1].rest, (Len(out) + 1) * NARGS)
             ELSE Left(mem[1].rest, Len(out) * NARGS)
    /\ at[1] = "wait_last" =>
          LET c == mem[1].pid IN
          at[c] = "exec_last" =>
             AllFull /\ \E n \in 0..NARGS : n < NARGS /\ mem[c].comandos = Batch(Len(out), n)

XargsInv == XargsTyped /\ OneCommand /\ Batches

(* Batches *)
LEMMA BatchIs ==
  ASSUME NEW k \in Nat, NEW n \in Nat, NARGS \in Nat
  PROVE  /\ Batch(k, n) \in Seq(Nat) /\ Len(Batch(k, n)) = n
         /\ \A j \in 1..n : Batch(k, n)[j] = k * NARGS + j
         /\ Batch(k, 0) = <<>>
         /\ Append(Batch(k, n), k * NARGS + n + 1) = Batch(k, n + 1)
<1>1. k * NARGS \in Nat OBVIOUS
<1>2. Batch(k, n) \in Seq(Nat) /\ Len(Batch(k, n)) = n BY <1>1 DEF Batch
<1>3. Batch(k, 0) = <<>> BY DEF Batch
<1>4. Append(Batch(k, n), k * NARGS + n + 1) = Batch(k, n + 1)
  <2> DEFINE b == Batch(k, n)
             a == Append(b, k * NARGS + n + 1)
  <2>1. a \in Seq(Nat) /\ Len(a) = n + 1 /\ a[n + 1] = k * NARGS + n + 1
        /\ \A j \in 1..n : a[j] = b[j]
    BY <1>1, <1>2
  <2>2. \A j \in 1..(n + 1) : a[j] = k * NARGS + j BY <1>1, <2>1 DEF Batch
  <2>3. a = [j \in 1..(n + 1) |-> a[j]] BY <2>1
  <2> HIDE DEF a
  <2>4. Batch(k, n + 1) = [j \in 1..(n + 1) |-> a[j]] BY <2>2 DEF Batch
  <2> QED BY <2>3, <2>4 DEF a
<1> QED BY <1>1, <1>2, <1>3, <1>4 DEF Batch

(* One line more is read from the input. *)
LEMMA NextLine ==
  ASSUME NEW r \in Nat, NEW s \in Nat, NEW rest, rest = [j \in 1..r |-> s + j], rest # <<>>
  PROVE  Head(rest) = s + 1 /\ \E q \in Nat : Tail(rest) = [j \in 1..q |-> (s + 1) + j]
<1>1. r # 0 OBVIOUS
<1>2. rest \in Seq(Nat) /\ Len(rest) = r OBVIOUS
<1>3. Head(rest) = s + 1 BY <1>1, <1>2
<1>4. Tail(rest) \in Seq(Nat) /\ Len(Tail(rest)) = r - 1
      /\ \A j \in 1..(r - 1) : Tail(rest)[j] = rest[j + 1]
  BY <1>1, <1>2
<1>5. \A j \in 1..(r - 1) : Tail(rest)[j] = (s + 1) + j BY <1>1, <1>4
<1>6. Tail(rest) = [j \in 1..(r - 1) |-> Tail(rest)[j]] BY <1>4
<1>7. Tail(rest) = [j \in 1..(r - 1) |-> (s + 1) + j] BY <1>5, <1>6
<1>8. r - 1 \in Nat BY <1>1
<1> QED BY <1>3, <1>7, <1>8, Zenon

(* A process that runs beside xargs is its command. *)
LEMMA OnlyBatch ==
  ASSUME XargsInv, NEW c \in Pids \ {1}, Running(os, c)
  PROVE  at[1] \in Attending /\ c = mem[1].pid
<1>1. at[1] \in {"main", "check", "last", "gone"} \cup Attending
  BY Constants DEF XargsInv, XargsTyped
<1>2. at[1] \notin {"main", "check", "last", "gone"}
  BY DEF XargsInv, XargsTyped, OneCommand, Running
<1> QED BY <1>1, <1>2 DEF XargsInv, OneCommand, Running

(* Steps of process 1 that leave the system as it is. *)
LEMMA XargsKeeps ==
  ASSUME XargsInv, at[1] \in {"main", "check"}, NEW l \in {"main", "check", "last"},
         os' = os, at' = [at EXCEPT ![1] = l], DOMAIN mem' = Pids,
         DOMAIN mem'[1] = {"pid", "rest", "comandos", "iterador"}
  PROVE  XargsTyped' /\ OneCommand'
<1>1. 1 \in Pids BY Constants
<1>2. at'[1] = l /\ (\A q \in Pids \ {1} : at'[q] = at[q])
      /\ at' \in [Pids -> {"main", "check", "last", "command", "gone"} \cup Attending \cup Starting]
  BY <1>1 DEF XargsInv, XargsTyped
<1>3. \A q \in Pids : Running(os', q) <=> at'[q] # "gone"
  BY <1>1, <1>2 DEF XargsInv, XargsTyped
<1>4. XargsTyped' BY <1>1, <1>2, <1>3 DEF XargsInv, XargsTyped, Starting
<1>5. OneCommand' BY <1>1, <1>2 DEF XargsInv, OneCommand, Attending
<1> QED BY <1>4, <1>5

(* getline *)
LEMMA XargsMain ==
  ASSUME XargsInv, X!XargsAssumption, NEW p \in Pids, X!main(p) PROVE XargsInv'
<1>1. at[p] = "main" /\ p = 1 /\ 1 \in Pids BY Constants DEF XargsInv, XargsTyped, X!main, Starting
<1>2. /\ out \in Seq(Seq(Nat)) /\ AllFull /\ mem[1].iterador \in 1..NARGS
      /\ mem[1].comandos = Batch(Len(out), mem[1].iterador - 1)
      /\ Left(mem[1].rest, Len(out) * NARGS + (mem[1].iterador - 1))
      /\ DOMAIN mem = Pids /\ DOMAIN mem[1] = {"pid", "rest", "comandos", "iterador"}
  BY <1>1 DEF XargsInv, Batches, Gathered, XargsTyped
<1>3. out' = out /\ os' = os BY DEF X!main
<1> DEFINE n == mem[1].iterador - 1
           s == Len(out) * NARGS + n
<1>4. NARGS \in Nat /\ Len(out) \in Nat /\ Len(out) * NARGS \in Nat /\ n \in Nat /\ s \in Nat
  <2>1. NARGS \in Nat BY DEF X!XargsAssumption
  <2>2. Len(out) \in Nat BY <1>2
  <2>3. n \in Nat BY <1>2, <2>1
  <2> HIDE DEF n
  <2> QED BY <2>1, <2>2, <2>3
<1>5. CASE mem[1].rest # <<>>
  <2>1. /\ mem' = [mem EXCEPT ![1].comandos = Append(@, Head(mem[1].rest)), ![1].rest = Tail(@)]
        /\ at' = [at EXCEPT ![1] = "check"]
    BY <1>1, <1>5 DEF X!main, X!Goto
  <2>2. /\ DOMAIN mem' = Pids /\ DOMAIN mem'[1] = {"pid", "rest", "comandos", "iterador"}
        /\ mem'[1].comandos = Append(mem[1].comandos, Head(mem[1].rest))
        /\ mem'[1].rest = Tail(mem[1].rest) /\ mem'[1].iterador = mem[1].iterador
    BY <1>1, <1>2, <2>1
  <2>3. PICK r \in Nat : mem[1].rest = [j \in 1..r |-> s + j] BY <1>2 DEF Left
  <2>4. Head(mem[1].rest) = s + 1 /\ \E q \in Nat : Tail(mem[1].rest) = [j \in 1..q |-> (s + 1) + j]
    <3> DEFINE rest == mem[1].rest
    <3>1. s \in Nat /\ r \in Nat /\ rest # <<>> /\ rest = [j \in 1..r |-> s + j]
      BY <1>4, <1>5, <2>3
    <3> HIDE DEF s, rest
    <3>2. Head(rest) = s + 1 /\ \E q \in Nat : Tail(rest) = [j \in 1..q |-> (s + 1) + j]
      BY <3>1, NextLine
    <3> QED BY <3>2 DEF rest
  <2>5. mem'[1].comandos = Batch(Len(out), n + 1)
    <3>1. Append(Batch(Len(out), n), Len(out) * NARGS + n + 1) = Batch(Len(out), n + 1)
      BY <1>4, BatchIs
    <3> QED BY <1>2, <2>2, <2>4, <3>1
  <2>6. Left(mem[1].rest, Len(out) * NARGS + (n + 1))'
    <3>1. s + 1 = Len(out) * NARGS + (n + 1) BY <1>4
    <3> QED BY <1>3, <2>2, <2>4, <3>1 DEF Left
  <2>7. n + 1 = mem[1].iterador BY <1>2
  <2>8. at'[1] = "check" BY <1>1, <2>1 DEF XargsInv, XargsTyped
  <2>9. Batches'
    BY <1>2, <1>3, <2>2, <2>5, <2>6, <2>7, <2>8 DEF XargsInv, Batches, AllFull, Gathered
  <2> QED BY <1>1, <1>3, <2>1, <2>2, <2>9, XargsKeeps DEF XargsInv
<1>6. CASE mem[1].rest = <<>>
  <2>1. mem' = mem /\ at' = [at EXCEPT ![1] = "last"] BY <1>1, <1>6 DEF X!main, X!Goto
  <2>2. at'[1] = "last" BY <1>1, <2>1 DEF XargsInv, XargsTyped
  <2>3. Batches'
    BY <1>1, <1>3, <2>1, <2>2 DEF XargsInv, Batches, AllFull, Gathered
  <2> QED BY <1>1, <1>2, <1>3, <2>1, <2>3, XargsKeeps DEF XargsInv
<1> QED BY <1>5, <1>6

(* xargs goes on with the batch it gathers. *)
LEMMA XargsGoesOn ==
  ASSUME XargsInv, X!XargsAssumption, at[1] = "check", mem[1].iterador # NARGS,
         mem' = [mem EXCEPT ![1].iterador = @ + 1], at' = [at EXCEPT ![1] = "main"],
         os' = os, out' = out
  PROVE  XargsInv'
<1>1. 1 \in Pids BY Constants
<1>2. /\ AllFull /\ mem[1].iterador \in 1..NARGS /\ Gathered(mem[1].iterador)
      /\ DOMAIN mem = Pids /\ DOMAIN mem[1] = {"pid", "rest", "comandos", "iterador"}
  BY DEF XargsInv, Batches, XargsTyped
<1>3. /\ DOMAIN mem' = Pids /\ DOMAIN mem'[1] = {"pid", "rest", "comandos", "iterador"}
      /\ mem'[1].comandos = mem[1].comandos /\ mem'[1].rest = mem[1].rest
      /\ mem'[1].iterador = mem[1].iterador + 1
  BY <1>1, <1>2
<1>4. at'[1] = "main" BY <1>1 DEF XargsInv, XargsTyped
<1>5. mem'[1].iterador \in 1..NARGS /\ mem'[1].iterador - 1 = mem[1].iterador
  BY <1>2, <1>3 DEF X!XargsAssumption
<1>6. Gathered(mem[1].iterador - 1)'
  <2>1. PICK n \in 1..NARGS : n = mem[1].iterador BY <1>2
  <2>2. Gathered(n)' BY <1>2, <1>3, <2>1 DEF Gathered
  <2>3. mem'[1].iterador - 1 = n BY <1>5, <2>1
  <2> QED BY <2>2, <2>3 DEF Gathered
<1>7. Batches'
  BY <1>2, <1>4, <1>5, <1>6 DEF XargsInv, Batches, AllFull, Gathered
<1> QED BY <1>1, <1>3, <1>7, XargsKeeps DEF XargsInv

(* The end of xargs, when nothing else runs. *)
LEMMA XargsDies ==
  ASSUME XargsInv, Running(os, 1), \A q \in Pids \ {1} : ~Running(os, q),
         NEW word, X!Die(1, word), out' = out
  PROVE  XargsInv'
<1>1. IsSystem(os) /\ 1 \in Pids /\ os' = Exit(os, 1, word) /\ at' = [at EXCEPT ![1] = "gone"]
      /\ mem' = [mem EXCEPT ![1] = X!NoMemory]
  BY Constants, XargsSystem DEF XargsInv, XargsTyped, X!Die, X!Goto
<1>2. /\ IsSystem(os') /\ os.parent[1] = InitPid /\ os'.parent[1] = InitPid
      /\ os'.state[1] = "none"
      /\ \A c \in Pids \ {1} : os'.state[c] = os.state[c] \/ os'.state[c] = "none"
  <2>1. /\ IsSystem(os')
        /\ os'.state[1] = IF os.parent[1] = InitPid THEN "none" ELSE "zombie"
        /\ \A q \in Pids \ {1} :
             os'.state[q] = os.state[q] \/ (os.state[q] = "zombie" /\ os'.state[q] = "none")
        /\ \A q \in Pids :
             os'.parent[q] = IF os.state[q] # "none" /\ os.parent[q] = 1 THEN InitPid ELSE os.parent[q]
    BY <1>1, ExitNow
  <2>2. os.parent[1] = InitPid /\ InitPid # 1 BY Constants DEF XargsInv, XargsTyped
  <2> QED BY <1>1, <2>1, <2>2
<1>3. \A q \in Pids : at'[q] = "gone" BY <1>1 DEF XargsInv, XargsTyped
<1>4. \A q \in Pids : ~Running(os', q) BY <1>2 DEF Running
<1>5. DOMAIN mem' = Pids BY <1>1 DEF XargsInv, XargsTyped
<1>6. XargsTyped' BY <1>1, <1>2, <1>3, <1>4, <1>5 DEF XargsInv, XargsTyped, Starting
<1>7. OneCommand' BY <1>1, <1>3 DEF OneCommand, Attending
<1>8. Batches' BY <1>1, <1>3 DEF XargsInv, Batches
<1> QED BY <1>6, <1>7, <1>8 DEF XargsInv

(* What a fork that succeeds does. *)
LEMMA XargsForks ==
  ASSUME XargsInv, at[1] \in {"check", "last"}, FreePids(os) # {},
         NEW parent \in Attending, NEW child \in Starting, parent = "wait" <=> child = "exec",
         X!ForkTo(1, os, mem[1], parent, child, "pid")
  PROVE  /\ XargsTyped' /\ OneCommand'
         /\ at'[1] = parent /\ at'[mem'[1].pid] = child /\ mem'[1].rest = mem[1].rest
         /\ mem'[mem'[1].pid].comandos = mem[1].comandos
<1>1. PICK c \in {NewPid(os)} :
        /\ os' = Fork(os, 1, c)
        /\ at' = [at EXCEPT ![1] = parent, ![c] = child]
        /\ mem' = [mem EXCEPT ![c] = mem[1], ![1] = [mem[1] EXCEPT !["pid"] = c]]
  BY XargsSystem DEF X!ForkTo
<1>2. IsSystem(os) /\ 1 \in Pids /\ os.parent[1] = InitPid
  BY Constants DEF XargsInv, XargsTyped
<1>3. c \in Pids /\ os.state[c] = "none" BY <1>1, NewPidIs DEF FreePids
<1>4. Running(os, 1) /\ c # 1 BY <1>2, <1>3 DEF XargsInv, XargsTyped, Running
<1>5. Forks(os, 1, c, os') BY <1>1, <1>2, <1>3, ForkIs
<1>6. /\ IsSystem(os') /\ os'.state = [os.state EXCEPT ![c] = "run"]
      /\ os'.parent[c] = 1 /\ os'.parent[1] = InitPid
  BY <1>2, <1>3, <1>4, <1>5 DEF Forks, IsSystem
<1>7. /\ at'[1] = parent /\ at'[c] = child /\ \A q \in Pids \ {1, c} : at'[q] = at[q]
      /\ at' \in [Pids -> {"main", "check", "last", "command", "gone"} \cup Attending \cup Starting]
  BY <1>1, <1>2, <1>3, <1>4 DEF XargsInv, XargsTyped
<1>8. /\ DOMAIN mem' = Pids /\ mem'[1].pid = c /\ mem'[c] = mem[1]
      /\ mem'[1].rest = mem[1].rest
      /\ DOMAIN mem'[1] = {"pid", "rest", "comandos", "iterador"}
  <2> DEFINE m == mem[1]
             k == [m EXCEPT !["pid"] = c]
  <2>1. DOMAIN mem = Pids /\ DOMAIN m = {"pid", "rest", "comandos", "iterador"}
    BY DEF XargsInv, XargsTyped
  <2>2. k.pid = c /\ k.rest = m.rest /\ DOMAIN k = DOMAIN m BY <2>1
  <2>3. mem'[1] = k /\ mem'[c] = m /\ DOMAIN mem' = Pids
    <3> HIDE DEF k, m
    <3>1. mem' = [mem EXCEPT ![c] = m, ![1] = k] BY <1>1 DEF k, m
    <3> QED BY <1>2, <1>3, <1>4, <2>1, <3>1
  <2> QED BY <2>1, <2>2, <2>3
<1>9. \A q \in Pids \ {1, c} : os'.state[q] = "none" /\ at'[q] = at[q] /\ os.state[q] = "none"
  BY <1>2, <1>3, <1>6, <1>7 DEF XargsInv, OneCommand, IsSystem
<1>10. \A q \in Pids : Running(os', q) <=> at'[q] # "gone"
  <2>1. os'.state[1] = "run" /\ os'.state[c] = "run"
    BY <1>2, <1>3, <1>4, <1>6 DEF Running, IsSystem
  <2>2. parent # "gone" /\ child # "gone" BY DEF Attending, Starting
  <2> QED BY <1>7, <1>9, <2>1, <2>2 DEF XargsInv, XargsTyped, Running
<1>11. XargsTyped'
  <2>1. \A q \in Pids \ {1} : at'[q] \in Starting \cup {"command", "gone"}
    BY <1>7 DEF XargsInv, XargsTyped
  <2>2. at'[1] \notin Starting \cup {"command"} BY <1>7 DEF Attending, Starting
  <2> QED BY <1>6, <1>7, <1>8, <1>10, <2>1, <2>2 DEF XargsTyped
<1>12. OneCommand'
  <2>1. at'[1] \notin {"main", "check", "last", "gone"} BY <1>7 DEF Attending
  <2>2. \A p \in Pids \ {1, c} : os'.state[p] = "none" BY <1>9
  <2> QED BY <1>3, <1>4, <1>6, <1>7, <1>8, <2>1, <2>2 DEF OneCommand
<1> QED BY <1>7, <1>8, <1>11, <1>12

(* leer_comandos *)
LEMMA XargsLeer ==
  ASSUME XargsInv, X!XargsAssumption, NEW n \in 0..NARGS, AllFull, Gathered(n),
         NEW parent, NEW child,
         \/ at[1] = "check" /\ parent = "wait" /\ child = "exec" /\ n = NARGS
         \/ at[1] = "last" /\ parent = "wait_last" /\ child = "exec_last" /\ n < NARGS,
         X!leer_comandos(1, parent, child)
  PROVE  XargsInv'
<1>1. 1 \in Pids /\ out' = out BY Constants DEF X!leer_comandos
<1>2. Running(os, 1) /\ \A q \in Pids \ {1} : ~Running(os, q)
  BY <1>1 DEF XargsInv, XargsTyped, OneCommand, Running
<1>3. CASE FreePids(os) = {}
  BY <1>1, <1>2, <1>3, XargsSystem, XargsDies DEF X!leer_comandos
<1>4. CASE FreePids(os) # {}
  <2>1. X!ForkTo(1, os, mem[1], parent, child, "pid") BY <1>4, XargsSystem DEF X!leer_comandos
  <2>2. parent \in Attending /\ child \in Starting /\ (parent = "wait" <=> child = "exec")
    BY DEF Attending, Starting
  <2>3. /\ XargsTyped' /\ OneCommand'
        /\ at'[1] = parent /\ at'[mem'[1].pid] = child /\ mem'[1].rest = mem[1].rest
        /\ mem'[mem'[1].pid].comandos = mem[1].comandos
    BY <1>4, <2>1, <2>2, XargsForks
  <2>4. mem[1].comandos = Batch(Len(out), n) /\ Left(mem[1].rest, Len(out) * NARGS + n)' /\ AllFull'
    BY <1>1, <2>3 DEF Gathered, AllFull
  <2>5. Batches'
    <3>1. CASE at[1] = "check"
      <4>1. Len(out) * NARGS + n = (Len(out) + 1) * NARGS
        BY <3>1 DEF XargsInv, Batches, X!XargsAssumption
      <4> QED BY <1>1, <2>3, <2>4, <3>1, <4>1 DEF XargsInv, Batches
    <3>2. CASE at[1] = "last"
      BY <1>1, <2>3, <2>4, <3>2 DEF XargsInv, Batches
    <3> QED BY <3>1, <3>2
  <2> QED BY <2>3, <2>5 DEF XargsInv
<1> QED BY <1>3, <1>4

(* A full batch is given to a command; others wait for more lines. *)
LEMMA XargsCheck ==
  ASSUME XargsInv, X!XargsAssumption, NEW p \in Pids, X!Check(p) \/ X!LastBatch(p) PROVE XargsInv'
<1>1. at[p] \in {"check", "last"} /\ p = 1
  BY Constants DEF XargsInv, XargsTyped, X!Check, X!LastBatch, Starting
<1>2. AllFull /\ mem[1].iterador \in 1..NARGS
      /\ Gathered(IF at[1] = "check" THEN mem[1].iterador ELSE mem[1].iterador - 1)
  BY <1>1 DEF XargsInv, Batches
<1>3. CASE at[1] = "check" /\ mem[1].iterador # NARGS
  BY <1>1, <1>3, XargsGoesOn DEF X!Check, X!LastBatch, X!Reached, X!Goto
<1>4. CASE at[1] = "check" /\ mem[1].iterador = NARGS
  <2>1. X!leer_comandos(1, "wait", "exec") BY <1>1, <1>4 DEF X!Check, X!LastBatch, X!Reached
  <2>2. Gathered(NARGS) /\ NARGS \in 0..NARGS BY <1>2, <1>4 DEF X!XargsAssumption
  <2> QED BY <1>2, <1>4, <2>1, <2>2, XargsLeer
<1>5. CASE at[1] = "last"
  <2>1. X!leer_comandos(1, "wait_last", "exec_last") BY <1>1, <1>5 DEF X!Check, X!LastBatch
  <2> DEFINE n == mem[1].iterador - 1
  <2>2. Gathered(n) /\ n \in 0..NARGS /\ n < NARGS BY <1>2, <1>5 DEF X!XargsAssumption
  <2> HIDE DEF n
  <2> QED BY <1>2, <1>5, <2>1, <2>2, XargsLeer
<1> QED BY <1>1, <1>3, <1>4, <1>5

(* A command that starts or ends, or that would. *)
LEMMA XargsExec ==
  ASSUME XargsInv, X!XargsAssumption, exists, NEW p \in Pids, X!Exec(p) PROVE XargsInv'
<1> DEFINE b == mem[p].comandos
<1>1. at[p] \in Starting /\ p # 1 /\ Running(os, p) /\ 1 \in Pids
  BY Constants DEF XargsInv, XargsTyped, X!Exec, Starting
<1>2. out' = Append(out, b) /\ at' = [at EXCEPT ![p] = "command"] /\ os' = os /\ mem' = mem
  BY DEF X!Exec, X!Goto
<1>3. at[1] \in Attending /\ p = mem[1].pid /\ (at[1] = "wait" <=> at[p] = "exec")
  <2>1. at[1] \in Attending /\ p = mem[1].pid BY <1>1, OnlyBatch
  <2> QED BY <1>1, <2>1 DEF XargsInv, OneCommand
<1>4. /\ at'[p] = "command" /\ \A q \in Pids \ {p} : at'[q] = at[q]
      /\ at' \in [Pids -> {"main", "check", "last", "command", "gone"} \cup Attending \cup Starting]
  BY <1>2 DEF XargsInv, XargsTyped
<1>5. XargsTyped'
  <2>1. \A q \in Pids : Running(os', q) <=> at'[q] # "gone"
    BY <1>1, <1>2, <1>4 DEF XargsInv, XargsTyped
  <2>2. /\ \A q \in Pids \ {1} : at'[q] \in Starting \cup {"command", "gone"}
        /\ at'[1] = at[1]
    BY <1>1, <1>4 DEF XargsInv, XargsTyped
  <2> QED BY <1>2, <1>4, <2>1, <2>2 DEF XargsInv, XargsTyped
<1>6. OneCommand'
  <2>1. at'[1] = at[1] /\ at'[p] \notin Starting /\ at[1] \notin {"main", "check", "last", "gone"}
    BY <1>1, <1>3, <1>4 DEF Starting, Attending
  <2> QED BY <1>2, <1>3, <2>1 DEF XargsInv, OneCommand
<1>7. PICK n \in 0..NARGS : /\ AllFull /\ b = Batch(Len(out), n)
                            /\ at[1] = "wait" => n = NARGS /\ Left(mem[1].rest, (Len(out) + 1) * NARGS)
  <2>0. NARGS \in 0..NARGS BY DEF X!XargsAssumption
  <2>1. CASE at[1] = "wait" BY <1>3, <2>0, <2>1 DEF XargsInv, Batches
  <2>2. CASE at[1] = "wait_last" BY <1>1, <1>3, <2>2 DEF XargsInv, Batches, Starting
  <2> QED BY <1>3, <2>1, <2>2 DEF Attending
<1>8. /\ out \in Seq(Seq(Nat)) /\ Len(out) \in Nat /\ NARGS \in Nat /\ b \in Seq(Nat)
  <2>1. out \in Seq(Seq(Nat)) /\ NARGS \in Nat BY DEF XargsInv, Batches, X!XargsAssumption
  <2>2. Len(out) \in Nat BY <2>1
  <2>3. Batch(Len(out), n) \in Seq(Nat) BY <2>1, <2>2, BatchIs
  <2> QED BY <1>7, <2>1, <2>2, <2>3
<1>9. /\ out' \in Seq(Seq(Nat)) /\ Len(out') = Len(out) + 1 /\ out'[Len(out) + 1] = b
      /\ DOMAIN out' = 1..(Len(out) + 1) /\ DOMAIN out = 1..Len(out)
      /\ \A i \in DOMAIN out : out'[i] = out[i]
  <2> HIDE DEF b
  <2> QED BY <1>2, <1>8
<1>10. \A i \in DOMAIN out' :
          /\ i < Len(out') => out'[i] = Batch(i - 1, NARGS)
          /\ i = Len(out') => out'[i] = Batch(i - 1, n)
          /\ i <= Len(out')
  <2> TAKE i \in DOMAIN out'
  <2>1. CASE i = Len(out) + 1
    <3>1. i - 1 = Len(out) /\ ~(i < Len(out')) BY <1>8, <1>9, <2>1
    <3>2. out'[i] = Batch(i - 1, n) BY <1>7, <1>9, <2>1, <3>1
    <3> QED BY <1>8, <1>9, <2>1, <3>1, <3>2
  <2>2. CASE i # Len(out) + 1
    <3>1. i \in DOMAIN out /\ i < Len(out') BY <1>8, <1>9, <2>2
    <3> QED BY <1>7, <1>9, <3>1 DEF AllFull
  <2> QED BY <2>1, <2>2
<1>11. \A i \in DOMAIN out' :
         \E k \in 0..NARGS : out'[i] = Batch(i - 1, k) /\ (i < Len(out') => k = NARGS)
  <2> TAKE i \in DOMAIN out'
  <2>1. CASE i < Len(out') BY <1>8, <1>10, <2>1 DEF X!XargsAssumption
  <2>2. CASE ~(i < Len(out'))
    <3>1. i = Len(out') BY <1>8, <1>9, <2>2
    <3> QED BY <1>10, <2>2, <3>1
  <2> QED BY <2>1, <2>2
<1>12. at[1] = "wait" => AllFull' /\ Left(mem[1].rest, Len(out) * NARGS)'
  <2> SUFFICES ASSUME at[1] = "wait" PROVE AllFull' /\ Left(mem[1].rest, Len(out) * NARGS)' OBVIOUS
  <2>1. n = NARGS /\ Left(mem[1].rest, (Len(out) + 1) * NARGS) BY <1>7
  <2>2. AllFull'
    <3>1. \A i \in DOMAIN out' : i < Len(out') \/ i = Len(out') BY <1>8, <1>9
    <3> QED BY <1>10, <2>1, <3>1 DEF AllFull
  <2> QED BY <1>2, <1>9, <2>1, <2>2
<1>13. Batches'
  <2>1. at'[1] = at[1] /\ at'[p] = "command" /\ at[1] \notin {"main", "check", "last"}
    BY <1>1, <1>3, <1>4 DEF Attending
  <2> QED BY <1>2, <1>3, <1>9, <1>11, <1>12, <2>1 DEF Batches
<1> QED BY <1>5, <1>6, <1>13 DEF XargsInv

(* The command that xargs waits for ends. *)
LEMMA XargsCommandEnds ==
  ASSUME XargsInv, NEW p \in Pids, X!CommandEnds(p) PROVE XargsInv'
<1>1. at[p] = "command" /\ p # 1 /\ Running(os, p) /\ 1 \in Pids /\ IsSystem(os)
  BY Constants DEF XargsInv, XargsTyped, X!CommandEnds
<1>2. os' = Exit(os, p, X!Exited(0)) /\ at' = [at EXCEPT ![p] = "gone"]
      /\ mem' = [mem EXCEPT ![p] = X!NoMemory] /\ out' = out
  BY XargsSystem DEF X!CommandEnds, X!Die, X!Goto
<1>3. at[1] \in Attending /\ p = mem[1].pid BY <1>1, OnlyBatch
<1>4. os.parent[p] = 1 /\ os.parent[1] = InitPid /\ 1 # InitPid
      /\ \A q \in Pids \ {1, p} : os.state[q] = "none"
  BY <1>3, Constants DEF XargsInv, XargsTyped, OneCommand
<1>5. /\ IsSystem(os') /\ os'.state[p] = "zombie" /\ os'.state[1] = os.state[1]
      /\ os'.parent[p] = 1 /\ os'.parent[1] = InitPid
      /\ \A q \in Pids \ {1, p} : os'.state[q] = "none"
  <2> DEFINE word == X!Exited(0)
  <2>1. /\ IsSystem(os')
        /\ os'.state[p] = IF os.parent[p] = InitPid THEN "none" ELSE "zombie"
        /\ \A q \in Pids \ {p} :
             os'.state[q] = os.state[q] \/ (os.state[q] = "zombie" /\ os'.state[q] = "none")
        /\ \A q \in Pids :
             os'.parent[q] = IF os.state[q] # "none" /\ os.parent[q] = p THEN InitPid ELSE os.parent[q]
    <3>1. os' = Exit(os, p, word) BY <1>2
    <3> HIDE DEF word
    <3> QED BY <1>1, <3>1, ExitNow
  <2>2. Running(os, 1) BY <1>1, <1>3 DEF XargsInv, XargsTyped, Attending
  <2> QED BY <1>1, <1>4, <2>1, <2>2 DEF Running
<1>6. /\ at'[1] = at[1] /\ at'[p] = "gone" /\ \A q \in Pids \ {1, p} : at'[q] = at[q]
      /\ at' \in [Pids -> {"main", "check", "last", "command", "gone"} \cup Attending \cup Starting]
  BY <1>1, <1>2 DEF XargsInv, XargsTyped
<1>7. DOMAIN mem' = Pids /\ mem'[1] = mem[1] BY <1>1, <1>2 DEF XargsInv, XargsTyped
<1>8. \A q \in Pids : Running(os', q) <=> at'[q] # "gone"
  <2>1. \A q \in Pids \ {1, p} : ~Running(os, q) BY <1>4 DEF Running
  <2>2. Running(os, 1) BY <1>1, <1>3 DEF XargsInv, XargsTyped, Attending
  <2> QED BY <1>5, <1>6, <2>1, <2>2 DEF XargsInv, XargsTyped, Running
<1>9. XargsTyped'
  <2>1. \A q \in Pids \ {1} : at'[q] \in Starting \cup {"command", "gone"}
    BY <1>6 DEF XargsInv, XargsTyped
  <2> QED BY <1>5, <1>6, <1>7, <1>8, <2>1 DEF XargsInv, XargsTyped
<1>10. OneCommand'
  <2>1. at'[1] \notin {"main", "check", "last", "gone"} /\ at'[p] \notin Starting
    BY <1>3, <1>6 DEF Attending, Starting
  <2> QED BY <1>1, <1>3, <1>5, <1>7, <2>1 DEF OneCommand
<1>11. Batches'
  <2>1. at'[1] \notin {"main", "check", "last"} BY <1>3, <1>6 DEF Attending
  <2> QED BY <1>1, <1>2, <1>3, <1>6, <1>7, <2>1 DEF XargsInv, Batches, AllFull
<1> QED BY <1>9, <1>10, <1>11 DEF XargsInv

(* A wait that returns has taken the command. *)
LEMMA WaitEndsBatch ==
  ASSUME XargsInv, at[1] \in Attending, WaitReturns(os, 1, AnyChild)
  PROVE  /\ \A q \in Pids \ {1} : ~Running(os, q)
         /\ \A z \in Done(os, 1, AnyChild) : Zombie(os, z) /\ z = mem[1].pid
<1>1. \A z \in Done(os, 1, AnyChild) : Zombie(os, z) /\ z \in Children(os, 1)
  BY DEF Done, Awaited
<1>2. \A q \in Pids \ {1, mem[1].pid} : os.state[q] = "none" BY DEF XargsInv, OneCommand
<1>3. ASSUME NEW z \in Done(os, 1, AnyChild) PROVE Zombie(os, z) /\ z = mem[1].pid
  <2>1. z \in Pids /\ os.parent[z] = 1 /\ Zombie(os, z) BY <1>1 DEF Children
  <2>2. z # 1 BY <2>1, Constants DEF XargsInv, XargsTyped
  <2> QED BY <1>2, <2>1, <2>2 DEF Zombie
<1>4. ASSUME NEW q \in Pids \ {1}, Running(os, q) PROVE FALSE
  <2>1. q = mem[1].pid BY <1>4, OnlyBatch
  <2>2. os.parent[q] = 1 BY <2>1 DEF XargsInv, OneCommand
  <2>3. q \in Children(os, 1) BY <1>4, <2>2 DEF Children, Running
  <2>4. PICK z \in Done(os, 1, AnyChild) : TRUE BY <2>3 DEF WaitReturns, Awaited
  <2> QED BY <1>3, <1>4, <2>1, <2>4 DEF Running, Zombie
<1> QED BY <1>3, <1>4

(* xargs goes on once its command has been waited for. *)
LEMMA XargsWait ==
  ASSUME XargsInv, X!XargsAssumption, NEW p \in Pids, X!Wait(p) PROVE XargsInv'
<1>1. at[p] \in Attending /\ p = 1 /\ Running(os, 1) /\ 1 \in Pids /\ out' = out
  BY Constants DEF XargsInv, XargsTyped, X!Wait, Attending, Starting
<1>2. WaitReturns(os, 1, AnyChild)
  <2>1. X!AnyChild = AnyChild BY DEF X!AnyChild, AnyChild
  <2> QED BY <1>1, <2>1, XargsSystem DEF X!Wait
<1>3. /\ \A q \in Pids \ {1} : ~Running(os, q)
      /\ \A z \in Done(os, 1, AnyChild) : Zombie(os, z) /\ z = mem[1].pid
  BY <1>1, <1>2, WaitEndsBatch
<1>4. CASE at[1] = "wait_last" /\ X!Die(1, X!Exited(0)) BY <1>1, <1>3, <1>4, XargsDies
<1>5. CASE /\ at[1] = "wait" /\ at' = [at EXCEPT ![1] = "main"]
           /\ mem' = [mem EXCEPT ![1].comandos = <<>>, ![1].iterador = 1]
           /\ \E z \in Done(os, 1, AnyChild) : os' = Reap(os, {z})
  <2>1. PICK z \in Done(os, 1, AnyChild) : os' = Reap(os, {z}) BY <1>5
  <2>2. z = mem[1].pid /\ Zombie(os, z) BY <1>3
  <2>3. z \in Pids \ {1} /\ IsSystem(os) /\ \A q \in Pids \ {1, z} : os.state[q] = "none"
    BY <1>5, <2>2 DEF XargsInv, OneCommand, XargsTyped, Attending
  <2>4. /\ IsSystem(os') /\ os'.parent = os.parent
        /\ os'.state = [q \in Pids |-> IF q \in {z} THEN "none" ELSE os.state[q]]
    <3>1. /\ IsSystem(Reap(os, {z}))
          /\ Reap(os, {z}).state = [c \in Pids |-> IF c \in {z} THEN "none" ELSE os.state[c]]
          /\ \A x \in DOMAIN os \ {"state"} : Reap(os, {z})[x] = os[x]
      BY <2>3, ReapIs
    <3>2. "parent" \in DOMAIN os \ {"state"} BY <2>3 DEF IsSystem
    <3> QED BY <2>1, <3>1, <3>2
  <2>5. /\ at'[1] = "main" /\ \A q \in Pids \ {1} : at'[q] = at[q]
        /\ at' \in [Pids -> {"main", "check", "last", "command", "gone"} \cup Attending \cup Starting]
    BY <1>1, <1>5 DEF XargsInv, XargsTyped
  <2>6. /\ DOMAIN mem' = Pids /\ DOMAIN mem'[1] = {"pid", "rest", "comandos", "iterador"}
        /\ mem'[1].comandos = <<>> /\ mem'[1].iterador = 1 /\ mem'[1].rest = mem[1].rest
    <3>1. DOMAIN mem = Pids /\ DOMAIN mem[1] = {"pid", "rest", "comandos", "iterador"}
      BY <1>5 DEF XargsInv, XargsTyped
    <3> QED BY <1>1, <1>5, <3>1
  <2>7. XargsTyped'
    <3>1. \A q \in Pids : Running(os', q) <=> at'[q] # "gone"
      BY <1>1, <1>3, <2>3, <2>4, <2>5 DEF XargsInv, XargsTyped, Running
    <3> QED BY <2>4, <2>5, <2>6, <3>1 DEF XargsInv, XargsTyped, Starting
  <2>8. OneCommand' BY <2>3, <2>4, <2>5 DEF OneCommand, Attending
  <2>9. AllFull' /\ Left(mem[1].rest, Len(out) * NARGS)'
    <3>1. at[z] # "exec" BY <1>3, <2>3 DEF XargsInv, XargsTyped
    <3> QED BY <1>1, <1>5, <2>2, <2>6, <3>1 DEF XargsInv, Batches, AllFull
  <2>10. NARGS \in Nat \ {0} /\ out \in Seq(Seq(Nat)) BY DEF XargsInv, Batches, X!XargsAssumption
  <2>11. Len(out) \in Nat BY <2>10
  <2>12. Batch(Len(out), 0) = <<>> /\ Len(out) * NARGS + 0 = Len(out) * NARGS
    BY <2>10, <2>11, BatchIs
  <2>13. Gathered(0)' BY <1>1, <2>6, <2>9, <2>12 DEF Gathered
  <2>14. mem'[1].iterador \in 1..NARGS /\ mem'[1].iterador - 1 = 0 BY <2>6, <2>10
  <2>15. Batches'
    BY <1>1, <2>5, <2>9, <2>13, <2>14 DEF XargsInv, Batches
  <2> QED BY <2>7, <2>8, <2>15 DEF XargsInv
<1>6. \/ at[1] = "wait_last" /\ X!Die(1, X!Exited(0))
      \/ /\ at[1] = "wait" /\ at' = [at EXCEPT ![1] = "main"]
         /\ mem' = [mem EXCEPT ![1].comandos = <<>>, ![1].iterador = 1]
         /\ \E z \in Done(os, 1, AnyChild) : os' = Reap(os, {z})
  <2>1. X!AnyChild = AnyChild BY DEF X!AnyChild, AnyChild
  <2>2. CASE at[1] = "wait"
    <3>1. \E z \in X!Done(os, 1, X!AnyChild) :
             os' = X!Reap(os, {z}) /\ X!NewBatch(1) /\ X!Goto(1, "main")
      BY <1>1, <2>2 DEF X!Wait
    <3> QED BY <2>1, <2>2, <3>1, XargsSystem DEF X!NewBatch, X!Goto
  <2>3. CASE at[1] # "wait" BY <1>1, <2>3 DEF X!Wait, Attending
  <2> QED BY <2>2, <2>3
<1> QED BY <1>4, <1>5, <1>6

(* At the start nothing has been read or given. *)
LEMMA XargsInit == X!Init /\ X!XargsAssumption => XargsInv
<1> SUFFICES ASSUME X!Init, X!XargsAssumption PROVE XargsInv OBVIOUS
<1>1. PICK n \in 0..MaxInput :
        /\ os = X!Booted
        /\ at = [p \in Pids |-> IF p = 1 THEN "main" ELSE "gone"]
        /\ mem = [p \in Pids |-> IF p = 1
             THEN [pid |-> 0, rest |-> [i \in 1..n |-> i], comandos |-> <<>>, iterador |-> 1]
             ELSE X!NoMemory]
  BY XargsSystem DEF X!Init, X!Boot
<1>2. X!Booted = Booted
  <2>1. [m \in X!Stdin..X!Stderr |-> X!Closed] = [m \in Stdin..Stderr |-> Closed]
    BY Zenon DEF X!Stdin, X!Stderr, Stdin, Stderr, X!Closed, Closed
  <2>2. X!Stdin = Stdin /\ X!Stderr = Stderr /\ X!Closed = Closed /\ X!Tty = Tty
        /\ X!InitPid = InitPid /\ X!Pids = Pids
    BY Zenon DEF X!Stdin, X!Stderr, Stdin, Stderr, X!Closed, Closed, X!Tty, Tty,
                 X!InitPid, InitPid, X!Pids, Pids
  <2>3. X!Exited(0) = Exited(0) BY Zenon DEF X!Exited, Exited
  <2> QED BY <2>2, <2>3, Zenon DEF X!Booted, Booted
<1>3. IsSystem(os) /\ 1 \in Pids /\ os.parent[1] = InitPid
      /\ os.state = [p \in Pids |-> IF p = 1 THEN "run" ELSE "none"]
  BY <1>1, <1>2, Constants DEF Booted, IsSystem
<1>4. n \in Nat /\ out = <<>> /\ NARGS \in Nat \ {0} BY DEF X!Init, X!XargsAssumption
<1>5. /\ mem[1].rest = [i \in 1..n |-> i] /\ mem[1].comandos = <<>> /\ mem[1].iterador = 1
      /\ DOMAIN mem[1] = {"pid", "rest", "comandos", "iterador"} /\ DOMAIN mem = Pids
  BY <1>1, <1>3
<1>6. XargsTyped BY <1>1, <1>3, <1>5 DEF XargsTyped, Running, Attending, Starting
<1>7. OneCommand BY <1>1, <1>3 DEF OneCommand, Attending
<1>8. Gathered(0)
  <2>1. Len(out) = 0 /\ Batch(0, 0) = <<>> BY <1>4, BatchIs
  <2>2. 0 * NARGS + 0 = 0 BY <1>4
  <2>3. [i \in 1..n |-> i] = [j \in 1..n |-> 0 + j] BY <1>4
  <2>4. Left(mem[1].rest, 0) BY <1>4, <1>5, <2>3 DEF Left
  <2> QED BY <1>5, <2>1, <2>2, <2>4 DEF Gathered
<1>9. Batches
  <2>1. at[1] = "main" /\ mem[1].iterador - 1 = 0 /\ mem[1].iterador \in 1..NARGS
    BY <1>1, <1>3, <1>4, <1>5
  <2>2. AllFull /\ out \in Seq(Seq(Nat)) /\ DOMAIN out = {} BY <1>4 DEF AllFull
  <2> QED BY <1>8, <2>1, <2>2 DEF Batches
<1> QED BY <1>6, <1>7, <1>9 DEF XargsInv

(* XargsInv is inductive. *)
LEMMA XargsNext ==
  ASSUME exists => XargsInv, X!XargsAssumption, [X!Next]_(X!vars)
  PROVE  (exists => XargsInv)'
<1>1. CASE UNCHANGED X!vars
  <2>1. os' = os /\ at' = at /\ mem' = mem /\ out' = out /\ exists' = exists BY <1>1 DEF X!vars
  <2>2. exists => XargsTyped' /\ OneCommand'
    BY <2>1 DEF XargsInv, XargsTyped, OneCommand, Running
  <2>3. exists => Batches' BY <2>1 DEF XargsInv, Batches, AllFull, Gathered
  <2> QED BY <2>1, <2>2, <2>3 DEF XargsInv
<1>2. CASE X!Next
  <2>1. PICK p \in Pids : X!Step(p) BY <1>2, XargsSystem DEF X!Next
  <2>2. exists' = exists
    BY <2>1 DEF X!Step, X!main, X!Check, X!LastBatch, X!leer_comandos, X!Exec, X!CommandEnds, X!Wait
  <2> SUFFICES ASSUME exists PROVE XargsInv' BY <2>2
  <2> QED BY <2>1, XargsMain, XargsCheck, XargsExec, XargsCommandEnds, XargsWait DEF X!Step
<1> QED BY <1>1, <1>2

(* What XargsInv says of the batches is what the run checks. *)
LEMMA BatchesAreExact ==
  ASSUME XargsInv, X!XargsAssumption PROVE X!BatchesExact
<1>1. \A i \in DOMAIN out :
        /\ \A j \in DOMAIN out[i] : out[i][j] = (i - 1) * NARGS + j
        /\ Len(out[i]) <= NARGS /\ (i < Len(out) => Len(out[i]) = NARGS)
  <2> TAKE i \in DOMAIN out
  <2>1. PICK n \in 0..NARGS : out[i] = Batch(i - 1, n) /\ (i < Len(out) => n = NARGS)
    BY DEF XargsInv, Batches
  <2>2. NARGS \in Nat /\ n \in Nat /\ n <= NARGS /\ i - 1 \in Nat
    BY DEF XargsInv, Batches, X!XargsAssumption
  <2>3. /\ Batch(i - 1, n) \in Seq(Nat) /\ Len(Batch(i - 1, n)) = n
        /\ \A j \in 1..n : Batch(i - 1, n)[j] = (i - 1) * NARGS + j
    BY <2>2, BatchIs
  <2>4. DOMAIN Batch(i - 1, n) = 1..n BY <2>3
  <2> QED BY <2>1, <2>2, <2>3, <2>4
<1>2. \A p, q \in Pids : at[p] = "command" /\ at[q] = "command" => p = q
  <2>1. ASSUME NEW p \in Pids, at[p] = "command" PROVE p = mem[1].pid
    <3>1. p # 1 /\ Running(os, p) BY <2>1 DEF XargsInv, XargsTyped
    <3> QED BY <3>1, OnlyBatch
  <2> QED BY <2>1
<1>3. at[1] = "gone" => \A p \in Pids : at[p] = "gone" BY DEF XargsInv, OneCommand
<1> QED BY <1>1, <1>2, <1>3, XargsSystem DEF X!BatchesExact

(* When the command exists, xargs runs it on exact batches, for any input, *)
(* any NARGS and forks that fail: every line once and in order, NARGS of   *)
(* them to all but the last command, one command at a time and none left   *)
(* when xargs has ended (xargs.c:28-41, 65-76, 92-99).                     *)
THEOREM BatchesExactHolds ==
  ASSUME X!XargsAssumption
  PROVE  X!Init /\ [][X!Next]_(X!vars) => [](exists => X!BatchesExact)
<1>1. X!Init => (exists => XargsInv) BY XargsInit
<1>2. (exists => XargsInv) /\ [X!Next]_(X!vars) => (exists => XargsInv)' BY XargsNext
<1>3. (exists => XargsInv) => (exists => X!BatchesExact) BY BatchesAreExact
<1> QED BY <1>1, <1>2, <1>3, PTL

-----------------------------------------------------------------------------
(* Primes, with its constant and a variable; what it prints is `out` too. *)
CONSTANT Limit
VARIABLE terminal
P == INSTANCE Primes

(* A number without divisors up to b, and the next one after x. *)
Rough(b, m) == \A d \in 2..b : m % d # 0
NextRough(b, x, y) == x < y /\ Rough(b, y) /\ \A m \in (x + 1)..(y - 1) : ~Rough(b, m)
Alike(a, b) == \A m \in Nat : Rough(a, m) <=> Rough(b, m)

(* The numbers s come one after the other, from the one after x on. *)
Before(x, s, i) == IF i = 1 THEN x ELSE s[i - 1]
Stream(b, x, s) == \A i \in 1..Len(s) : s[i] <= Limit /\ NextRough(b, Before(x, s, i), s[i])
LastOf(x, s) == IF s = <<>> THEN x ELSE s[Len(s)]

(* Who reads from a pipe and who writes into one.  A process of the        *)
(* frontier has yet to find its prime, or a successor.                     *)
Fresh == {"first_filter", "child", "filtro"}
Frontier == Fresh \cup {"main", "next_filter"}
Generating == {"generator", "generar_numeros"}
Sieving == {"parent", "sieve", "pass"}
Readers == Fresh \cup Sieving \cup {"next_filter"}
Writers == Generating \cup Sieving
From(p) == IF at[p] \in {"first_filter", "child"} THEN mem[p].pipe ELSE mem[p].up
Into(p) == mem[p].pipe

(* The last number a process has read, and up to where the numbers that it *)
(* reads have no divisors.  A process that has not found its own prime has *)
(* its parent's.                                                           *)
Greater(a, b) == IF a < b THEN b ELSE a
LastRead(p) ==
    IF at[p] \in Fresh THEN Greater(mem[p].primo, 1) ELSE Greater(mem[p].numero, mem[p].primo)
Bound(p) == IF at[p] \in Fresh THEN mem[p].primo ELSE mem[p].primo - 1

(* The memory of a process. *)
Sound(p) == at[p] # "gone" =>
    /\ DOMAIN mem[p] = {"pid", "pipe", "up", "numero", "primo", "buffer"}
    /\ mem[p].numero \in Nat /\ mem[p].primo \in Nat /\ mem[p].buffer \in Seq(Nat)
    /\ mem[p].primo # 1
    /\ at[p] \in Frontier => mem[p].numero = 2
    /\ at[p] = "main" => mem[p].primo = 0
    /\ at[p] \in Sieving \cup {"next_filter"} => mem[p].primo >= 2
    /\ at[p] = "pass" => mem[p].numero <= Limit /\ mem[p].primo <= mem[p].numero

SieveTyped ==
    /\ IsSystem(os) /\ DOMAIN mem = Pids /\ terminal \in BOOLEAN
    /\ os.buf \in [1..NPipe -> Seq(Nat)]
    /\ at \in [Pids -> Frontier \cup Generating \cup Sieving \cup {"wait", "gone"}]
    /\ \A p \in Pids : (Running(os, p) <=> at[p] # "gone") /\ Sound(p)
    /\ \A p, q \in Pids : at[p] \in Frontier /\ at[q] \in Frontier => p = q

(* A process holds the ends of its pipes, and no other uses them. *)
HoldsEnds(p) ==
    /\ at[p] \in Readers => From(p) \in 1..NPipe /\ R(From(p)) \in os.open[p]
    /\ at[p] \in Writers => Into(p) \in 1..NPipe /\ W(Into(p)) \in os.open[p]
    /\ at[p] \in Sieving \cup {"child"} => mem[p].up # mem[p].pipe
PipesApart ==
    /\ \A p \in Pids : HoldsEnds(p)
    /\ \A p, q \in Pids : at[p] \in Readers /\ at[q] \in Readers /\ From(p) = From(q) => p = q
    /\ \A p, q \in Pids : at[p] \in Writers /\ at[q] \in Writers /\ Into(p) = Into(q) => p = q

(* What process w has still to write comes next in the stream of r. *)
Feeds(w, r) ==
    LET l == LastOf(LastRead(r), os.buf[From(r)])
    IN  IF at[w] \in Generating THEN Bound(r) <= 1 /\ mem[w].numero = l + 1
        ELSE /\ Alike(mem[w].primo, Bound(r))
             /\ IF at[w] = "pass" THEN NextRough(Bound(r), l, mem[w].numero)
                ELSE l <= LastRead(w) /\ \A m \in (l + 1)..LastRead(w) : ~Rough(Bound(r), m)

(* Every process reads the numbers that its predecessors have left, in     *)
(* order, and none is missing.                                             *)
Streams ==
    \A r \in Pids : at[r] \in Readers =>
        /\ Stream(Bound(r), LastRead(r), os.buf[From(r)])
        /\ \A w \in Pids : at[w] \in Writers /\ Into(w) = From(r) => Feeds(w, r)

(* What has been printed, or waits in a buffer to be. *)
Prints ==
    /\ out \in Seq(Nat) /\ Range(out) \subseteq P!PrimesUpTo(Limit)
    /\ terminal => P!IsSorted(out) /\ \A i \in DOMAIN out : P!PrimesUpTo(out[i]) \subseteq Range(out)
    /\ \A p \in Pids : at[p] # "gone" =>
          /\ Range(mem[p].buffer) \subseteq P!PrimesUpTo(Limit)
          /\ terminal => mem[p].buffer = <<>>
          /\ terminal /\ at[p] \in Frontier => mem[p].primo = LastOf(0, out)

SieveInv == SieveTyped /\ PipesApart /\ Streams /\ Prints

(* What it means that a division leaves no remainder. *)
LEMMA Divides ==
  ASSUME NEW m \in Nat, NEW d \in Nat, d > 0
  PROVE  m % d = 0 <=> \E k \in Nat : m = d * k
<1>1. m % d = 0 => \E k \in Nat : m = d * k OBVIOUS
<1>2. ASSUME NEW k \in Nat, m = d * k PROVE m % d = 0 BY <1>2
<1> QED BY <1>1, <1>2

(* A divisor of a divisor is a divisor. *)
LEMMA DividesTransitive ==
  ASSUME NEW m \in Nat, NEW d \in Nat, d > 0, NEW e \in Nat, e > 0, m % d = 0, d % e = 0
  PROVE  m % e = 0
<1>1. PICK j \in Nat : m = d * j BY Divides
<1>2. PICK k \in Nat : d = e * k BY Divides
<1>3. m = e * (k * j) /\ k * j \in Nat BY <1>1, <1>2
<1> QED BY <1>3, Divides

(* A number without divisors up to q, and no other such number below it    *)
(* but those up to q, is a prime, and rules out no more than those below.  *)
LEMMA NextIsPrime ==
  ASSUME NEW q \in Nat, q # 1, NEW n \in Nat, NextRough(q, Greater(q, 1), n)
  PROVE  /\ n >= 2 /\ q < n /\ \A d \in 2..(n - 1) : n % d # 0
         /\ Alike(q, n - 1)
         /\ \A m \in (q + 1)..(n - 1) : m >= 2 => \E d \in 2..(m - 1) : m % d = 0
<1> DEFINE x == Greater(q, 1)
<1>1. x \in Nat /\ x >= 1 /\ x >= q /\ x < n /\ Rough(q, n)
      /\ \A m \in (x + 1)..(n - 1) : ~Rough(q, m)
  BY DEF NextRough, Greater
<1>2. \A d \in Int : d > q /\ d >= 2 => d >= x + 1 BY DEF Greater
<1>3. ASSUME NEW m \in Nat, NEW d \in 2..(n - 1), d > q, m % d = 0
      PROVE  \E e \in 2..q : m % e = 0
  <2>1. d \in (x + 1)..(n - 1) BY <1>1, <1>2, <1>3
  <2>2. PICK e \in 2..q : d % e = 0 BY <1>1, <2>1 DEF Rough
  <2>3. d \in Nat /\ d > 0 /\ e \in Nat /\ e > 0 BY <1>1, <2>2
  <2>4. m % e = 0 BY <1>3, <2>2, <2>3, DividesTransitive
  <2> QED BY <2>4
<1>4. \A d \in 2..(n - 1) : n % d # 0
  <2> SUFFICES ASSUME NEW d \in 2..(n - 1), n % d = 0 PROVE FALSE OBVIOUS
  <2>1. CASE d > q BY <1>1, <1>3, <2>1 DEF Rough
  <2>2. CASE d <= q BY <1>1, <2>2 DEF Rough
  <2> QED BY <2>1, <2>2
<1>5. Alike(q, n - 1)
  <2> SUFFICES ASSUME NEW m \in Nat PROVE Rough(q, m) <=> Rough(n - 1, m) BY DEF Alike
  <2>1. Rough(n - 1, m) => Rough(q, m)
    <3>1. \A d \in 2..q : d \in 2..(n - 1) BY <1>1
    <3> QED BY <3>1 DEF Rough
  <2>2. ASSUME Rough(q, m), NEW d \in 2..(n - 1), m % d = 0 PROVE FALSE
    <3>1. CASE d > q BY <1>3, <2>2, <3>1 DEF Rough
    <3>2. CASE d <= q BY <2>2, <3>2 DEF Rough
    <3> QED BY <3>1, <3>2
  <2> QED BY <2>1, <2>2 DEF Rough
<1>6. ASSUME NEW m \in (q + 1)..(n - 1), m >= 2 PROVE \E d \in 2..(m - 1) : m % d = 0
  <2>1. m \in (x + 1)..(n - 1) BY <1>1, <1>2, <1>6
  <2>2. PICK d \in 2..q : m % d = 0 BY <1>1, <2>1 DEF Rough
  <2>3. d \in 2..(m - 1) BY <1>6, <2>2
  <2> QED BY <2>2, <2>3
<1> HIDE DEF x
<1> QED BY <1>1, <1>4, <1>5, <1>6

(* A sequence without length. *)
LEMMA EmptySeq ==
  ASSUME NEW S, NEW s \in Seq(S), Len(s) = 0 PROVE s = <<>>
OBVIOUS

(* Whoever takes the first number of a stream has the rest of it before him. *)
LEMMA StreamHead ==
  ASSUME NEW b \in Int, NEW x \in Nat, NEW s \in Seq(Nat), Stream(b, x, s), s # <<>>
  PROVE  /\ Head(s) \in Nat /\ Head(s) <= Limit /\ NextRough(b, x, Head(s))
         /\ Stream(b, Head(s), Tail(s)) /\ LastOf(Head(s), Tail(s)) = LastOf(x, s)
<1>1. Len(s) \in Nat /\ Len(s) >= 1 /\ Head(s) = s[1] /\ s[1] \in Nat OBVIOUS
<1>2. s[1] <= Limit /\ NextRough(b, x, s[1]) BY <1>1 DEF Stream, Before
<1>3. /\ Tail(s) \in Seq(Nat) /\ Len(Tail(s)) = Len(s) - 1
      /\ \A i \in 1..(Len(s) - 1) : Tail(s)[i] = s[i + 1]
  BY <1>1
<1>4. Stream(b, s[1], Tail(s))
  <2> SUFFICES ASSUME NEW i \in 1..(Len(s) - 1)
               PROVE  Tail(s)[i] <= Limit /\ NextRough(b, Before(s[1], Tail(s), i), Tail(s)[i])
    BY <1>3 DEF Stream
  <2>1. i + 1 \in 1..Len(s) /\ Tail(s)[i] = s[i + 1] BY <1>1, <1>3
  <2>2. Before(s[1], Tail(s), i) = Before(x, s, i + 1)
    <3>1. CASE i = 1 BY <3>1 DEF Before
    <3>2. CASE i # 1
      <4>1. i - 1 \in 1..(Len(s) - 1) /\ (i + 1) - 1 = i /\ (i - 1) + 1 = i BY <1>1, <3>2
      <4>2. Tail(s)[i - 1] = s[i] BY <1>3, <4>1
      <4> QED BY <3>2, <4>1, <4>2 DEF Before
    <3> QED BY <3>1, <3>2
  <2> QED BY <2>1, <2>2 DEF Stream
<1>5. LastOf(s[1], Tail(s)) = LastOf(x, s)
  <2> DEFINE t == Tail(s)
  <2>1. t \in Seq(Nat) /\ Len(t) = Len(s) - 1 /\ \A i \in 1..(Len(s) - 1) : t[i] = s[i + 1]
    BY <1>3
  <2> HIDE DEF t
  <2>2. CASE Len(s) = 1
    <3>1. t = <<>> BY <2>1, <2>2, EmptySeq
    <3> QED BY <2>2, <3>1 DEF LastOf, t
  <2>3. CASE Len(s) > 1
    <3>1. t # <<>> BY <2>1, <2>3
    <3>2. Len(s) - 1 \in 1..(Len(s) - 1) /\ (Len(s) - 1) + 1 = Len(s) BY <1>1, <2>3
    <3>3. t[Len(s) - 1] = s[Len(s)] BY <2>1, <3>2
    <3>4. LastOf(s[1], t) = s[Len(s)] BY <2>1, <3>1, <3>3 DEF LastOf
    <3> QED BY <3>4 DEF LastOf, t
  <2>4. Len(s) = 1 \/ Len(s) > 1 BY <1>1
  <2> QED BY <2>2, <2>3, <2>4
<1> QED BY <1>1, <1>2, <1>4, <1>5

(* A stream stays one when the next number is put at its end. *)
LEMMA StreamGrows ==
  ASSUME NEW b \in Int, NEW x \in Nat, NEW s \in Seq(Nat), Stream(b, x, s), NEW n \in Nat,
         n <= Limit, NextRough(b, LastOf(x, s), n)
  PROVE  Stream(b, x, Append(s, n)) /\ LastOf(x, Append(s, n)) = n
<1> DEFINE t == Append(s, n)
<1>1. /\ t \in Seq(Nat) /\ Len(t) = Len(s) + 1 /\ Len(s) \in Nat /\ t[Len(s) + 1] = n
      /\ \A i \in 1..Len(s) : t[i] = s[i]
  OBVIOUS
<1>2. t # <<>> BY <1>1
<1> HIDE DEF t
<1>3. LastOf(x, t) = n BY <1>1, <1>2 DEF LastOf
<1>4. ASSUME NEW i \in 1..Len(t) PROVE t[i] <= Limit /\ NextRough(b, Before(x, t, i), t[i])
  <2>1. CASE i = Len(s) + 1
    <3>1. Before(x, t, i) = LastOf(x, s)
      <4>1. CASE s = <<>> BY <2>1, <4>1 DEF Before, LastOf
      <4>2. CASE s # <<>>
        <5>1. Len(s) >= 1 /\ i # 1 /\ i - 1 = Len(s) BY <1>1, <2>1, <4>2
        <5> QED BY <1>1, <4>2, <5>1 DEF Before, LastOf
      <4> QED BY <4>1, <4>2
    <3> QED BY <1>1, <2>1, <3>1
  <2>2. CASE i # Len(s) + 1
    <3>1. i \in 1..Len(s) /\ (i # 1 => i - 1 \in 1..Len(s)) BY <1>1, <2>2
    <3>2. t[i] = s[i] /\ Before(x, t, i) = Before(x, s, i) BY <1>1, <3>1 DEF Before
    <3> QED BY <3>1, <3>2 DEF Stream
  <2> QED BY <2>1, <2>2
<1>5. Stream(b, x, t) BY <1>4 DEF Stream
<1> QED BY <1>3, <1>5 DEF t

(* Bounds that rule out the same numbers make the same streams. *)
LEMMA StreamAlike ==
  ASSUME NEW a \in Int, NEW b \in Int, NEW x \in Nat, NEW s \in Seq(Nat),
         Alike(a, b), Stream(a, x, s)
  PROVE  Stream(b, x, s)
<1>1. ASSUME NEW y \in Nat, NEW z \in Nat, NextRough(a, y, z) PROVE NextRough(b, y, z)
  BY <1>1 DEF NextRough, Alike
<1>2. ASSUME NEW i \in 1..Len(s) PROVE Before(x, s, i) \in Nat /\ s[i] \in Nat
  BY <1>2 DEF Before
<1> QED BY <1>1, <1>2 DEF Stream

(* What a sieve of prime p leaves of the numbers that it reads. *)
LEMMA Sieved ==
  ASSUME NEW p \in Nat, p >= 2, NEW b \in Int, Alike(p, b), NEW l \in Nat, NEW c \in Nat, NEW n \in Nat,
         l <= c, \A m \in (l + 1)..c : ~Rough(b, m), NextRough(p - 1, c, n)
  PROVE  IF P!Passes(n, p) THEN NextRough(b, l, n)
         ELSE l <= n /\ \A m \in (l + 1)..n : ~Rough(b, m)
<1>1. c < n /\ Rough(p - 1, n) /\ \A m \in (c + 1)..(n - 1) : ~Rough(p - 1, m)
  BY DEF NextRough
<1>2. \A m \in Nat : Rough(p, m) <=> Rough(p - 1, m) /\ m % p # 0
  <2> TAKE m \in Nat
  <2>1. \A d : d \in 2..p <=> d \in 2..(p - 1) \/ d = p OBVIOUS
  <2> QED BY <2>1, Zenon DEF Rough
<1>3. \A m \in (l + 1)..(n - 1) : ~Rough(b, m)
  <2> SUFFICES ASSUME NEW m \in (l + 1)..(n - 1) PROVE ~Rough(b, m) OBVIOUS
  <2>1. CASE m <= c BY <2>1
  <2>2. CASE m > c
    <3>1. m \in Nat /\ m \in (c + 1)..(n - 1) BY <2>2
    <3> QED BY <1>1, <1>2, <3>1 DEF Alike
  <2> QED BY <2>1, <2>2
<1>4. Rough(b, n) <=> n % p # 0 BY <1>1, <1>2 DEF Alike
<1>5. CASE n % p # 0 BY <1>1, <1>3, <1>4, <1>5 DEF P!Passes, NextRough
<1>6. CASE n % p = 0
  <2>1. \A m \in (l + 1)..n : m \in (l + 1)..(n - 1) \/ m = n OBVIOUS
  <2> QED BY <1>1, <1>3, <1>4, <1>6, <2>1 DEF P!Passes
<1> QED BY <1>5, <1>6

(* The system of Primes is that of Shell. *)
LEMMA PrimesSystem ==
    /\ P!Pids = Pids /\ P!InitPid = InitPid
    /\ \A o, p, st : P!Exit(o, p, st) = Exit(o, p, st)
    /\ \A o, p, c : P!Fork(o, p, c) = Fork(o, p, c)
    /\ \A o, B : P!Reap(o, B) = Reap(o, B)
    /\ \A o : P!FreePids(o) = FreePids(o)
    /\ \A o : P!NewPid(o) = NewPid(o)
    /\ \A o, p : P!Children(o, p) = Children(o, p)
    /\ \A o, p, c : P!Done(o, p, c) = Done(o, p, c)
    /\ \A o, p, c : P!WaitReturns(o, p, c) <=> WaitReturns(o, p, c)
    /\ \A o, p : P!Zombie(o, p) <=> Zombie(o, p)
    /\ \A k : P!R(k) = R(k) /\ P!W(k) = W(k)
    /\ \A o : P!FreePipes(o) = FreePipes(o) /\ P!NewPipe(o) = NewPipe(o)
    /\ \A o, p : P!MakePipe(o, p) = MakePipe(o, p)
    /\ \A o, p, e : P!Close(o, p, e) = Close(o, p, e)
<1>1. P!Pids = Pids /\ P!InitPid = InitPid BY DEF P!Pids, Pids, P!InitPid, InitPid
<1>2. \A o, p : P!Zombie(o, p) <=> Zombie(o, p) BY DEF P!Zombie, Zombie
<1>3. \A o, p : P!Children(o, p) = Children(o, p) BY <1>1 DEF P!Children, Children
<1>4. \A o, p, st : P!Exit(o, p, st) = Exit(o, p, st)
  <2> SUFFICES ASSUME NEW o, NEW p, NEW st PROVE P!Exit(o, p, st) = Exit(o, p, st)
    OBVIOUS
  <2>1. [n \in P!Stdin..P!Stderr |-> P!Closed] = [n \in Stdin..Stderr |-> Closed]
    BY Zenon DEF P!Stdin, P!Stderr, Stdin, Stderr, P!Closed, Closed
  <2>2. [c \in P!Pids |-> IF c = p THEN IF o.parent[p] = P!InitPid THEN "none" ELSE "zombie"
                 ELSE IF c \in P!Children(o, p) /\ P!Zombie(o, c) THEN "none" ELSE o.state[c]]
        = [c \in Pids |-> IF c = p THEN IF o.parent[p] = InitPid THEN "none" ELSE "zombie"
                 ELSE IF c \in Children(o, p) /\ Zombie(o, c) THEN "none" ELSE o.state[c]]
    BY <1>1, <1>2, <1>3
  <2>3. [c \in P!Pids |-> IF c \in P!Children(o, p) THEN P!InitPid ELSE o.parent[c]]
        = [c \in Pids |-> IF c \in Children(o, p) THEN InitPid ELSE o.parent[c]]
    BY <1>1, <1>3
  <2> QED BY <1>1, <2>1, <2>2, <2>3, Zenon DEF P!Exit, Exit
<1>5. \A o, p, c : P!Fork(o, p, c) = Fork(o, p, c)
  BY DEF P!Fork, Fork, P!Exited, Exited
<1>6. \A o, B : P!Reap(o, B) = Reap(o, B) BY <1>1 DEF P!Reap, Reap
<1>7. \A o : P!FreePids(o) = FreePids(o) BY <1>1 DEF P!FreePids, FreePids
<1>8. \A o : P!NewPid(o) = NewPid(o) BY <1>7 DEF P!NewPid, NewPid, P!Lowest, Lowest
<1>9. \A o, p, c : P!Done(o, p, c) = Done(o, p, c)
  BY <1>2, <1>3 DEF P!Done, Done, P!Awaited, Awaited, P!AnyChild, AnyChild
<1>10. \A o, p, c : P!WaitReturns(o, p, c) <=> WaitReturns(o, p, c)
  BY <1>3, <1>9 DEF P!WaitReturns, WaitReturns, P!Awaited, Awaited, P!AnyChild, AnyChild
<1>11. \A k : P!R(k) = R(k) /\ P!W(k) = W(k) BY DEF P!R, R, P!W, W
<1>12. \A o : P!FreePipes(o) = FreePipes(o)
  <2>1. \A o, p : P!Held(o, p) = Held(o, p) BY DEF P!Held, Held, P!Range, Range
  <2>2. \A o, p : P!Running(o, p) <=> Running(o, p) BY DEF P!Running, Running
  <2>3. \A o, e : P!Holders(o, e) = Holders(o, e) BY <1>1, <2>1, <2>2 DEF P!Holders, Holders
  <2> QED BY <1>11, <2>3 DEF P!FreePipes, FreePipes
<1>13. \A o : P!NewPipe(o) = NewPipe(o) BY <1>12 DEF P!NewPipe, NewPipe, P!Lowest, Lowest
<1>14. \A o, p : P!MakePipe(o, p) = MakePipe(o, p)
  BY <1>11, <1>13 DEF P!MakePipe, MakePipe
<1>15. \A o, p, e : P!Close(o, p, e) = Close(o, p, e) BY DEF P!Close, Close
<1> QED BY <1>1, <1>2, <1>3, <1>4, <1>5, <1>6, <1>7, <1>8, <1>9, <1>10, <1>11, <1>12, <1>13,
           <1>14, <1>15

(* What fork, pipe, close, read and write do to the pipes. *)
LEMMA ForkKeepsBuffers ==
  ASSUME NEW o, IsSystem(o), NEW p \in Pids, NEW c \in Pids
  PROVE  Fork(o, p, c).buf = o.buf
BY DEF Fork, IsSystem

(* pipe takes a pipe that nobody holds, and empties it. *)
LEMMA NewPipeIs ==
  ASSUME NEW o, IsSystem(o), NEW p \in Pids, FreePipes(o) # {}
  PROVE  /\ IsSystem(MakePipe(o, p)) /\ NewPipe(o) \in FreePipes(o) /\ NewPipe(o) \in 1..NPipe
         /\ MakePipe(o, p).buf = [o.buf EXCEPT ![NewPipe(o)] = <<>>]
         /\ MakePipe(o, p).open = [o.open EXCEPT ![p] = @ \cup {R(NewPipe(o)), W(NewPipe(o))}]
         /\ MakePipe(o, p).state = o.state /\ MakePipe(o, p).group = o.group
         /\ MakePipe(o, p).fd = o.fd
<1> DEFINE k == NewPipe(o)
<1>1. k \in FreePipes(o)
  <2>1. FreePipes(o) \subseteq Nat BY Constants DEF FreePipes
  <2> QED BY <2>1, LowestIs DEF NewPipe
<1>2. k \in 1..NPipe BY <1>1 DEF FreePipes
<1>3. MakePipe(o, p) = [o EXCEPT !.buf[k] = <<>>, !.open[p] = @ \cup {R(k), W(k)}]
  BY DEF MakePipe
<1> HIDE DEF k
<1>4. /\ IsSystem(MakePipe(o, p)) /\ MakePipe(o, p).buf = [o.buf EXCEPT ![k] = <<>>]
      /\ MakePipe(o, p).open = [o.open EXCEPT ![p] = @ \cup {R(k), W(k)}]
      /\ MakePipe(o, p).state = o.state /\ MakePipe(o, p).group = o.group
      /\ MakePipe(o, p).fd = o.fd
  BY <1>2, <1>3 DEF IsSystem
<1> QED BY <1>1, <1>2, <1>4 DEF k

(* Pipes that nobody holds are nobody's to use. *)
LEMMA FreePipeUnused ==
  ASSUME NEW o, IsSystem(o), NEW k \in FreePipes(o), NEW p \in Pids, Running(o, p)
  PROVE  R(k) \notin o.open[p] /\ W(k) \notin o.open[p]
BY DEF FreePipes, Holders, Held

(* A read or a write changes one pipe. *)
LEMMA ReadIs ==
  ASSUME SieveTyped, NEW k \in 1..NPipe, os' = P!Read(os, R(k))
  PROVE  /\ IsSystem(os') /\ os'.buf = [os.buf EXCEPT ![k] = Tail(os.buf[k])]
         /\ os'.open = os.open /\ os'.state = os.state
<1>1. R(k)[2] = k BY DEF R
<1> QED BY <1>1 DEF P!Read, SieveTyped, IsSystem

(* A write adds to one pipe. *)
LEMMA WriteIs ==
  ASSUME SieveTyped, NEW k \in 1..NPipe, NEW n, os' = P!Write(os, W(k), n)
  PROVE  /\ IsSystem(os') /\ os'.buf = [os.buf EXCEPT ![k] = Append(os.buf[k], n)]
         /\ os'.open = os.open /\ os'.state = os.state
<1>1. W(k)[1] = "write" /\ W(k)[2] = k BY DEF W
<1> QED BY <1>1 DEF P!Write, SieveTyped, IsSystem

(* A step leaves the other processes alone. *)
Others(p) == \A q \in Pids \ {p} :
    /\ at'[q] = at[q] /\ mem'[q] = mem[q] /\ os'.open[q] = os.open[q]
    /\ Running(os', q) <=> Running(os, q)

SieveLabels == Frontier \cup Generating \cup Sieving \cup {"wait", "gone"}

(* Nothing that is said of a process changes unless its state does. *)
LEMMA SameProcess ==
  ASSUME NEW q, at'[q] = at[q], mem'[q] = mem[q], os'.open[q] = os.open[q]
  PROVE  /\ From(q)' = From(q) /\ Into(q)' = Into(q)
         /\ LastRead(q)' = LastRead(q) /\ Bound(q)' = Bound(q)
         /\ HoldsEnds(q)' <=> HoldsEnds(q)
         /\ Sound(q)' <=> Sound(q)
<1>1. From(q)' = From(q) /\ Into(q)' = Into(q) BY DEF From, Into
<1>2. LastRead(q)' = LastRead(q) /\ Bound(q)' = Bound(q) BY DEF LastRead, Bound
<1>3. HoldsEnds(q)' <=> HoldsEnds(q) BY <1>1 DEF HoldsEnds
<1>4. Sound(q)' <=> Sound(q) BY DEF Sound
<1> QED BY <1>1, <1>2, <1>3, <1>4

(* The same, of the processes that a step of p leaves alone. *)
LEMMA OthersAre ==
  ASSUME NEW p \in Pids, Others(p), NEW q \in Pids \ {p}
  PROVE  /\ From(q)' = From(q) /\ Into(q)' = Into(q)
         /\ LastRead(q)' = LastRead(q) /\ Bound(q)' = Bound(q)
         /\ HoldsEnds(q)' <=> HoldsEnds(q)
         /\ Sound(q)' <=> Sound(q)
BY SameProcess DEF Others

(* The types, after a step of p. *)
LEMMA TypedStep ==
  ASSUME SieveTyped, NEW p \in Pids, Others(p), IsSystem(os'), os'.buf \in [1..NPipe -> Seq(Nat)],
         DOMAIN mem' = Pids, NEW l \in SieveLabels, at' = [at EXCEPT ![p] = l],
         terminal' = terminal, Running(os', p) <=> l # "gone", Sound(p)',
         l \in Frontier => at[p] \in Frontier
  PROVE  SieveTyped' /\ at'[p] = l
<1>1. at' \in [Pids -> SieveLabels] /\ at'[p] = l BY DEF SieveTyped, SieveLabels
<1>2. \A q \in Pids : (Running(os', q) <=> at'[q] # "gone") /\ Sound(q)'
  <2> TAKE q \in Pids
  <2>1. CASE q = p BY <1>1, <2>1
  <2>2. CASE q # p BY <2>2, OthersAre DEF Others, SieveTyped
  <2> QED BY <2>1, <2>2
<1>3. \A q \in Pids : at'[q] \in Frontier => at[q] \in Frontier BY <1>1 DEF Others
<1>4. \A q, r \in Pids : at'[q] \in Frontier /\ at'[r] \in Frontier => q = r
  BY <1>3 DEF SieveTyped
<1> QED BY <1>1, <1>2, <1>4 DEF SieveTyped, SieveLabels

(* Pipes stay apart when p takes no end that it did not hold. *)
LEMMA ApartStep ==
  ASSUME PipesApart, NEW p \in Pids, Others(p), HoldsEnds(p)',
         at'[p] \in Readers => at[p] \in Readers /\ From(p)' = From(p),
         at'[p] \in Writers => at[p] \in Writers /\ Into(p)' = Into(p)
  PROVE  PipesApart'
<1>1. \A q \in Pids : HoldsEnds(q)'
  <2> TAKE q \in Pids
  <2>1. CASE q # p BY <2>1, OthersAre DEF PipesApart
  <2> QED BY <2>1
<1>2. \A q \in Pids : at'[q] \in Readers => at[q] \in Readers /\ From(q)' = From(q)
  <2> TAKE q \in Pids
  <2>1. CASE q # p BY <2>1, OthersAre DEF Others
  <2> QED BY <2>1
<1>3. \A q \in Pids : at'[q] \in Writers => at[q] \in Writers /\ Into(q)' = Into(q)
  <2> TAKE q \in Pids
  <2>1. CASE q # p BY <2>1, OthersAre DEF Others
  <2> QED BY <2>1
<1>4. \A q, r \in Pids : at'[q] \in Readers /\ at'[r] \in Readers /\ From(q)' = From(r)' => q = r
  BY <1>2 DEF PipesApart
<1>5. \A q, r \in Pids : at'[q] \in Writers /\ at'[r] \in Writers /\ Into(q)' = Into(r)' => q = r
  BY <1>3 DEF PipesApart
<1> QED BY <1>1, <1>4, <1>5 DEF PipesApart

(* A writer goes on feeding a reader when neither has moved in the stream. *)
LEMMA FeedsSame ==
  ASSUME NEW w, NEW r, Feeds(w, r), Bound(r)' = Bound(r),
         LastOf(LastRead(r), os.buf[From(r)])' = LastOf(LastRead(r), os.buf[From(r)]),
         mem'[w].numero = mem[w].numero,
         at'[w] \in Generating <=> at[w] \in Generating,
         at'[w] = "pass" <=> at[w] = "pass",
         at[w] \notin Generating => mem'[w].primo = mem[w].primo /\ LastRead(w)' = LastRead(w)
  PROVE  Feeds(w, r)'
<1> DEFINE l == LastOf(LastRead(r), os.buf[From(r)])
<1>1. l' = l OBVIOUS
<1> HIDE DEF l
<1>2. CASE at[w] \in Generating BY <1>1, <1>2 DEF Feeds, l
<1>3. CASE at[w] \notin Generating
  <2>1. /\ Alike(mem[w].primo, Bound(r))
        /\ IF at[w] = "pass" THEN NextRough(Bound(r), l, mem[w].numero)
           ELSE l <= LastRead(w) /\ \A m \in (l + 1)..LastRead(w) : ~Rough(Bound(r), m)
    BY <1>3 DEF Feeds, l
  <2>2. /\ Alike(mem'[w].primo, Bound(r)')
        /\ IF at'[w] = "pass" THEN NextRough(Bound(r)', l', mem'[w].numero)
           ELSE l' <= LastRead(w)' /\ \A m \in (l' + 1)..LastRead(w)' : ~Rough(Bound(r)', m)
    BY <1>1, <1>3, <2>1
  <2> QED BY <1>3, <2>2 DEF Feeds, l
<1> QED BY <1>2, <1>3

(* Nothing is read or written. *)
LEMMA StreamsStep ==
  ASSUME Streams, NEW p \in Pids, Others(p), os'.buf = os.buf,
         at'[p] \in Readers =>
            at[p] \in Readers /\ From(p)' = From(p) /\ Bound(p)' = Bound(p) /\ LastRead(p)' = LastRead(p),
         at'[p] \in Writers =>
            /\ at[p] \in Writers /\ Into(p)' = Into(p) /\ mem'[p].numero = mem[p].numero
            /\ at'[p] \in Generating <=> at[p] \in Generating
            /\ at'[p] # "pass" /\ at[p] # "pass"
            /\ at[p] \notin Generating => mem'[p].primo = mem[p].primo /\ LastRead(p)' = LastRead(p)
  PROVE  Streams'
<1> SUFFICES ASSUME NEW r \in Pids, at'[r] \in Readers
             PROVE  /\ Stream(Bound(r)', LastRead(r)', os'.buf[From(r)'])
                    /\ \A w \in Pids : at'[w] \in Writers /\ Into(w)' = From(r)' => Feeds(w, r)'
  BY DEF Streams
<1>1. at[r] \in Readers /\ From(r)' = From(r) /\ Bound(r)' = Bound(r) /\ LastRead(r)' = LastRead(r)
  <2>1. CASE r # p BY <2>1, OthersAre DEF Others
  <2> QED BY <2>1
<1>2. Stream(Bound(r)', LastRead(r)', os'.buf[From(r)']) BY <1>1 DEF Streams
<1>3. ASSUME NEW w \in Pids, at'[w] \in Writers, Into(w)' = From(r)' PROVE Feeds(w, r)'
  <2>1. /\ at[w] \in Writers /\ Into(w)' = Into(w) /\ mem'[w].numero = mem[w].numero
        /\ at'[w] \in Generating <=> at[w] \in Generating
        /\ at'[w] = "pass" <=> at[w] = "pass"
        /\ at[w] \notin Generating => mem'[w].primo = mem[w].primo /\ LastRead(w)' = LastRead(w)
    <3>1. CASE w # p BY <1>3, <3>1, OthersAre DEF Others
    <3>2. CASE w = p BY <1>3, <3>2
    <3> QED BY <3>1, <3>2
  <2>2. Feeds(w, r) BY <1>1, <1>3, <2>1 DEF Streams
  <2>3. LastOf(LastRead(r), os.buf[From(r)])' = LastOf(LastRead(r), os.buf[From(r)]) BY <1>1
  <2> QED BY <1>1, <2>1, <2>2, <2>3, FeedsSame
<1> QED BY <1>2, <1>3

(* Nothing is printed. *)
LEMMA PrintsStep ==
  ASSUME Prints, NEW p \in Pids, Others(p), out' = out, terminal' = terminal,
         at'[p] # "gone" =>
            /\ at[p] # "gone" /\ mem'[p].buffer = mem[p].buffer
            /\ at'[p] \in Frontier => at[p] \in Frontier /\ mem'[p].primo = mem[p].primo
  PROVE  Prints'
<1>1. ASSUME NEW q \in Pids, at'[q] # "gone"
      PROVE  /\ Range(mem'[q].buffer) \subseteq P!PrimesUpTo(Limit)
             /\ terminal' => mem'[q].buffer = <<>>
             /\ terminal' /\ at'[q] \in Frontier => mem'[q].primo = LastOf(0, out')
  <2>1. /\ at[q] # "gone" /\ mem'[q].buffer = mem[q].buffer
        /\ at'[q] \in Frontier => at[q] \in Frontier /\ mem'[q].primo = mem[q].primo
    <3>1. CASE q # p BY <1>1, <3>1 DEF Others
    <3> QED BY <1>1, <3>1
  <2> QED BY <2>1 DEF Prints
<1> QED BY <1>1 DEF Prints

(* A process dies, and what its buffer holds is printed or not. *)
LEMMA SieveDies ==
  ASSUME SieveInv, NEW p \in Pids, at[p] # "gone", NEW word, P!Die(p, word),
         out' = out \/ out' = out \o mem[p].buffer, terminal' = terminal
  PROVE  SieveInv'
<1>1. /\ SieveTyped /\ IsSystem(os) /\ Running(os, p)
      /\ os' = Exit(os, p, word) /\ at' = [at EXCEPT ![p] = "gone"]
      /\ mem' = [mem EXCEPT ![p] = P!NoMemory]
  BY PrimesSystem DEF SieveInv, SieveTyped, P!Die, P!Goto
<1>2. /\ IsSystem(os')
      /\ os'.state[p] = IF os.parent[p] = InitPid THEN "none" ELSE "zombie"
      /\ \A c \in Pids \ {p} :
           os'.state[c] = os.state[c] \/ (os.state[c] = "zombie" /\ os'.state[c] = "none")
      /\ \A c \in Pids :
           os'.parent[c] = IF os.state[c] # "none" /\ os.parent[c] = p THEN InitPid ELSE os.parent[c]
      /\ \A c \in Pids \ {p} : os.parent[c] # p => os'.state[c] = os.state[c]
      /\ os'.group = os.group
      /\ os'.status = [os.status EXCEPT ![p] = word]
      /\ os'.fd = [os.fd EXCEPT ![p] = [n \in Stdin..Stderr |-> Closed]]
      /\ os'.open = [os.open EXCEPT ![p] = {}]
      /\ os'.buf = os.buf
  BY <1>1, ExitIs
<1>3. ~Running(os', p) BY <1>2 DEF Running
<1>4. Others(p)
  <2>1. \A q \in Pids \ {p} : at'[q] = at[q] /\ mem'[q] = mem[q] BY <1>1 DEF SieveTyped
  <2>2. \A q \in Pids \ {p} : os'.open[q] = os.open[q] BY <1>1, <1>2 DEF IsSystem
  <2>3. \A q \in Pids \ {p} : Running(os', q) <=> Running(os, q) BY <1>2 DEF Running
  <2> QED BY <2>1, <2>2, <2>3 DEF Others
<1>5. DOMAIN mem' = Pids /\ at'[p] = "gone" BY <1>1 DEF SieveTyped
<1>6. at'[p] \notin Readers /\ at'[p] \notin Writers /\ "gone" \notin Frontier
      /\ at'[p] \notin Sieving \cup {"child"} /\ "gone" \in SieveLabels
  BY <1>5 DEF Readers, Writers, Frontier, Fresh, Sieving, Generating, SieveLabels
<1>7. Sound(p)' /\ HoldsEnds(p)' BY <1>5, <1>6 DEF Sound, HoldsEnds
<1>8. os'.buf \in [1..NPipe -> Seq(Nat)] BY <1>1, <1>2 DEF SieveTyped
<1>9. SieveTyped' BY <1>1, <1>2, <1>3, <1>4, <1>5, <1>6, <1>7, <1>8, TypedStep
<1>10. PipesApart' BY <1>4, <1>6, <1>7, ApartStep DEF SieveInv
<1>11. Streams' BY <1>2, <1>4, <1>6, StreamsStep DEF SieveInv
<1>12. Prints'
  <2>1. CASE out' = out BY <1>4, <1>5, <2>1, PrintsStep DEF SieveInv
  <2>2. CASE out' = out \o mem[p].buffer
    <3>1. /\ out \in Seq(Nat) /\ mem[p].buffer \in Seq(Nat)
          /\ Range(mem[p].buffer) \subseteq P!PrimesUpTo(Limit)
          /\ Range(out) \subseteq P!PrimesUpTo(Limit)
      BY <1>1 DEF SieveInv, Prints, SieveTyped, Sound
    <3>2. out' \in Seq(Nat) /\ Range(out') \subseteq P!PrimesUpTo(Limit)
      BY <2>2, <3>1 DEF Range
    <3>3. terminal => out' = out
      <4>1. terminal => mem[p].buffer = <<>> BY DEF SieveInv, Prints
      <4> QED BY <2>2, <3>1, <4>1
    <3>4. \A q \in Pids : at'[q] # "gone" =>
             q # p /\ at[q] = at'[q] /\ mem'[q] = mem[q]
      BY <1>4, <1>5 DEF Others
    <3>5. terminal => P!IsSorted(out') /\ \A i \in DOMAIN out' : P!PrimesUpTo(out'[i]) \subseteq Range(out')
      BY <3>3 DEF SieveInv, Prints
    <3>6. \A q \in Pids : at'[q] # "gone" =>
             /\ Range(mem'[q].buffer) \subseteq P!PrimesUpTo(Limit)
             /\ terminal => mem'[q].buffer = <<>>
             /\ terminal /\ at'[q] \in Frontier => mem'[q].primo = LastOf(0, out')
      BY <3>3, <3>4 DEF SieveInv, Prints
    <3> QED BY <3>2, <3>5, <3>6 DEF Prints
  <2> QED BY <2>1, <2>2
<1> QED BY <1>9, <1>10, <1>11, <1>12 DEF SieveInv

(* The memory of one process changes. *)
Changes(p, m) == DOMAIN mem' = Pids /\ mem'[p] = m /\ \A q \in Pids \ {p} : mem'[q] = mem[q]

(* Two ways in which a step changes the memory. *)
LEMMA SieveSame ==
  ASSUME DOMAIN mem = Pids, NEW p \in Pids
  PROVE  /\ mem' = mem => Changes(p, mem[p])
         /\ \A m : mem' = [mem EXCEPT ![p] = m] => Changes(p, m)
BY DEF Changes

(* A process goes on, and neither reads nor writes. *)
LEMMA SieveMoves ==
  ASSUME SieveInv, NEW p \in Pids, at[p] # "gone",
         IsSystem(os'), os'.buf = os.buf, os'.state = os.state,
         NEW D, os'.open = [os.open EXCEPT ![p] = D],
         NEW l \in SieveLabels \ {"gone"}, at' = [at EXCEPT ![p] = l],
         NEW m, Changes(p, m), out' = out, terminal' = terminal,
         Sound(p)', HoldsEnds(p)', m.buffer = mem[p].buffer,
         l \in Frontier => at[p] \in Frontier /\ m.primo = mem[p].primo,
         l \in Readers =>
            at[p] \in Readers /\ From(p)' = From(p) /\ Bound(p)' = Bound(p) /\ LastRead(p)' = LastRead(p),
         l \in Writers =>
            /\ at[p] \in Writers /\ Into(p)' = Into(p) /\ m.numero = mem[p].numero
            /\ l \in Generating <=> at[p] \in Generating
            /\ l # "pass" /\ at[p] # "pass"
            /\ at[p] \notin Generating => m.primo = mem[p].primo /\ LastRead(p)' = LastRead(p)
  PROVE  SieveInv'
<1>1. SieveTyped /\ IsSystem(os) /\ DOMAIN mem = Pids BY DEF SieveInv, SieveTyped
<1>2. at'[p] = l /\ mem'[p] = m /\ DOMAIN mem' = Pids BY <1>1 DEF SieveTyped, Changes
<1>3. Others(p)
  <2>1. \A q \in Pids \ {p} : at'[q] = at[q] /\ mem'[q] = mem[q] BY <1>1 DEF SieveTyped, Changes
  <2>2. \A q \in Pids \ {p} : os'.open[q] = os.open[q] BY <1>1 DEF IsSystem
  <2> QED BY <2>1, <2>2 DEF Others, Running
<1>4. Running(os', p) <=> l # "gone" BY <1>1 DEF SieveTyped, Running
<1>5. os'.buf \in [1..NPipe -> Seq(Nat)] BY <1>1 DEF SieveTyped
<1>6. SieveTyped' BY <1>1, <1>2, <1>3, <1>4, <1>5, TypedStep
<1>7. PipesApart' BY <1>2, <1>3, ApartStep DEF SieveInv
<1>8. Streams'
  <2>1. Streams BY DEF SieveInv
  <2>2. at'[p] \in Readers =>
            at[p] \in Readers /\ From(p)' = From(p) /\ Bound(p)' = Bound(p) /\ LastRead(p)' = LastRead(p)
    BY <1>2
  <2>3. at'[p] \in Writers =>
            /\ at[p] \in Writers /\ Into(p)' = Into(p) /\ mem'[p].numero = mem[p].numero
            /\ at'[p] \in Generating <=> at[p] \in Generating
            /\ at'[p] # "pass" /\ at[p] # "pass"
            /\ at[p] \notin Generating => mem'[p].primo = mem[p].primo /\ LastRead(p)' = LastRead(p)
    BY <1>2
  <2> QED BY <1>3, <2>1, <2>2, <2>3, StreamsStep
<1>9. Prints' BY <1>2, <1>3, PrintsStep DEF SieveInv
<1> QED BY <1>6, <1>7, <1>8, <1>9 DEF SieveInv

(* What a process that closes a descriptor leaves of the system. *)
LEMMA Shuts ==
  ASSUME IsSystem(os), NEW p \in Pids, NEW e, os' = P!Close(os, p, e)
  PROVE  /\ IsSystem(os') /\ os'.buf = os.buf /\ os'.state = os.state
         /\ os'.open = [os.open EXCEPT ![p] = os.open[p] \ {e}]
         /\ os'.open[p] = os.open[p] \ {e}
<1>1. os' = Close(os, p, e) BY PrimesSystem
<1>2. /\ IsSystem(Close(os, p, e))
      /\ Close(os, p, e).open = [os.open EXCEPT ![p] = os.open[p] \ {e}]
      /\ \A x \in DOMAIN os \ {"open"} : Close(os, p, e)[x] = os[x]
  BY CloseIs
<1>3. "buf" \in DOMAIN os \ {"open"} /\ "state" \in DOMAIN os \ {"open"} BY DEF IsSystem
<1> QED BY <1>1, <1>2, <1>3 DEF IsSystem

(* The ends of pipes are different descriptors. *)
LEMMA EndsDiffer ==
  /\ \A j, k : R(j) # W(k)
  /\ \A j, k : R(j) = R(k) => j = k
  /\ \A j, k : W(j) = W(k) => j = k
BY DEF R, W

(* The generator closes the end that it does not use. *)
LEMMA SieveGenerator ==
  ASSUME SieveInv, NEW p \in Pids, P!Generator(p) PROVE SieveInv'
<1>1. /\ at[p] = "generator" /\ at' = [at EXCEPT ![p] = "generar_numeros"] /\ mem' = mem
      /\ os' = P!Close(os, p, R(Into(p))) /\ out' = out /\ terminal' = terminal
  BY PrimesSystem DEF P!Generator, P!Goto, P!Quiet, P!New, Into
<1>2. SieveTyped /\ IsSystem(os) /\ DOMAIN mem = Pids /\ Sound(p) /\ HoldsEnds(p)
      /\ Changes(p, mem[p])
  BY <1>1, SieveSame DEF SieveInv, SieveTyped, PipesApart
<1>3. /\ IsSystem(os') /\ os'.buf = os.buf /\ os'.state = os.state
      /\ os'.open = [os.open EXCEPT ![p] = os.open[p] \ {R(Into(p))}]
      /\ os'.open[p] = os.open[p] \ {R(Into(p))}
  BY <1>1, <1>2, Shuts
<1>4. at'[p] = "generar_numeros" BY <1>1, <1>2 DEF SieveTyped
<1> DEFINE l == "generar_numeros"
<1>5. l \in SieveLabels \ {"gone"} /\ l \notin Frontier /\ l \notin Readers /\ l \in Generating
      /\ l \in Writers /\ l # "pass" /\ at[p] \in Generating /\ at[p] \in Writers /\ at[p] # "pass"
      /\ l \notin Sieving \cup {"child"}
  BY <1>1 DEF SieveLabels, Frontier, Fresh, Readers, Writers, Generating, Sieving
<1>6. Sound(p)' BY <1>1, <1>2, <1>4 DEF Sound, Frontier, Fresh, Sieving
<1>7. Into(p)' = Into(p) BY <1>1 DEF Into
<1>8. HoldsEnds(p)' BY <1>2, <1>3, <1>4, <1>5, <1>7, EndsDiffer DEF HoldsEnds
<1> HIDE DEF l
<1>9. at' = [at EXCEPT ![p] = l] BY <1>1 DEF l
<1> QED BY <1>1, <1>2, <1>3, <1>5, <1>6, <1>7, <1>8, <1>9, SieveMoves

(* A filter closes the end that its successor reads from. *)
LEMMA SieveParent ==
  ASSUME SieveInv, NEW p \in Pids, P!Parent(p) PROVE SieveInv'
<1>1. /\ at[p] = "parent" /\ at' = [at EXCEPT ![p] = "sieve"] /\ mem' = mem
      /\ os' = P!Close(os, p, R(Into(p))) /\ out' = out /\ terminal' = terminal
  BY PrimesSystem DEF P!Parent, P!Goto, P!Quiet, P!New, Into
<1>2. SieveTyped /\ IsSystem(os) /\ DOMAIN mem = Pids /\ Sound(p) /\ HoldsEnds(p)
      /\ Changes(p, mem[p])
  BY <1>1, SieveSame DEF SieveInv, SieveTyped, PipesApart
<1>3. /\ IsSystem(os') /\ os'.buf = os.buf /\ os'.state = os.state
      /\ os'.open = [os.open EXCEPT ![p] = os.open[p] \ {R(Into(p))}]
      /\ os'.open[p] = os.open[p] \ {R(Into(p))}
  BY <1>1, <1>2, Shuts
<1>4. at'[p] = "sieve" BY <1>1, <1>2 DEF SieveTyped
<1> DEFINE l == "sieve"
<1>5. l \in SieveLabels \ {"gone"} /\ l \notin Frontier /\ l \in Readers /\ l \notin Generating
      /\ l \in Writers /\ l # "pass" /\ at[p] \notin Generating /\ at[p] \in Writers /\ at[p] # "pass"
      /\ l \in Sieving /\ at[p] \in Readers /\ at[p] \in Sieving
  BY <1>1 DEF SieveLabels, Frontier, Fresh, Readers, Writers, Generating, Sieving
<1>6. Sound(p)' BY <1>1, <1>2, <1>4 DEF Sound, Frontier, Fresh, Sieving
<1>7. Into(p)' = Into(p) /\ From(p)' = From(p) /\ From(p) = mem[p].up BY <1>1, <1>4 DEF Into, From
<1>8. LastRead(p)' = LastRead(p) /\ Bound(p)' = Bound(p) BY <1>1, <1>4 DEF LastRead, Bound, Fresh
<1>9. HoldsEnds(p)'
  <2>1. Into(p) # From(p) BY <1>2, <1>5, <1>7 DEF HoldsEnds, Into
  <2>2. R(From(p)) \in os'.open[p] /\ W(Into(p)) \in os'.open[p]
    BY <1>2, <1>3, <1>5, <2>1, EndsDiffer DEF HoldsEnds
  <2> QED BY <1>1, <1>2, <1>4, <1>5, <1>7, <2>2 DEF HoldsEnds
<1> HIDE DEF l
<1>10. at' = [at EXCEPT ![p] = l] BY <1>1 DEF l
<1> QED BY <1>1, <1>2, <1>3, <1>5, <1>6, <1>7, <1>8, <1>9, <1>10, SieveMoves

(* main closes the end that the generator writes to. *)
LEMMA SieveFirstFilter ==
  ASSUME SieveInv, NEW p \in Pids, P!FirstFilter(p) PROVE SieveInv'
<1> DEFINE m == [mem[p] EXCEPT !.up = mem[p].pipe]
           l == "filtro"
<1>1. /\ at[p] = "first_filter" /\ at' = [at EXCEPT ![p] = l] /\ mem' = [mem EXCEPT ![p] = m]
      /\ os' = P!Close(os, p, W(Into(p))) /\ out' = out /\ terminal' = terminal
  BY PrimesSystem DEF P!FirstFilter, P!Goto, P!Quiet, P!New, Into
<1>2. SieveTyped /\ IsSystem(os) /\ DOMAIN mem = Pids /\ Sound(p) /\ HoldsEnds(p)
  BY DEF SieveInv, SieveTyped, PipesApart
<1>3. /\ IsSystem(os') /\ os'.buf = os.buf /\ os'.state = os.state
      /\ os'.open = [os.open EXCEPT ![p] = os.open[p] \ {W(Into(p))}]
      /\ os'.open[p] = os.open[p] \ {W(Into(p))}
  BY <1>1, <1>2, Shuts
<1>4. at'[p] = "filtro" /\ mem'[p] = m /\ Changes(p, m)
  BY <1>1, <1>2, SieveSame DEF SieveTyped
<1>5. l \in SieveLabels \ {"gone"} /\ l \in Frontier /\ l \in Readers /\ l \notin Writers
      /\ at[p] \in Frontier /\ at[p] \in Readers /\ l \notin Sieving \cup {"child"} /\ l \in Fresh
      /\ at[p] \in Fresh
  BY <1>1 DEF SieveLabels, Frontier, Fresh, Readers, Writers, Generating, Sieving
<1>6. DOMAIN mem[p] = {"pid", "pipe", "up", "numero", "primo", "buffer"} /\ at[p] # "gone"
  BY <1>1, <1>2 DEF Sound
<1>7. /\ DOMAIN m = {"pid", "pipe", "up", "numero", "primo", "buffer"} /\ m.up = mem[p].pipe
      /\ m.numero = mem[p].numero /\ m.primo = mem[p].primo /\ m.buffer = mem[p].buffer
      /\ m.pipe = mem[p].pipe
  BY <1>6
<1> HIDE DEF m
<1>8. Sound(p)' BY <1>2, <1>4, <1>5, <1>6, <1>7 DEF Sound, Sieving
<1>9. From(p)' = From(p) /\ From(p) = mem[p].pipe BY <1>1, <1>4, <1>7 DEF From
<1>10. LastRead(p)' = LastRead(p) /\ Bound(p)' = Bound(p)
  BY <1>4, <1>5, <1>7 DEF LastRead, Bound
<1>11. HoldsEnds(p)' BY <1>2, <1>3, <1>4, <1>5, <1>9, EndsDiffer DEF HoldsEnds
<1> HIDE DEF l
<1> QED BY <1>1, <1>3, <1>4, <1>5, <1>6, <1>7, <1>8, <1>9, <1>10, <1>11, SieveMoves

(* A new filter closes the ends that are its parent's. *)
LEMMA SieveChild ==
  ASSUME SieveInv, NEW p \in Pids, P!Child(p) PROVE SieveInv'
<1> DEFINE m == [mem[p] EXCEPT !.up = mem[p].pipe]
           l == "filtro"
           r == Close(os, p, W(Into(p)))
           D == (os.open[p] \ {W(Into(p))}) \ {R(mem[p].up)}
<1>1. /\ at[p] = "child" /\ at' = [at EXCEPT ![p] = l] /\ mem' = [mem EXCEPT ![p] = m]
      /\ os' = Close(r, p, R(mem[p].up)) /\ out' = out /\ terminal' = terminal
  BY PrimesSystem DEF P!Child, P!ChildEnds, P!Goto, P!Quiet, P!New, Into
<1>2. SieveTyped /\ IsSystem(os) /\ DOMAIN mem = Pids /\ Sound(p) /\ HoldsEnds(p)
  BY DEF SieveInv, SieveTyped, PipesApart
<1>3. /\ IsSystem(os') /\ os'.buf = os.buf /\ os'.state = os.state
      /\ os'.open = [os.open EXCEPT ![p] = D] /\ os'.open[p] = D
  <2>1. /\ IsSystem(r) /\ r.open = [os.open EXCEPT ![p] = os.open[p] \ {W(Into(p))}]
        /\ \A x \in DOMAIN os \ {"open"} : r[x] = os[x]
    BY <1>2, CloseIs
  <2>2. r.buf = os.buf /\ r.state = os.state /\ r.open[p] = os.open[p] \ {W(Into(p))}
    BY <1>2, <2>1 DEF IsSystem
  <2> HIDE DEF r
  <2> DEFINE s == Close(r, p, R(mem[p].up))
  <2>3. /\ IsSystem(s) /\ s.open = [r.open EXCEPT ![p] = r.open[p] \ {R(mem[p].up)}]
        /\ \A x \in DOMAIN r \ {"open"} : s[x] = r[x]
    BY <2>1, CloseIs
  <2>4. s.buf = r.buf /\ s.state = r.state BY <2>1, <2>3 DEF IsSystem
  <2>5. os' = s BY <1>1
  <2> HIDE DEF s
  <2>6. s.open = [os.open EXCEPT ![p] = D] BY <1>2, <2>1, <2>2, <2>3 DEF IsSystem
  <2> QED BY <1>2, <2>2, <2>3, <2>4, <2>5, <2>6 DEF IsSystem
<1>4. at'[p] = "filtro" /\ mem'[p] = m /\ Changes(p, m)
  BY <1>1, <1>2, SieveSame DEF SieveTyped
<1>5. l \in SieveLabels \ {"gone"} /\ l \in Frontier /\ l \in Readers /\ l \notin Writers
      /\ at[p] \in Frontier /\ at[p] \in Readers /\ l \notin Sieving \cup {"child"} /\ l \in Fresh
      /\ at[p] \in Fresh
  BY <1>1 DEF SieveLabels, Frontier, Fresh, Readers, Writers, Generating, Sieving
<1>6. DOMAIN mem[p] = {"pid", "pipe", "up", "numero", "primo", "buffer"} /\ at[p] # "gone"
  BY <1>1, <1>2 DEF Sound
<1>7. /\ DOMAIN m = {"pid", "pipe", "up", "numero", "primo", "buffer"} /\ m.up = mem[p].pipe
      /\ m.numero = mem[p].numero /\ m.primo = mem[p].primo /\ m.buffer = mem[p].buffer
      /\ m.pipe = mem[p].pipe
  BY <1>6
<1> HIDE DEF m
<1>8. Sound(p)' BY <1>2, <1>4, <1>5, <1>6, <1>7 DEF Sound, Sieving
<1>9. From(p)' = From(p) /\ From(p) = mem[p].pipe BY <1>1, <1>4, <1>7 DEF From
<1>10. LastRead(p)' = LastRead(p) /\ Bound(p)' = Bound(p)
  BY <1>4, <1>5, <1>7 DEF LastRead, Bound
<1>11. HoldsEnds(p)'
  <2>1. mem[p].up # From(p) BY <1>1, <1>2, <1>9 DEF HoldsEnds
  <2>2. R(From(p)) \in D BY <1>2, <1>5, <2>1, EndsDiffer DEF HoldsEnds
  <2> QED BY <1>2, <1>3, <1>4, <1>5, <1>9, <2>2 DEF HoldsEnds
<1> HIDE DEF l, D
<1> QED BY <1>1, <1>3, <1>4, <1>5, <1>6, <1>7, <1>8, <1>9, <1>10, <1>11, SieveMoves

(* A process that has come to the end of its input waits. *)
LEMMA SieveEnds ==
  ASSUME SieveInv, NEW p \in Pids, at[p] # "gone",
         IsSystem(os'), os'.buf = os.buf, os'.state = os.state,
         NEW D, os'.open = [os.open EXCEPT ![p] = D],
         at' = [at EXCEPT ![p] = "wait"], mem' = mem, out' = out, terminal' = terminal
  PROVE  SieveInv'
<1> DEFINE l == "wait"
<1>1. SieveTyped /\ DOMAIN mem = Pids /\ Sound(p) /\ Changes(p, mem[p])
  BY SieveSame DEF SieveInv, SieveTyped
<1>2. at'[p] = "wait" BY <1>1 DEF SieveTyped
<1>3. l \in SieveLabels \ {"gone"} /\ l \notin Frontier /\ l \notin Readers /\ l \notin Writers
      /\ l \notin Sieving \cup {"child", "next_filter"}
  BY DEF SieveLabels, Frontier, Fresh, Readers, Writers, Generating, Sieving
<1>4. Sound(p)' BY <1>1, <1>2, <1>3 DEF Sound
<1>5. HoldsEnds(p)' BY <1>2, <1>3 DEF HoldsEnds
<1> HIDE DEF l
<1>6. at' = [at EXCEPT ![p] = l] BY DEF l
<1> QED BY <1>1, <1>3, <1>4, <1>5, <1>6, SieveMoves

(* The contents of one pipe change. *)
LEMMA OnePipe ==
  ASSUME NEW f \in [1..NPipe -> Seq(Nat)], NEW k \in 1..NPipe, NEW x
  PROVE  /\ f[k] \in Seq(Nat) /\ [f EXCEPT ![k] = x][k] = x
         /\ \A j \in (1..NPipe) \ {k} : [f EXCEPT ![k] = x][j] = f[j]
         /\ x \in Seq(Nat) => [f EXCEPT ![k] = x] \in [1..NPipe -> Seq(Nat)]
OBVIOUS

(* One number more in a sequence. *)
LEMMA AppendIs ==
  ASSUME NEW s \in Seq(Nat), NEW n \in Nat PROVE Append(s, n) \in Seq(Nat)
OBVIOUS

(* What a reader reads from, and where it is in its stream. *)
LEMMA ReaderTypes ==
  ASSUME SieveInv, NEW r \in Pids, at[r] \in Readers
  PROVE  /\ LastRead(r) \in Nat /\ Bound(r) \in Int /\ From(r) \in 1..NPipe
         /\ os.buf[From(r)] \in Seq(Nat) /\ LastOf(LastRead(r), os.buf[From(r)]) \in Nat
         /\ Stream(Bound(r), LastRead(r), os.buf[From(r)])
         /\ mem[r].primo \in Nat /\ mem[r].numero \in Nat
<1>1. at[r] # "gone" BY DEF Readers, Fresh, Sieving
<1>2. mem[r].primo \in Nat /\ mem[r].numero \in Nat BY <1>1 DEF SieveInv, SieveTyped, Sound
<1>3. LastRead(r) \in Nat /\ Bound(r) \in Int BY <1>2 DEF LastRead, Bound, Greater
<1>4. From(r) \in 1..NPipe BY DEF SieveInv, PipesApart, HoldsEnds
<1>5. os.buf[From(r)] \in Seq(Nat) BY <1>4 DEF SieveInv, SieveTyped
<1> DEFINE s == os.buf[From(r)]
<1>6. LastOf(LastRead(r), s) \in Nat
  <2>1. s \in Seq(Nat) BY <1>5
  <2> HIDE DEF s
  <2>2. CASE s = <<>> BY <1>3, <2>2 DEF LastOf
  <2>3. CASE s # <<>>
    <3>1. Len(s) \in 1..Len(s) BY <2>1, <2>3
    <3> QED BY <2>1, <2>3, <3>1 DEF LastOf
  <2> QED BY <2>2, <2>3
<1> QED BY <1>2, <1>3, <1>4, <1>5, <1>6 DEF SieveInv, Streams

(* A write: the number is the next one of the stream of whoever reads it. *)
LEMMA SieveWrites ==
  ASSUME SieveInv, NEW p \in Pids, at[p] \in {"generar_numeros", "pass"},
         NEW n, n = mem[p].numero, n <= Limit, os' = P!Write(os, W(Into(p)), n),
         NEW m, Changes(p, m), m.pipe = mem[p].pipe, m.up = mem[p].up, m.primo = mem[p].primo,
         m.buffer = mem[p].buffer, DOMAIN m = DOMAIN mem[p],
         NEW l, at' = [at EXCEPT ![p] = l], out' = out, terminal' = terminal,
         \/ at[p] = "generar_numeros" /\ l = "generar_numeros" /\ m.numero = n + 1
         \/ at[p] = "pass" /\ l = "sieve" /\ m.numero = n
  PROVE  SieveInv'
<1>1. /\ SieveTyped /\ IsSystem(os) /\ Sound(p) /\ HoldsEnds(p) /\ at[p] \in Writers
      /\ Into(p) \in 1..NPipe
  BY DEF SieveInv, SieveTyped, PipesApart, HoldsEnds, Writers, Generating, Sieving
<1>2. /\ IsSystem(os') /\ os'.buf = [os.buf EXCEPT ![Into(p)] = Append(os.buf[Into(p)], n)]
      /\ os'.open = os.open /\ os'.state = os.state
  BY <1>1, WriteIs
<1>3. at'[p] = l /\ mem'[p] = m /\ DOMAIN mem' = Pids BY <1>1 DEF SieveTyped, Changes
<1>4. Others(p)
  <2>1. \A q \in Pids \ {p} : at'[q] = at[q] /\ mem'[q] = mem[q] BY <1>1 DEF SieveTyped, Changes
  <2> QED BY <1>2, <2>1 DEF Others, Running
<1>5. /\ l \in SieveLabels \ {"gone"} /\ l \notin Frontier /\ l \notin Fresh /\ at[p] \notin Fresh
      /\ l \in Writers /\ l # "pass" /\ (l \in Readers <=> at[p] \in Readers)
      /\ (l \in Generating <=> at[p] \in Generating) /\ at[p] # "gone"
      /\ (l \in Sieving <=> at[p] \in Sieving) /\ l \notin {"child", "first_filter", "next_filter"}
      /\ at[p] \notin {"child", "first_filter", "next_filter"}
  BY DEF SieveLabels, Frontier, Fresh, Readers, Writers, Generating, Sieving
<1>6. mem[p].numero \in Nat /\ mem[p].primo \in Nat /\ n \in Nat /\ m.numero \in Nat
  BY <1>1, <1>5 DEF Sound
<1>7. Sound(p)' BY <1>1, <1>3, <1>5, <1>6 DEF Sound
<1>8. os'.buf \in [1..NPipe -> Seq(Nat)]
  <2>1. os.buf \in [1..NPipe -> Seq(Nat)] BY <1>1 DEF SieveTyped
  <2>2. os.buf[Into(p)] \in Seq(Nat) BY <1>1, <2>1, OnePipe
  <2>3. Append(os.buf[Into(p)], n) \in Seq(Nat) BY <1>6, <2>2, AppendIs
  <2> QED BY <1>1, <1>2, <2>1, <2>3, OnePipe
<1>9. Running(os', p) <=> l # "gone" BY <1>1, <1>2, <1>5 DEF SieveTyped, Running
<1>10. SieveTyped' BY <1>1, <1>2, <1>3, <1>4, <1>5, <1>7, <1>8, <1>9, TypedStep
<1>11. Into(p)' = Into(p) /\ From(p)' = From(p) /\ Bound(p)' = Bound(p)
  BY <1>3, <1>5 DEF Into, From, Bound
<1>12. HoldsEnds(p)' BY <1>1, <1>2, <1>3, <1>5, <1>11 DEF HoldsEnds
<1>13. PipesApart' BY <1>1, <1>3, <1>4, <1>5, <1>11, <1>12, ApartStep DEF SieveInv
<1>14. Prints' BY <1>3, <1>4, <1>5, PrintsStep DEF SieveInv
<1>15. at[p] = "pass" => LastRead(p)' = LastRead(p) /\ LastRead(p) = n
  BY <1>1, <1>3, <1>5, <1>6 DEF LastRead, Greater, Sound
<1>16. ASSUME NEW r \in Pids, at'[r] \in Readers
       PROVE  /\ Stream(Bound(r)', LastRead(r)', os'.buf[From(r)'])
              /\ \A w \in Pids : at'[w] \in Writers /\ Into(w)' = From(r)' => Feeds(w, r)'
  <2>1. /\ at[r] \in Readers /\ From(r)' = From(r) /\ Bound(r)' = Bound(r)
        /\ LastRead(r)' = LastRead(r)
    <3>1. CASE r # p BY <1>4, <1>16, <3>1, OthersAre DEF Others
    <3>2. CASE r = p
      <4>1. at[p] = "pass" BY <1>3, <1>5, <1>16, <3>2 DEF Readers, Fresh, Sieving
      <4> QED BY <1>3, <1>5, <1>11, <1>15, <1>16, <3>2, <4>1
    <3> QED BY <3>1, <3>2
  <2> DEFINE s == os.buf[From(r)]
             x == LastRead(r)
             b == Bound(r)
             last == LastOf(x, s)
  <2>2. x \in Nat /\ b \in Int /\ From(r) \in 1..NPipe /\ s \in Seq(Nat) /\ last \in Nat
        /\ Stream(b, x, s)
    BY <2>1, ReaderTypes
  <2>3. \A w \in Pids : at'[w] \in Writers /\ w # p => at[w] \in Writers /\ Into(w)' = Into(w)
    BY <1>4, OthersAre DEF Others
  <2>4. CASE From(r) # Into(p)
    <3>1. os'.buf[From(r)'] = s BY <1>2, <2>1, <2>2, <2>4 DEF IsSystem
    <3>2. ASSUME NEW w \in Pids, at'[w] \in Writers, Into(w)' = From(r)' PROVE Feeds(w, r)'
      <4>1. w # p BY <1>11, <2>1, <2>4, <3>2
      <4>2. Feeds(w, r) BY <2>1, <2>3, <3>2, <4>1 DEF SieveInv, Streams
      <4>3. at'[w] = at[w] /\ mem'[w] = mem[w] /\ LastRead(w)' = LastRead(w)
        BY <1>4, <4>1, OthersAre DEF Others
      <4>4. LastOf(LastRead(r), os.buf[From(r)])' = LastOf(LastRead(r), os.buf[From(r)])
        BY <2>1, <3>1
      <4> QED BY <2>1, <4>2, <4>3, <4>4, FeedsSame
    <3> QED BY <2>1, <2>2, <3>1, <3>2
  <2>5. CASE From(r) = Into(p)
    <3>1. os'.buf[From(r)'] = Append(s, n)
      <4>1. os.buf \in [1..NPipe -> Seq(Nat)] BY <1>1 DEF SieveTyped
      <4>2. os'.buf[Into(p)] = Append(os.buf[Into(p)], n) BY <1>1, <1>2, <4>1, OnePipe
      <4> QED BY <2>1, <2>5, <4>2
    <3>2. Feeds(p, r) BY <1>1, <2>1, <2>5 DEF SieveInv, Streams
    <3>3. NextRough(b, last, n)
      <4>1. CASE at[p] = "pass"
        <5>1. at[p] \notin Generating BY <4>1 DEF Generating
        <5> QED BY <3>2, <4>1, <5>1 DEF Feeds
      <4>2. CASE at[p] = "generar_numeros"
        <5>1. b <= 1 /\ n = last + 1 BY <3>2, <4>2 DEF Feeds, Generating
        <5> HIDE DEF b, last
        <5> QED BY <2>2, <5>1 DEF NextRough, Rough
      <4> QED BY <4>1, <4>2
    <3>4. Stream(b, x, Append(s, n)) /\ LastOf(x, Append(s, n)) = n
      <4> HIDE DEF b, x, s
      <4> QED BY <1>6, <2>2, <3>3, StreamGrows
    <3>5. LastOf(LastRead(r), os.buf[From(r)])' = n BY <2>1, <3>1, <3>4
    <3>6. ASSUME NEW w \in Pids, at'[w] \in Writers, Into(w)' = From(r)' PROVE Feeds(w, r)'
      <4>1. w = p BY <1>1, <2>1, <2>3, <2>5, <3>6 DEF SieveInv, PipesApart
      <4>2. CASE at[p] = "generar_numeros"
        <5>1. Bound(r)' <= 1 BY <2>1, <3>2, <4>2 DEF Feeds, Generating
        <5>2. at'[p] \in Generating /\ mem'[p].numero = n + 1 BY <1>3, <4>2 DEF Generating
        <5> QED BY <3>5, <4>1, <5>1, <5>2 DEF Feeds
      <4>3. CASE at[p] = "pass"
        <5>1. Alike(mem'[p].primo, Bound(r)') BY <1>3, <2>1, <3>2, <4>3 DEF Feeds, Generating
        <5>2. at'[p] \notin Generating /\ at'[p] # "pass" BY <1>3, <4>3 DEF Generating
        <5>3. n <= LastRead(p)' /\ \A k \in (n + 1)..LastRead(p)' : ~Rough(Bound(r)', k)
          BY <1>6, <1>15, <4>3
        <5> QED BY <3>5, <4>1, <5>1, <5>2, <5>3 DEF Feeds
      <4> QED BY <4>2, <4>3
    <3> QED BY <2>1, <3>1, <3>4, <3>6
  <2> QED BY <2>4, <2>5
<1>17. Streams' BY <1>16 DEF Streams
<1> QED BY <1>10, <1>13, <1>14, <1>17 DEF SieveInv

(* A read: the reader goes one further in its stream. *)
LEMMA SieveReads ==
  ASSUME SieveInv, NEW p \in Pids, at[p] \in {"filtro", "sieve"},
         os' = P!Read(os, R(From(p))), os.buf[From(p)] # <<>>,
         NEW m, Changes(p, m), NEW l \in {"next_filter", "pass", "sieve"},
         at' = [at EXCEPT ![p] = l], terminal' = terminal,
         Sound(p)', HoldsEnds(p)', Into(p)' = Into(p), From(p)' = From(p),
         LastRead(p)' = Head(os.buf[From(p)]),
         NEW b, Bound(p)' = b, b \in Int, Alike(Bound(p), b), Bound(p) <= 1 => b <= 1,
         l = "next_filter" <=> at[p] = "filtro",
         \A r \in Pids \ {p} :
            /\ at[p] = "sieve" /\ at[r] \in Readers /\ From(r) = Into(p)
            /\ From(r)' = From(r) /\ Bound(r)' = Bound(r) /\ LastRead(r)' = LastRead(r)
            /\ os'.buf[From(r)'] = os.buf[From(r)]
            => Feeds(p, r)'
  PROVE  SieveTyped' /\ PipesApart' /\ Streams' /\ Others(p) /\ at'[p] = l /\ mem'[p] = m
<1> DEFINE s == os.buf[From(p)]
           x == LastRead(p)
<1>1. /\ SieveTyped /\ IsSystem(os) /\ DOMAIN mem = Pids /\ at[p] \in Readers
      /\ os.buf \in [1..NPipe -> Seq(Nat)]
  BY DEF SieveInv, SieveTyped, Readers, Fresh, Sieving
<1>2. /\ x \in Nat /\ Bound(p) \in Int /\ From(p) \in 1..NPipe /\ s \in Seq(Nat)
      /\ Stream(Bound(p), x, s)
  BY <1>1, ReaderTypes
<1>3. /\ IsSystem(os') /\ os'.buf = [os.buf EXCEPT ![From(p)] = Tail(s)]
      /\ os'.open = os.open /\ os'.state = os.state
  BY <1>1, <1>2, ReadIs
<1>4. at'[p] = l /\ mem'[p] = m /\ DOMAIN mem' = Pids BY <1>1 DEF SieveTyped, Changes
<1>5. Others(p)
  <2>1. \A q \in Pids \ {p} : at'[q] = at[q] /\ mem'[q] = mem[q] BY <1>1 DEF SieveTyped, Changes
  <2> QED BY <1>3, <2>1 DEF Others, Running
<1>6. /\ l \in SieveLabels \ {"gone"} /\ (l \in Writers <=> at[p] \in Writers) /\ l \in Readers
      /\ (l \in Frontier => at[p] \in Frontier) /\ at[p] # "gone"
      /\ (l \in Writers => at[p] = "sieve") /\ (at[p] = "sieve" => at[p] \in Sieving)
      /\ (at[p] \in Writers => at[p] \in Sieving)
  BY DEF SieveLabels, Frontier, Fresh, Readers, Writers, Generating, Sieving
<1>7. s # <<>> /\ Tail(s) \in Seq(Nat) /\ Head(s) \in Nat BY <1>2
<1>8. os'.buf \in [1..NPipe -> Seq(Nat)] BY <1>1, <1>2, <1>3, <1>7, OnePipe
<1>9. Running(os', p) <=> l # "gone" BY <1>1, <1>3, <1>6 DEF SieveTyped, Running
<1>10. SieveTyped' BY <1>1, <1>3, <1>4, <1>5, <1>6, <1>8, <1>9, TypedStep
<1>11. PipesApart' BY <1>1, <1>4, <1>5, <1>6, ApartStep DEF SieveInv
<1>12. /\ os'.buf[From(p)] = Tail(s)
       /\ \A k \in (1..NPipe) \ {From(p)} : os'.buf[k] = os.buf[k]
  BY <1>1, <1>2, <1>3, OnePipe
<1>13. ASSUME NEW w \in Pids, at'[w] \in Writers
       PROVE  at[w] \in Writers /\ Into(w)' = Into(w)
  <2>1. CASE w # p BY <1>5, <1>13, <2>1, OthersAre DEF Others
  <2>2. CASE w = p BY <1>4, <1>6, <1>13, <2>2
  <2> QED BY <2>1, <2>2
<1>14. ASSUME NEW w \in Pids \ {p}
       PROVE  at'[w] = at[w] /\ mem'[w] = mem[w] /\ LastRead(w)' = LastRead(w)
  BY <1>5, OthersAre DEF Others
<1>15. ASSUME NEW r \in Pids \ {p}, at'[r] \in Readers
       PROVE  /\ Stream(Bound(r)', LastRead(r)', os'.buf[From(r)'])
              /\ \A w \in Pids : at'[w] \in Writers /\ Into(w)' = From(r)' => Feeds(w, r)'
  <2>1. /\ at[r] \in Readers /\ From(r)' = From(r) /\ Bound(r)' = Bound(r)
        /\ LastRead(r)' = LastRead(r)
    BY <1>5, <1>15, OthersAre DEF Others
  <2>2. From(r) # From(p) /\ From(r) \in 1..NPipe
    BY <1>1, <2>1, ReaderTypes DEF SieveInv, PipesApart
  <2>3. os'.buf[From(r)'] = os.buf[From(r)] BY <1>12, <2>1, <2>2
  <2>4. LastOf(LastRead(r), os.buf[From(r)])' = LastOf(LastRead(r), os.buf[From(r)])
    BY <2>1, <2>3
  <2>5. ASSUME NEW w \in Pids, at'[w] \in Writers, Into(w)' = From(r)' PROVE Feeds(w, r)'
    <3>1. CASE w # p
      <4>1. Feeds(w, r) BY <1>13, <2>1, <2>5 DEF SieveInv, Streams
      <4> QED BY <1>14, <2>1, <2>4, <3>1, <4>1, FeedsSame
    <3>2. CASE w = p
      <4>1. at[p] = "sieve" /\ From(r) = Into(p) BY <1>4, <1>6, <2>1, <2>5, <3>2
      <4> QED BY <2>1, <2>3, <3>2, <4>1
    <3> QED BY <3>1, <3>2
  <2>6. Stream(Bound(r)', LastRead(r)', os'.buf[From(r)'])
    BY <2>1, <2>3, ReaderTypes
  <2> QED BY <2>5, <2>6
<1>16. /\ Stream(Bound(p)', LastRead(p)', os'.buf[From(p)'])
       /\ \A w \in Pids : at'[w] \in Writers /\ Into(w)' = From(p)' => Feeds(w, p)'
  <2>1. /\ Stream(Bound(p), Head(s), Tail(s)) /\ LastOf(Head(s), Tail(s)) = LastOf(x, s)
    <3> HIDE DEF s, x
    <3> QED BY <1>2, <1>7, StreamHead
  <2>2. os'.buf[From(p)'] = Tail(s) /\ LastRead(p)' = Head(s) BY <1>12
  <2>3. Stream(b, Head(s), Tail(s)) BY <1>2, <1>7, <2>1, StreamAlike
  <2>4. LastOf(LastRead(p), os.buf[From(p)])' = LastOf(LastRead(p), os.buf[From(p)])
    BY <2>1, <2>2
  <2>5. ASSUME NEW w \in Pids, at'[w] \in Writers, Into(w)' = From(p)' PROVE Feeds(w, p)'
    <3>1. at[w] \in Writers /\ Into(w) = From(p) BY <1>13, <2>5
    <3>2. w # p
      <4>1. at[p] \in Sieving => mem[p].up # mem[p].pipe
        BY DEF SieveInv, PipesApart, HoldsEnds
      <4>2. at[p] \in Sieving => Into(p) # From(p)
        BY <4>1 DEF Into, From, Sieving
      <4> QED BY <1>6, <3>1, <4>2
    <3>3. Feeds(w, p) BY <1>1, <3>1 DEF SieveInv, Streams
    <3> DEFINE last == LastOf(LastRead(p), os.buf[From(p)])
    <3>4. last' = last BY <2>4
    <3>5. at'[w] = at[w] /\ mem'[w] = mem[w] /\ LastRead(w)' = LastRead(w) BY <1>14, <3>2
    <3> HIDE DEF last
    <3>6. CASE at[w] \in Generating
      <4>1. Bound(p) <= 1 /\ mem[w].numero = last + 1 BY <3>3, <3>6 DEF Feeds, last
      <4>2. Bound(p)' <= 1 /\ mem'[w].numero = last' + 1 BY <3>4, <3>5, <4>1
      <4> QED BY <3>5, <3>6, <4>2 DEF Feeds, last
    <3>7. CASE at[w] \notin Generating
      <4>1. /\ Alike(mem[w].primo, Bound(p))
            /\ IF at[w] = "pass" THEN NextRough(Bound(p), last, mem[w].numero)
               ELSE last <= LastRead(w) /\ \A k \in (last + 1)..LastRead(w) : ~Rough(Bound(p), k)
        BY <3>3, <3>7 DEF Feeds, last
      <4>2. Alike(mem[w].primo, b) BY <4>1 DEF Alike
      <4>3. at[w] # "gone" /\ mem[w].numero \in Nat /\ mem[w].primo \in Nat /\ last \in Nat
            /\ LastRead(w) \in Nat
        <5>1. at[w] # "gone" BY <3>1 DEF Writers, Generating, Sieving
        <5>2. mem[w].numero \in Nat /\ mem[w].primo \in Nat BY <1>1, <5>1 DEF SieveTyped, Sound
        <5>3. last \in Nat BY <1>1, ReaderTypes DEF last
        <5> QED BY <5>1, <5>2, <5>3 DEF LastRead, Greater
      <4>4. IF at[w] = "pass" THEN NextRough(b, last, mem[w].numero)
            ELSE last <= LastRead(w) /\ \A k \in (last + 1)..LastRead(w) : ~Rough(b, k)
        <5>1. CASE at[w] = "pass" BY <4>1, <4>3, <5>1 DEF NextRough, Alike
        <5>2. CASE at[w] # "pass" BY <4>1, <4>3, <5>2 DEF Alike
        <5> QED BY <5>1, <5>2
      <4> QED BY <3>4, <3>5, <3>7, <4>2, <4>4 DEF Feeds, last
    <3> QED BY <3>6, <3>7
  <2> QED BY <2>2, <2>3, <2>5
<1>17. Streams'
  <2>1. \A r \in Pids : r = p \/ r \in Pids \ {p} OBVIOUS
  <2> QED BY <1>15, <1>16, <2>1 DEF Streams
<1> QED BY <1>4, <1>5, <1>10, <1>11, <1>17

(* A filter reads a number and keeps or passes it. *)
LEMMA SieveReadsOn ==
  ASSUME SieveInv, NEW p \in Pids, at[p] = "sieve",
         os' = P!Read(os, R(From(p))), os.buf[From(p)] # <<>>,
         NEW n, n = Head(os.buf[From(p)]),
         mem' = [mem EXCEPT ![p].numero = n],
         at' = [at EXCEPT ![p] = IF P!Passes(n, mem[p].primo) THEN "pass" ELSE "sieve"],
         out' = out, terminal' = terminal
  PROVE  SieveInv'
<1> DEFINE s == os.buf[From(p)]
           x == LastRead(p)
           m == [mem[p] EXCEPT !.numero = n]
           l == IF P!Passes(n, mem[p].primo) THEN "pass" ELSE "sieve"
<1>1. /\ SieveTyped /\ IsSystem(os) /\ DOMAIN mem = Pids /\ Sound(p) /\ HoldsEnds(p)
      /\ at[p] \in Readers /\ at[p] \in Sieving /\ at[p] \notin Fresh /\ at[p] # "gone"
      /\ at[p] \in Writers
  BY DEF SieveInv, SieveTyped, PipesApart, Readers, Writers, Fresh, Sieving
<1>2. /\ x \in Nat /\ Bound(p) \in Int /\ s \in Seq(Nat) /\ Stream(Bound(p), x, s)
      /\ mem[p].primo \in Nat /\ mem[p].primo >= 2 /\ mem[p].numero \in Nat
      /\ Bound(p) = mem[p].primo - 1 /\ mem[p].primo <= x
  <2>1. mem[p].primo >= 2 BY <1>1 DEF Sound
  <2> QED BY <1>1, <2>1, ReaderTypes DEF Bound, LastRead, Greater
<1>3. n \in Nat /\ n <= Limit /\ NextRough(Bound(p), x, n)
  <2> HIDE DEF s, x
  <2>1. s # <<>> /\ n = Head(s) BY DEF s
  <2> QED BY <1>2, <2>1, StreamHead
<1>4. x < n BY <1>3 DEF NextRough
<1>5. mem' = [mem EXCEPT ![p] = m] /\ at' = [at EXCEPT ![p] = l] BY <1>1
<1>6. Changes(p, m) /\ mem'[p] = m BY <1>1, <1>5, SieveSame DEF Changes
<1>7. /\ DOMAIN m = {"pid", "pipe", "up", "numero", "primo", "buffer"} /\ m.up = mem[p].up
      /\ m.numero = n /\ m.primo = mem[p].primo /\ m.buffer = mem[p].buffer
      /\ m.pipe = mem[p].pipe
  BY <1>1 DEF Sound
<1>8. l \in {"pass", "sieve"} /\ (l = "pass" <=> P!Passes(n, mem[p].primo)) OBVIOUS
<1>9. at'[p] = l BY <1>1, <1>5 DEF SieveTyped
<1> HIDE DEF l, m
<1>10. /\ l \in Sieving /\ l \notin Frontier /\ l \notin Fresh /\ l \notin Generating
       /\ l \in Readers /\ l \in Writers /\ l # "gone"
  BY <1>8 DEF Frontier, Fresh, Readers, Writers, Generating, Sieving
<1>11. Sound(p)' BY <1>1, <1>2, <1>3, <1>4, <1>6, <1>7, <1>9, <1>10 DEF Sound
<1>12. Into(p)' = Into(p) BY <1>6, <1>7 DEF Into
<1>13. From(p)' = From(p) BY <1>6, <1>7, <1>8, <1>9 DEF From
<1>14. Bound(p)' = Bound(p) BY <1>1, <1>6, <1>7, <1>9, <1>10 DEF Bound
<1>15. LastRead(p)' = n
  BY <1>1, <1>2, <1>3, <1>4, <1>6, <1>7, <1>9, <1>10 DEF LastRead, Greater
<1>16. os'.open = os.open
  <2>1. From(p) \in 1..NPipe BY <1>1, ReaderTypes
  <2> QED BY <1>1, <2>1, ReadIs
<1>17. HoldsEnds(p)'
  BY <1>1, <1>6, <1>7, <1>9, <1>10, <1>12, <1>13, <1>16 DEF HoldsEnds
<1>18. ASSUME NEW r \in Pids \ {p}, at[r] \in Readers, From(r) = Into(p),
              From(r)' = From(r), Bound(r)' = Bound(r), LastRead(r)' = LastRead(r),
              os'.buf[From(r)'] = os.buf[From(r)]
       PROVE  Feeds(p, r)'
  <2> DEFINE last == LastOf(LastRead(r), os.buf[From(r)])
  <2>1. last' = last /\ last \in Nat /\ Bound(r) \in Int BY <1>18, ReaderTypes
  <2>2. Feeds(p, r) BY <1>1, <1>18 DEF SieveInv, Streams
  <2> HIDE DEF last, x
  <2>3. /\ Alike(mem[p].primo, Bound(r)) /\ last <= x
        /\ \A k \in (last + 1)..x : ~Rough(Bound(r), k)
    BY <1>1, <2>2 DEF Feeds, last, x, Generating
  <2>4. NextRough(mem[p].primo - 1, x, n) BY <1>2, <1>3
  <2>5. IF P!Passes(n, mem[p].primo) THEN NextRough(Bound(r), last, n)
        ELSE last <= n /\ \A k \in (last + 1)..n : ~Rough(Bound(r), k)
    <3> DEFINE q == mem[p].primo
               b == Bound(r)
    <3>1. /\ q \in Nat /\ q >= 2 /\ b \in Int /\ Alike(q, b) /\ last \in Nat /\ x \in Nat
          /\ n \in Nat /\ last <= x /\ NextRough(q - 1, x, n)
          /\ \A k \in (last + 1)..x : ~Rough(b, k)
      BY <1>2, <1>3, <2>1, <2>3, <2>4
    <3> HIDE DEF q, b
    <3>2. IF P!Passes(n, q) THEN NextRough(b, last, n)
          ELSE last <= n /\ \A k \in (last + 1)..n : ~Rough(b, k)
      BY ONLY <3>1, Sieved
    <3> QED BY <3>2 DEF q, b
  <2>6. IF l = "pass" THEN NextRough(Bound(r)', last', mem'[p].numero)
        ELSE last' <= LastRead(p)' /\ \A k \in (last' + 1)..LastRead(p)' : ~Rough(Bound(r)', k)
    BY <1>6, <1>7, <1>8, <1>15, <1>18, <2>1, <2>5
  <2>7. Alike(mem'[p].primo, Bound(r)') BY <1>6, <1>7, <1>18, <2>3
  <2> QED BY <1>9, <1>10, <2>6, <2>7 DEF Feeds, last
<1>19. Alike(Bound(p), Bound(p)) BY DEF Alike
<1>20. /\ l \in {"next_filter", "pass", "sieve"} /\ l # "next_filter" /\ at[p] # "filtro"
       /\ at[p] \in {"filtro", "sieve"}
  BY <1>8
<1>21. SieveTyped' /\ PipesApart' /\ Streams' /\ Others(p) /\ at'[p] = l /\ mem'[p] = m
  <2> DEFINE b == Bound(p)
  <2>1. b \in Int /\ Bound(p)' = b /\ Alike(Bound(p), b) /\ (Bound(p) <= 1 => b <= 1)
    BY <1>2, <1>14, <1>19
  <2>2. LastRead(p)' = Head(os.buf[From(p)]) BY <1>15
  <2> HIDE DEF b, x, s
  <2> QED BY <1>5, <1>6, <1>11, <1>12, <1>13, <1>17, <1>18, <1>20, <2>1, <2>2, SieveReads
<1>22. Prints' BY <1>1, <1>7, <1>10, <1>21, PrintsStep DEF SieveInv
<1> QED BY <1>21, <1>22 DEF SieveInv

(* A prime that comes after all those printed on the terminal is next. *)
LEMMA PrimeNext ==
  ASSUME NEW s \in Seq(Nat), NEW q \in Nat, q = LastOf(0, s), NEW n \in Nat, q < n, n >= 2,
         P!IsSorted(s), \A i \in DOMAIN s : P!PrimesUpTo(s[i]) \subseteq Range(s),
         \A m \in (q + 1)..(n - 1) : m >= 2 => \E d \in 2..(m - 1) : m % d = 0
  PROVE  /\ P!IsSorted(Append(s, n)) /\ LastOf(0, Append(s, n)) = n
         /\ \A i \in DOMAIN Append(s, n) : P!PrimesUpTo(Append(s, n)[i]) \subseteq Range(Append(s, n))
<1> DEFINE t == Append(s, n)
           N == Len(s)
<1>1. /\ t \in Seq(Nat) /\ Len(t) = N + 1 /\ N \in Nat /\ t[N + 1] = n
      /\ \A i \in 1..N : t[i] = s[i] /\ s[i] \in Nat
      /\ DOMAIN t = 1..(N + 1) /\ DOMAIN s = 1..N /\ t # <<>>
      /\ (s = <<>> <=> N = 0)
  OBVIOUS
<1>2. LastOf(0, t) = n BY <1>1 DEF LastOf
<1>3. N # 0 => N \in 1..N /\ q = s[N] BY <1>1 DEF LastOf
<1>4. \A i, j \in 1..N : i < j => s[i] < s[j] BY <1>1 DEF P!IsSorted
<1>5. \A i \in 1..N : P!PrimesUpTo(s[i]) \subseteq Range(s) BY <1>1
<1> HIDE DEF t, N
<1>6. \A i \in 1..N : s[i] <= q /\ s[i] \in Nat
  <2> SUFFICES ASSUME NEW i \in 1..N PROVE s[i] <= q /\ s[i] \in Nat OBVIOUS
  <2>1. N \in 1..N /\ q = s[N] /\ s[i] \in Nat BY <1>1, <1>3
  <2>2. i = N \/ i < N BY <1>1
  <2>3. CASE i = N BY <2>1, <2>3
  <2>4. CASE i < N
    <3>1. s[i] < s[N] BY <1>4, <2>1, <2>4
    <3> QED BY <2>1, <3>1
  <2> QED BY <2>2, <2>3, <2>4
<1>7. P!IsSorted(t)
  <2> SUFFICES ASSUME NEW i \in 1..(N + 1), NEW j \in 1..(N + 1), i < j PROVE t[i] < t[j]
    BY <1>1 DEF P!IsSorted
  <2>1. i \in 1..N BY <1>1
  <2>2. t[i] = s[i] /\ s[i] <= q /\ s[i] \in Nat BY <1>1, <1>6, <2>1
  <2>3. j = N + 1 \/ j \in 1..N BY <1>1
  <2>4. CASE j = N + 1
    <3>1. t[j] = n BY <1>1, <2>4
    <3> QED BY <2>2, <3>1
  <2>5. CASE j \in 1..N
    <3>1. t[j] = s[j] BY <1>1, <2>5
    <3>2. s[i] < s[j] BY <1>4, <2>1, <2>5
    <3> QED BY <2>2, <3>1, <3>2
  <2> QED BY <2>3, <2>4, <2>5
<1>8. Range(s) \subseteq Range(t) /\ n \in Range(t)
  <2>1. \A i \in 1..N : i \in 1..(N + 1) BY <1>1
  <2>2. N + 1 \in 1..(N + 1) BY <1>1
  <2> QED BY <1>1, <2>1, <2>2 DEF Range
<1>9. P!PrimesUpTo(n) \subseteq Range(t)
  <2> SUFFICES ASSUME NEW k \in 2..n, \A d \in 2..(k - 1) : k % d # 0 PROVE k \in Range(t)
    BY DEF P!PrimesUpTo
  <2>1. CASE k = n BY <1>8, <2>1
  <2>2. CASE k # n
    <3>1. k <= q
      <4>1. SUFFICES ASSUME k > q PROVE FALSE OBVIOUS
      <4>2. k \in (q + 1)..(n - 1) /\ k >= 2 BY <2>2, <4>1
      <4> QED BY <4>2
    <3>2. N # 0 BY <1>1, <3>1 DEF LastOf
    <3>3. N \in 1..N /\ q = s[N] BY <1>3, <3>2
    <3>4. k \in P!PrimesUpTo(q) BY <3>1 DEF P!PrimesUpTo
    <3> QED BY <1>5, <1>8, <3>3, <3>4
  <2> QED BY <2>1, <2>2
<1>10. \A i \in DOMAIN t : P!PrimesUpTo(t[i]) \subseteq Range(t)
  <2> SUFFICES ASSUME NEW i \in 1..(N + 1) PROVE P!PrimesUpTo(t[i]) \subseteq Range(t)
    BY <1>1
  <2>1. i = N + 1 \/ i \in 1..N BY <1>1
  <2>2. CASE i = N + 1 BY <1>1, <1>9, <2>2
  <2>3. CASE i \in 1..N BY <1>1, <1>5, <1>8, <2>3
  <2> QED BY <2>1, <2>2, <2>3
<1> QED BY <1>2, <1>7, <1>10 DEF t

(* A filter finds its prime and prints it. *)
LEMMA SieveFinds ==
  ASSUME P!PrimesAssumption, SieveInv, NEW p \in Pids, at[p] = "filtro",
         os' = P!Read(os, R(From(p))), os.buf[From(p)] # <<>>,
         NEW n, n = Head(os.buf[From(p)]),
         NEW c, c = IF terminal THEN <<>> ELSE Append(mem[p].buffer, n),
         mem' = [mem EXCEPT ![p] = [mem[p] EXCEPT !.primo = n, !.buffer = c]],
         at' = [at EXCEPT ![p] = "next_filter"],
         out' = IF terminal THEN Append(out, n) ELSE out, terminal' = terminal
  PROVE  SieveInv'
<1> DEFINE s == os.buf[From(p)]
           q == mem[p].primo
           m == [mem[p] EXCEPT !.primo = n, !.buffer = c]
           l == "next_filter"
<1>1. /\ SieveTyped /\ IsSystem(os) /\ DOMAIN mem = Pids /\ Sound(p) /\ HoldsEnds(p)
      /\ at[p] \in Readers /\ at[p] \in Fresh /\ at[p] \in Frontier /\ at[p] # "gone"
      /\ at[p] \notin Writers
  BY DEF SieveInv, SieveTyped, PipesApart, Readers, Writers, Generating, Frontier, Fresh, Sieving
<1>2. /\ s \in Seq(Nat) /\ Stream(Bound(p), LastRead(p), s) /\ LastRead(p) \in Nat
      /\ q \in Nat /\ q # 1 /\ Bound(p) = q /\ LastRead(p) = Greater(q, 1)
      /\ mem[p].numero = 2 /\ mem[p].buffer \in Seq(Nat)
  <2>1. q # 1 /\ mem[p].numero = 2 /\ mem[p].buffer \in Seq(Nat) BY <1>1 DEF Sound
  <2> QED BY <1>1, <2>1, ReaderTypes DEF Bound, LastRead
<1>3. n \in Nat /\ n <= Limit /\ NextRough(q, Greater(q, 1), n)
  <2> DEFINE x == Greater(q, 1)
  <2>1. s # <<>> /\ n = Head(s) /\ q \in Int /\ x \in Nat /\ Stream(q, x, s) /\ s \in Seq(Nat)
    BY <1>2
  <2> HIDE DEF s, x, q
  <2>2. Head(s) \in Nat /\ Head(s) <= Limit /\ NextRough(q, x, Head(s))
    BY ONLY <2>1, StreamHead
  <2> QED BY <2>1, <2>2 DEF x
<1>4. /\ n >= 2 /\ q < n /\ (\A d \in 2..(n - 1) : n % d # 0)
      /\ Alike(q, n - 1)
      /\ \A k \in (q + 1)..(n - 1) : k >= 2 => \E d \in 2..(k - 1) : k % d = 0
  <2> HIDE DEF q
  <2> QED BY ONLY <1>2, <1>3, NextIsPrime
<1>5. Changes(p, m) /\ mem'[p] = m BY <1>1, SieveSame DEF Changes
<1>6. c \in Seq(Nat) BY <1>2, <1>3
<1>7. /\ DOMAIN m = {"pid", "pipe", "up", "numero", "primo", "buffer"} /\ m.up = mem[p].up
      /\ m.numero = 2 /\ m.primo = n /\ m.buffer = c /\ m.pipe = mem[p].pipe
  BY <1>1, <1>2 DEF Sound
<1>8. at'[p] = l BY <1>1 DEF SieveTyped
<1> HIDE DEF m
<1>9. /\ l \in Frontier /\ l \notin Fresh /\ l \notin Sieving /\ l \in Readers /\ l \notin Writers
      /\ l # "gone" /\ l # "pass" /\ l # "child" /\ l # "first_filter" /\ l # "sieve" /\ l # "main"
  BY DEF Frontier, Fresh, Readers, Writers, Generating, Sieving
<1>0. at' = [at EXCEPT ![p] = l] /\ l = "next_filter" OBVIOUS
<1> HIDE DEF l
<1>10. Sound(p)'
  <2>1. m.numero \in Nat /\ m.primo \in Nat /\ m.buffer \in Seq(Nat) /\ m.primo # 1
        /\ m.primo >= 2
    BY <1>3, <1>4, <1>6, <1>7
  <2> QED BY <1>5, <1>7, <1>8, <1>9, <2>1 DEF Sound
<1>11. Into(p)' = Into(p) /\ From(p)' = From(p) BY <1>5, <1>7, <1>8, <1>9 DEF Into, From
<1>12. Bound(p)' = n - 1 BY <1>5, <1>7, <1>8, <1>9 DEF Bound
<1>13. LastRead(p)' = n
  <2>1. Greater(2, n) = n BY <1>3, <1>4 DEF Greater
  <2>2. LastRead(p)' = Greater(mem'[p].numero, mem'[p].primo) BY <1>8, <1>9 DEF LastRead, Greater
  <2> QED BY <1>5, <1>7, <2>1, <2>2
<1>14. os'.open = os.open
  <2>1. From(p) \in 1..NPipe BY <1>1, ReaderTypes
  <2> QED BY <1>1, <2>1, ReadIs
<1>15. HoldsEnds(p)' BY <1>1, <1>8, <1>9, <1>11, <1>14 DEF HoldsEnds
<1>16. q <= 1 => n - 1 <= 1
  <2>1. SUFFICES ASSUME q <= 1, n > 2 PROVE FALSE BY <1>3
  <2>2. q = 0 BY <1>2, <2>1
  <2>3. 2 \in (Greater(q, 1) + 1)..(n - 1) BY <1>3, <2>1, <2>2 DEF Greater
  <2>4. ~Rough(q, 2) BY <1>3, <2>3 DEF NextRough
  <2> QED BY <2>2, <2>4 DEF Rough
<1>17. SieveTyped' /\ PipesApart' /\ Streams' /\ Others(p) /\ at'[p] = l /\ mem'[p] = m
  <2> DEFINE b == n - 1
  <2>1. b \in Int /\ Bound(p)' = b /\ Alike(Bound(p), b) /\ (Bound(p) <= 1 => b <= 1)
    BY <1>2, <1>3, <1>4, <1>12, <1>16
  <2>2. LastRead(p)' = Head(os.buf[From(p)]) BY <1>13
  <2>3. /\ l \in {"next_filter", "pass", "sieve"} /\ l = "next_filter"
        /\ at[p] \in {"filtro", "sieve"} /\ at[p] # "sieve" /\ at' = [at EXCEPT ![p] = l]
    BY <1>0
  <2> HIDE DEF b, s, q
  <2> QED BY <1>5, <1>10, <1>11, <1>15, <2>1, <2>2, <2>3, SieveReads
<1>18. n \in P!PrimesUpTo(Limit) /\ n \in Nat
  <2>1. n \in 2..Limit BY <1>3, <1>4 DEF P!PrimesAssumption
  <2> QED BY <1>4, <2>1 DEF P!PrimesUpTo
<1>19. /\ out \in Seq(Nat) /\ Range(out) \subseteq P!PrimesUpTo(Limit)
       /\ Range(mem[p].buffer) \subseteq P!PrimesUpTo(Limit)
       /\ terminal => q = LastOf(0, out)
  BY <1>1 DEF SieveInv, Prints
<1>20. \A t \in Seq(Nat) : Range(t) \subseteq P!PrimesUpTo(Limit) =>
          Range(Append(t, n)) \subseteq P!PrimesUpTo(Limit)
  <2> SUFFICES ASSUME NEW t \in Seq(Nat), Range(t) \subseteq P!PrimesUpTo(Limit),
                      NEW i \in DOMAIN Append(t, n)
               PROVE  Append(t, n)[i] \in P!PrimesUpTo(Limit)
    BY DEF Range
  <2>1. Append(t, n)[i] = n \/ Append(t, n)[i] \in Range(t) BY <1>18 DEF Range
  <2> QED BY <1>18, <2>1
<1>21. out' \in Seq(Nat) /\ Range(out') \subseteq P!PrimesUpTo(Limit)
  BY <1>18, <1>19, <1>20, AppendIs
<1>22. terminal =>
          /\ P!IsSorted(out') /\ LastOf(0, out') = n
          /\ \A i \in DOMAIN out' : P!PrimesUpTo(out'[i]) \subseteq Range(out')
  <2> SUFFICES ASSUME terminal
               PROVE  /\ P!IsSorted(out') /\ LastOf(0, out') = n
                      /\ \A i \in DOMAIN out' : P!PrimesUpTo(out'[i]) \subseteq Range(out')
    OBVIOUS
  <2>1. /\ P!IsSorted(out) /\ q = LastOf(0, out) /\ out' = Append(out, n)
        /\ \A i \in DOMAIN out : P!PrimesUpTo(out[i]) \subseteq Range(out)
    BY <1>19 DEF SieveInv, Prints
  <2> HIDE DEF q
  <2> QED BY ONLY <1>2, <1>4, <1>18, <1>19, <2>1, PrimeNext
<1>23. Range(c) \subseteq P!PrimesUpTo(Limit) /\ (terminal => c = <<>>)
  <2>1. Range(<<>>) = {} BY DEF Range
  <2> QED BY <1>2, <1>19, <1>20, <2>1
<1>24. ASSUME NEW r \in Pids, at'[r] # "gone"
       PROVE  /\ Range(mem'[r].buffer) \subseteq P!PrimesUpTo(Limit)
              /\ terminal' => mem'[r].buffer = <<>>
              /\ terminal' /\ at'[r] \in Frontier => mem'[r].primo = LastOf(0, out')
  <2>1. CASE r = p BY <1>5, <1>7, <1>22, <1>23, <2>1
  <2>2. CASE r # p
    <3>1. at'[r] = at[r] /\ mem'[r] = mem[r] BY <1>17, <2>2 DEF Others
    <3>2. at'[r] \notin Frontier BY <1>1, <2>2, <3>1 DEF SieveTyped
    <3> QED BY <1>24, <3>1, <3>2 DEF SieveInv, Prints
  <2> QED BY <2>1, <2>2
<1>25. Prints' BY <1>21, <1>22, <1>24 DEF Prints
<1> QED BY <1>17, <1>25 DEF SieveInv

(* The end of a process, and the steps of a filter *)
LEMMA SieveExits ==
  ASSUME SieveInv, NEW p \in Pids, at[p] # "gone", NEW st, P!ExitProcess(p, st)
  PROVE  SieveInv'
BY SieveDies DEF P!ExitProcess

(* A filter finds its prime, or the end of its input. *)
LEMMA SieveFiltro ==
  ASSUME P!PrimesAssumption, SieveInv, NEW p \in Pids, P!filtro(p) PROVE SieveInv'
<1>1. at[p] = "filtro" /\ at[p] \in Readers /\ From(p) = mem[p].up /\ IsSystem(os) /\ DOMAIN mem = Pids
  BY DEF P!filtro, Readers, Fresh, From, SieveInv, SieveTyped
<1>2. CASE P!AtEnd(os, R(From(p)))
  <2>1. \/ P!ExitProcess(p, 0)
        \/ /\ os' = P!Close(os, p, R(From(p))) /\ at' = [at EXCEPT ![p] = "wait"]
           /\ mem' = mem /\ out' = out /\ terminal' = terminal
    BY <1>1, <1>2, PrimesSystem DEF P!filtro, P!Goto, P!Quiet
  <2>2. CASE os' = P!Close(os, p, R(From(p))) /\ at' = [at EXCEPT ![p] = "wait"]
             /\ mem' = mem /\ out' = out /\ terminal' = terminal
    <3>1. /\ IsSystem(os') /\ os'.buf = os.buf /\ os'.state = os.state
          /\ os'.open = [os.open EXCEPT ![p] = os.open[p] \ {R(From(p))}]
      BY <1>1, <2>2, Shuts
    <3> QED BY <1>1, <2>2, <3>1, SieveEnds
  <2> QED BY <1>1, <2>1, <2>2, SieveExits
<1>3. CASE ~P!AtEnd(os, R(From(p)))
  <2> DEFINE n == Head(os.buf[From(p)])
             c == IF terminal THEN <<>> ELSE Append(mem[p].buffer, n)
  <2>1. R(From(p))[1] = "read" /\ R(From(p))[2] = From(p) BY DEF R
  <2>2. os.buf[From(p)] # <<>> /\ P!Item(os, R(From(p))) = n
    BY <1>3, <2>1 DEF P!AtEnd, P!Item
  <2>3. /\ os' = P!Read(os, R(From(p)))
        /\ mem' = [mem EXCEPT ![p].primo = n,
                              ![p].buffer = IF terminal THEN <<>> ELSE Append(@, n)]
        /\ at' = [at EXCEPT ![p] = "next_filter"]
        /\ out' = IF terminal THEN Append(out, n) ELSE out
        /\ terminal' = terminal
    BY <1>1, <1>3, <2>2, PrimesSystem DEF P!filtro, P!Goto
  <2>4. mem' = [mem EXCEPT ![p] = [mem[p] EXCEPT !.primo = n, !.buffer = c]]
    <3>1. "primo" \in DOMAIN mem[p] /\ "buffer" \in DOMAIN mem[p]
      BY <1>1 DEF SieveInv, SieveTyped, Sound
    <3> HIDE DEF n
    <3>2. CASE terminal
      <4>1. mem' = [mem EXCEPT ![p].primo = n, ![p].buffer = <<>>] BY <2>3, <3>2
      <4> QED BY <1>1, <3>1, <3>2, <4>1
    <3>3. CASE ~terminal
      <4>1. mem' = [mem EXCEPT ![p].primo = n, ![p].buffer = Append(@, n)] BY <2>3, <3>3
      <4>2. [[mem EXCEPT ![p].primo = n] EXCEPT ![p].buffer = Append(mem[p].buffer, n)]
            = [mem EXCEPT ![p] = [mem[p] EXCEPT !.primo = n, !.buffer = Append(mem[p].buffer, n)]]
        BY <1>1, <3>1
      <4>3. [mem EXCEPT ![p].primo = n][p].buffer = mem[p].buffer BY <1>1, <3>1
      <4> QED BY <3>3, <4>1, <4>2, <4>3
    <3> QED BY <3>2, <3>3
  <2> HIDE DEF n, c
  <2>5. n = Head(os.buf[From(p)]) /\ c = IF terminal THEN <<>> ELSE Append(mem[p].buffer, n)
    BY DEF n, c
  <2>6. /\ at[p] = "filtro" /\ os' = P!Read(os, R(From(p))) /\ os.buf[From(p)] # <<>>
        /\ at' = [at EXCEPT ![p] = "next_filter"]
        /\ out' = IF terminal THEN Append(out, n) ELSE out
        /\ terminal' = terminal
    BY <1>1, <2>2, <2>3
  <2> QED BY <2>4, <2>5, <2>6, SieveFinds, Zenon
<1> QED BY <1>2, <1>3

(* A filter takes the next number, or ends. *)
LEMMA SieveSieve ==
  ASSUME SieveInv, NEW p \in Pids, P!Sieve(p) PROVE SieveInv'
<1>1. /\ at[p] = "sieve" /\ From(p) = mem[p].up /\ Into(p) = mem[p].pipe /\ IsSystem(os)
      /\ out' = out /\ terminal' = terminal
  BY DEF P!Sieve, From, Into, SieveInv, SieveTyped, P!Quiet
<1>2. CASE P!AtEnd(os, R(From(p)))
  <2> DEFINE r == Close(os, p, R(From(p)))
             s == Close(r, p, W(Into(p)))
             D == (os.open[p] \ {R(From(p))}) \ {W(Into(p))}
  <2>1. os' = s /\ at' = [at EXCEPT ![p] = "wait"] /\ mem' = mem
    BY <1>1, <1>2, PrimesSystem DEF P!Sieve, P!Goto, P!New
  <2>2. /\ IsSystem(r) /\ r.open = [os.open EXCEPT ![p] = os.open[p] \ {R(From(p))}]
        /\ \A x \in DOMAIN os \ {"open"} : r[x] = os[x]
    BY <1>1, CloseIs
  <2>3. r.buf = os.buf /\ r.state = os.state /\ r.open[p] = os.open[p] \ {R(From(p))}
    BY <1>1, <2>2 DEF IsSystem
  <2> HIDE DEF r
  <2>4. /\ IsSystem(s) /\ s.open = [r.open EXCEPT ![p] = r.open[p] \ {W(Into(p))}]
        /\ \A x \in DOMAIN r \ {"open"} : s[x] = r[x]
    BY <2>2, CloseIs
  <2>5. s.buf = r.buf /\ s.state = r.state BY <2>2, <2>4 DEF IsSystem
  <2> HIDE DEF s
  <2>6. s.open = [os.open EXCEPT ![p] = D] BY <1>1, <2>2, <2>3, <2>4 DEF IsSystem
  <2> HIDE DEF D
  <2> QED BY <1>1, <2>1, <2>3, <2>4, <2>5, <2>6, SieveEnds
<1>3. CASE ~P!AtEnd(os, R(From(p)))
  <2> DEFINE n == Head(os.buf[From(p)])
  <2>1. R(From(p))[1] = "read" /\ R(From(p))[2] = From(p) BY DEF R
  <2>2. os.buf[From(p)] # <<>> /\ P!Item(os, R(From(p))) = n
    BY <1>3, <2>1 DEF P!AtEnd, P!Item
  <2>3. /\ os' = P!Read(os, R(From(p)))
        /\ mem' = [mem EXCEPT ![p].numero = n]
        /\ at' = [at EXCEPT ![p] = IF P!Passes(n, mem[p].primo) THEN "pass" ELSE "sieve"]
    BY <1>1, <1>3, <2>2, PrimesSystem DEF P!Sieve, P!Goto
  <2> HIDE DEF n
  <2>4. n = Head(os.buf[From(p)]) BY DEF n
  <2> QED BY <1>1, <2>2, <2>3, <2>4, SieveReadsOn
<1> QED BY <1>2, <1>3

(* Whoever writes: the reader may be gone. *)
LEMMA SievePass ==
  ASSUME SieveInv, NEW p \in Pids, P!Pass(p) PROVE SieveInv'
<1>1. /\ at[p] = "pass" /\ at[p] # "gone" /\ Into(p) = mem[p].pipe /\ DOMAIN mem = Pids
      /\ out' = out /\ terminal' = terminal /\ Sound(p)
  BY DEF P!Pass, P!escribir, P!Quiet, Into, SieveInv, SieveTyped
<1>2. \/ P!Die(p, P!Killed(P!SIGPIPE))
      \/ /\ os' = P!Write(os, W(Into(p)), mem[p].numero)
         /\ at' = [at EXCEPT ![p] = "sieve"] /\ mem' = mem
  BY <1>1, PrimesSystem DEF P!Pass, P!escribir, P!BackToSieve, P!Goto, P!New
<1>3. CASE P!Die(p, P!Killed(P!SIGPIPE)) BY <1>1, <1>3, SieveDies
<1>4. CASE /\ os' = P!Write(os, W(Into(p)), mem[p].numero)
           /\ at' = [at EXCEPT ![p] = "sieve"] /\ mem' = mem
  <2> DEFINE n == mem[p].numero
             m == mem[p]
             l == "sieve"
  <2>1. n <= Limit /\ Changes(p, m) BY <1>1, <1>4, SieveSame DEF Sound
  <2>2. /\ n = mem[p].numero /\ m.pipe = mem[p].pipe /\ m.up = mem[p].up
        /\ m.primo = mem[p].primo /\ m.buffer = mem[p].buffer /\ DOMAIN m = DOMAIN mem[p]
        /\ l = "sieve" /\ m.numero = n
    OBVIOUS
  <2>3. os' = P!Write(os, W(Into(p)), n) /\ at' = [at EXCEPT ![p] = l] BY <1>4
  <2>4. at[p] \in {"generar_numeros", "pass"} BY <1>1
  <2> HIDE DEF n, m, l
  <2> QED BY <1>1, <2>1, <2>2, <2>3, <2>4, SieveWrites
<1> QED BY <1>2, <1>3, <1>4

(* The generator writes the next number, or ends. *)
LEMMA SieveNumbers ==
  ASSUME SieveInv, NEW p \in Pids, P!generar_numeros(p) PROVE SieveInv'
<1>1. /\ at[p] = "generar_numeros" /\ at[p] # "gone" /\ Into(p) = mem[p].pipe
      /\ DOMAIN mem = Pids /\ Sound(p)
  BY DEF P!generar_numeros, Into, SieveInv, SieveTyped
<1>2. CASE mem[p].numero <= Limit
  <2>1. \/ P!Die(p, P!Killed(P!SIGPIPE))
        \/ /\ os' = P!Write(os, W(Into(p)), mem[p].numero)
           /\ mem' = [mem EXCEPT ![p].numero = @ + 1] /\ at' = at
    BY <1>1, <1>2, PrimesSystem DEF P!generar_numeros, P!escribir, P!NextNumber, P!New
  <2>2. out' = out /\ terminal' = terminal
    BY <1>2 DEF P!generar_numeros, P!escribir, P!Quiet
  <2>3. CASE P!Die(p, P!Killed(P!SIGPIPE)) BY <1>1, <2>2, <2>3, SieveDies
  <2>4. CASE /\ os' = P!Write(os, W(Into(p)), mem[p].numero)
             /\ mem' = [mem EXCEPT ![p].numero = @ + 1] /\ at' = at
    <3> DEFINE n == mem[p].numero
               m == [mem[p] EXCEPT !.numero = n + 1]
               l == "generar_numeros"
    <3>1. Changes(p, m)
      <4>1. mem' = [mem EXCEPT ![p] = m] BY <2>4
      <4> HIDE DEF m
      <4> QED BY <1>1, <4>1, SieveSame
    <3>2. /\ n = mem[p].numero /\ m.pipe = mem[p].pipe /\ m.up = mem[p].up
          /\ m.primo = mem[p].primo /\ m.buffer = mem[p].buffer /\ DOMAIN m = DOMAIN mem[p]
          /\ l = "generar_numeros" /\ m.numero = n + 1 /\ n <= Limit
      BY <1>1, <1>2 DEF Sound
    <3>3. os' = P!Write(os, W(Into(p)), n) /\ at' = [at EXCEPT ![p] = l]
      <4>1. at' = [at EXCEPT ![p] = "generar_numeros"]
        BY <1>1, <2>4 DEF SieveInv, SieveTyped
      <4> QED BY <2>4, <4>1
    <3>4. at[p] \in {"generar_numeros", "pass"} BY <1>1
    <3> HIDE DEF n, m, l
    <3> QED BY <1>1, <2>2, <3>1, <3>2, <3>3, <3>4, SieveWrites
  <2> QED BY <2>1, <2>3, <2>4
<1>3. CASE ~(mem[p].numero <= Limit)
  <2>1. P!ExitProcess(p, 0) BY <1>3 DEF P!generar_numeros
  <2> QED BY <1>1, <2>1, SieveExits
<1> QED BY <1>2, <1>3

(* A fork: the parent reads the new pipe and the child writes into it      *)
(* (main), or the other way round (a filter).                              *)
LEMMA SieveForks ==
  ASSUME SieveInv, NEW p \in Pids, FreePipes(os) # {},
         NEW k, k = NewPipe(os), NEW o, o = MakePipe(os, p), FreePids(o) # {},
         NEW m, m = [mem[p] EXCEPT !.pipe = k],
         NEW lp, NEW lc, P!ForkTo(p, o, m, lp, lc, "pid"),
         \/ at[p] = "main" /\ lp = "first_filter" /\ lc = "generator"
         \/ at[p] = "next_filter" /\ lp = "parent" /\ lc = "child",
         out' = out, terminal' = terminal
  PROVE  SieveInv'
<1>1. /\ SieveTyped /\ IsSystem(os) /\ DOMAIN mem = Pids /\ at[p] \in Frontier /\ at[p] # "gone"
      /\ Running(os, p) /\ Sound(p) /\ HoldsEnds(p) /\ os.buf \in [1..NPipe -> Seq(Nat)]
      /\ at \in [Pids -> SieveLabels]
  BY DEF SieveInv, SieveTyped, PipesApart, Frontier, SieveLabels
<1>2. /\ IsSystem(o) /\ k \in FreePipes(os) /\ k \in 1..NPipe
      /\ o.buf = [os.buf EXCEPT ![k] = <<>>]
      /\ o.open = [os.open EXCEPT ![p] = @ \cup {R(k), W(k)}]
      /\ o.state = os.state /\ o.group = os.group /\ o.fd = os.fd
  BY <1>1, NewPipeIs
<1>3. PICK c : c = NewPid(o) /\ c \in Pids /\ os.state[c] = "none"
  <2>1. NewPid(o) \in FreePids(o) /\ FreePids(o) \subseteq Pids BY NewPidIs
  <2>2. o.state[NewPid(o)] = "none" BY <2>1 DEF FreePids
  <2> QED BY <1>2, <2>1, <2>2
<1>4. /\ os' = Fork(o, p, c)
      /\ at' = [at EXCEPT ![p] = lp, ![c] = lc]
      /\ mem' = [mem EXCEPT ![c] = m, ![p] = [m EXCEPT !["pid"] = c]]
  BY <1>3, PrimesSystem DEF P!ForkTo
<1>5. c # p /\ ~Running(os, c) /\ at[c] = "gone"
  <2>1. ~Running(os, c) /\ c # p BY <1>1, <1>3 DEF Running
  <2> QED BY <1>1, <1>3, <2>1 DEF SieveTyped
<1>6. /\ IsSystem(os') /\ os'.state = [os.state EXCEPT ![c] = "run"]
      /\ os'.open[p] = os.open[p] \cup {R(k), W(k)}
      /\ os'.open[c] = os.open[p] \cup {R(k), W(k)}
      /\ \A q \in Pids \ {p, c} : os'.open[q] = os.open[q]
      /\ os'.buf = [os.buf EXCEPT ![k] = <<>>]
  <2>1. Forks(o, p, c, os') BY <1>2, <1>3, <1>4, ForkIs
  <2>2. os'.open = [o.open EXCEPT ![c] = o.open[p]] /\ os'.state = [o.state EXCEPT ![c] = "run"]
        /\ IsSystem(os')
    BY <2>1 DEF Forks
  <2>3. os'.buf = o.buf BY <1>2, <1>3, <1>4, ForkKeepsBuffers
  <2>4. DOMAIN os.open = Pids BY <1>1 DEF IsSystem
  <2> QED BY <1>2, <1>3, <1>5, <2>2, <2>3, <2>4
<1>7. /\ at'[p] = lp /\ at'[c] = lc /\ at' \in [Pids -> SieveLabels]
      /\ \A q \in Pids \ {p, c} : at'[q] = at[q]
  <2>1. lp \in SieveLabels /\ lc \in SieveLabels
    BY DEF SieveLabels, Frontier, Fresh, Generating, Sieving
  <2> QED BY <1>1, <1>3, <1>4, <1>5, <2>1
<1>8. /\ DOMAIN mem' = Pids /\ mem'[p] = [m EXCEPT !["pid"] = c] /\ mem'[c] = m
      /\ \A q \in Pids \ {p, c} : mem'[q] = mem[q]
  BY <1>1, <1>3, <1>4, <1>5
<1>9. /\ DOMAIN mem[p] = {"pid", "pipe", "up", "numero", "primo", "buffer"}
      /\ mem[p].numero = 2 /\ mem[p].primo \in Nat /\ mem[p].primo # 1 /\ mem[p].buffer \in Seq(Nat)
      /\ at[p] = "main" => mem[p].primo = 0
      /\ at[p] = "next_filter" => mem[p].primo >= 2
  BY <1>1 DEF Sound
<1>10. \A x \in {p, c} :
         /\ DOMAIN mem'[x] = {"pid", "pipe", "up", "numero", "primo", "buffer"}
         /\ mem'[x].pipe = k /\ mem'[x].up = mem[p].up /\ mem'[x].numero = 2
         /\ mem'[x].primo = mem[p].primo /\ mem'[x].buffer = mem[p].buffer
  <2>1. /\ DOMAIN m = {"pid", "pipe", "up", "numero", "primo", "buffer"}
        /\ m.pipe = k /\ m.up = mem[p].up /\ m.numero = 2
        /\ m.primo = mem[p].primo /\ m.buffer = mem[p].buffer
    BY <1>9
  <2> DEFINE r == [m EXCEPT !["pid"] = c]
  <2>2. /\ DOMAIN r = {"pid", "pipe", "up", "numero", "primo", "buffer"}
        /\ r.pipe = m.pipe /\ r.up = m.up /\ r.numero = m.numero
        /\ r.primo = m.primo /\ r.buffer = m.buffer
    BY ONLY <2>1
  <2>3. mem'[p] = r /\ mem'[c] = m BY <1>8
  <2> HIDE DEF r
  <2> QED BY ONLY <2>1, <2>2, <2>3
<1>11. \A q \in Pids \ {p, c} :
         /\ at'[q] = at[q] /\ mem'[q] = mem[q]
         /\ From(q)' = From(q) /\ Into(q)' = Into(q)
         /\ LastRead(q)' = LastRead(q) /\ Bound(q)' = Bound(q)
         /\ (HoldsEnds(q)' <=> HoldsEnds(q)) /\ (Sound(q)' <=> Sound(q))
         /\ (Running(os', q) <=> Running(os, q))
  <2> SUFFICES ASSUME NEW q \in Pids \ {p, c}
               PROVE  /\ at'[q] = at[q] /\ mem'[q] = mem[q]
                      /\ From(q)' = From(q) /\ Into(q)' = Into(q)
                      /\ LastRead(q)' = LastRead(q) /\ Bound(q)' = Bound(q)
                      /\ (HoldsEnds(q)' <=> HoldsEnds(q)) /\ (Sound(q)' <=> Sound(q))
                      /\ (Running(os', q) <=> Running(os, q))
    OBVIOUS
  <2>1. at'[q] = at[q] /\ mem'[q] = mem[q] /\ os'.open[q] = os.open[q] BY <1>6, <1>7, <1>8
  <2>2. Running(os', q) <=> Running(os, q) BY <1>1, <1>6 DEF Running, IsSystem
  <2> QED BY <2>1, <2>2, SameProcess
<1>12. \A q \in Pids : q \in {p, c} \/ q \in Pids \ {p, c} OBVIOUS
<1>13. Running(os', p) /\ Running(os', c)
  BY <1>1, <1>3, <1>5, <1>6 DEF Running, IsSystem
<1>14. SieveTyped'
  <2>1. lp # "gone" /\ lc # "gone" /\ lp # "pass" /\ lc # "pass" /\ lp # "main" /\ lc # "main"
        /\ (lp \in Sieving \cup {"next_filter"} => at[p] = "next_filter")
        /\ lc \notin Sieving \cup {"next_filter"}
    BY DEF Sieving
  <2>2. \A x \in {p, c} : Sound(x)' BY <1>7, <1>9, <1>10, <2>1 DEF Sound
  <2>3. \A q \in Pids : (Running(os', q) <=> at'[q] # "gone") /\ Sound(q)'
    <3> TAKE q \in Pids
    <3>1. CASE q \in {p, c} BY <1>7, <1>13, <2>1, <2>2, <3>1
    <3>2. CASE q \in Pids \ {p, c} BY <1>1, <1>11, <3>2 DEF SieveTyped
    <3> QED BY <1>12, <3>1, <3>2
  <2>4. \A q \in Pids : at'[q] \in Frontier => q \in {p, c}
    <3> TAKE q \in Pids
    <3>1. CASE q \in Pids \ {p, c} BY <1>1, <1>11, <3>1 DEF SieveTyped
    <3> QED BY <1>12, <3>1
  <2>5. ~(lp \in Frontier /\ lc \in Frontier) BY DEF Frontier, Fresh
  <2>6. \A q, r \in Pids : at'[q] \in Frontier /\ at'[r] \in Frontier => q = r
    BY <1>7, <2>4, <2>5
  <2>7. os'.buf \in [1..NPipe -> Seq(Nat)]
    <3>1. <<>> \in Seq(Nat) OBVIOUS
    <3> QED BY <1>1, <1>2, <1>6, <3>1, OnePipe
  <2> QED BY <1>6, <1>7, <1>8, <1>1, <2>3, <2>6, <2>7 DEF SieveTyped, SieveLabels
<1>15. \A q \in Pids : Running(os, q) => R(k) \notin os.open[q] /\ W(k) \notin os.open[q]
  BY <1>1, <1>2, FreePipeUnused
<1>16. /\ Into(p)' = k /\ Into(c)' = k
       /\ at[p] = "main" => From(p)' = k
       /\ at[p] = "next_filter" => From(c)' = k /\ From(p)' = From(p) /\ From(p) = mem[p].up
  BY <1>7, <1>10 DEF Into, From
<1>17. \A q \in Pids \ {p, c} :
          /\ at'[q] \in Readers => at[q] \in Readers /\ From(q) # k /\ From(q) \in 1..NPipe
          /\ at'[q] \in Writers => at[q] \in Writers /\ Into(q) # k
  <2> SUFFICES ASSUME NEW q \in Pids \ {p, c}
               PROVE  /\ at[q] \in Readers => From(q) # k /\ From(q) \in 1..NPipe
                      /\ at[q] \in Writers => Into(q) # k
    BY <1>11
  <2>1. at[q] \in Readers \cup Writers => Running(os, q)
    BY <1>1 DEF SieveTyped, Readers, Writers, Fresh, Sieving, Generating
  <2>2. HoldsEnds(q) BY DEF SieveInv, PipesApart
  <2> QED BY <1>15, <2>1, <2>2 DEF HoldsEnds
<1>18. at[p] = "next_filter" => /\ at[p] \in Readers /\ From(p) # k /\ From(p) \in 1..NPipe
                                /\ R(From(p)) \in os.open[p]
  <2>1. at[p] = "next_filter" => at[p] \in Readers BY DEF Readers
  <2> QED BY <1>1, <1>15, <2>1 DEF HoldsEnds
<1>19. /\ at[p] = "main" => /\ lp \in Readers /\ lp \notin Writers /\ lc \in Writers /\ lc \notin Readers
                            /\ lp \notin Sieving \cup {"child"} /\ lc \notin Sieving \cup {"child"}
                            /\ lp \in Fresh /\ lc \in Generating
       /\ at[p] = "next_filter" =>
             /\ lp \in Readers /\ lp \in Writers /\ lc \in Readers /\ lc \notin Writers
             /\ lp \notin Fresh /\ lc \in Fresh /\ lp \notin Generating /\ lp # "pass"
  BY DEF Readers, Writers, Fresh, Sieving, Generating, Frontier
<1>20. PipesApart'
  <2>1. HoldsEnds(p)' /\ HoldsEnds(c)'
    <3>1. R(k) \in os'.open[p] /\ W(k) \in os'.open[p] /\ R(k) \in os'.open[c] /\ W(k) \in os'.open[c]
      BY <1>6
    <3>2. CASE at[p] = "main" BY <1>2, <1>7, <1>16, <1>19, <3>1, <3>2 DEF HoldsEnds
    <3>3. CASE at[p] = "next_filter"
      <4>1. R(From(p)) \in os'.open[p] BY <1>6, <1>18, <3>3
      <4>2. mem'[p].up # mem'[p].pipe /\ mem'[c].up # mem'[c].pipe BY <1>10, <1>16, <1>18, <3>3
      <4> QED BY <1>2, <1>7, <1>16, <1>18, <1>19, <3>1, <3>3, <4>1, <4>2 DEF HoldsEnds
    <3> QED BY <3>2, <3>3
  <2>2. \A q \in Pids : HoldsEnds(q)' BY <1>11, <1>12, <2>1 DEF SieveInv, PipesApart
  <2>3. ASSUME NEW q \in Pids, NEW r \in Pids, at'[q] \in Readers, at'[r] \in Readers,
               From(q)' = From(r)'
        PROVE  q = r
    <3>1. CASE q \in Pids \ {p, c} /\ r \in Pids \ {p, c}
      BY <1>11, <2>3, <3>1 DEF SieveInv, PipesApart
    <3>2. \A x, y \in Pids :
             x \in {p, c} /\ at'[x] \in Readers /\ y \in Pids \ {p, c} /\ at'[y] \in Readers
             => From(x)' # From(y)'
      <4> SUFFICES ASSUME NEW x \in {p, c}, at'[x] \in Readers,
                          NEW y \in Pids \ {p, c}, at'[y] \in Readers
                   PROVE  From(x)' # From(y)'
        OBVIOUS
      <4>1. at[y] \in Readers /\ From(y) # k /\ From(y)' = From(y) BY <1>11, <1>17
      <4>2. CASE From(x)' = k BY <4>1, <4>2
      <4>3. CASE x = p /\ at[p] = "next_filter"
        BY <1>16, <1>18, <4>1, <4>3 DEF SieveInv, PipesApart
      <4> QED BY <1>7, <1>16, <1>19, <4>2, <4>3
    <3>3. CASE q \in {p, c} /\ r \in {p, c} BY <1>7, <1>16, <1>18, <1>19, <2>3, <3>3
    <3> QED BY <1>12, <2>3, <3>1, <3>2, <3>3
  <2>4. ASSUME NEW q \in Pids, NEW r \in Pids, at'[q] \in Writers, at'[r] \in Writers,
               Into(q)' = Into(r)'
        PROVE  q = r
    <3>1. CASE q \in Pids \ {p, c} /\ r \in Pids \ {p, c}
      BY <1>11, <2>4, <3>1 DEF SieveInv, PipesApart
    <3>2. \A x, y \in Pids :
             x \in {p, c} /\ y \in Pids \ {p, c} /\ at'[y] \in Writers => Into(x)' # Into(y)'
      BY <1>11, <1>16, <1>17
    <3>3. CASE q \in {p, c} /\ r \in {p, c} BY <1>7, <1>19, <2>4, <3>3
    <3> QED BY <1>12, <2>4, <3>1, <3>2, <3>3
  <2> QED BY <2>2, <2>3, <2>4 DEF PipesApart
<1>21. os'.buf[k] = <<>> /\ \A j \in (1..NPipe) \ {k} : os'.buf[j] = os.buf[j]
  BY <1>1, <1>2, <1>6, OnePipe
<1>22. ASSUME NEW r \in Pids, at[r] \in Readers, at'[r] \in Readers, From(r)' = From(r), From(r) # k,
              Bound(r)' = Bound(r), LastRead(r)' = LastRead(r)
       PROVE  /\ Stream(Bound(r)', LastRead(r)', os'.buf[From(r)'])
              /\ \A w \in Pids : at'[w] \in Writers /\ Into(w)' = From(r)' => Feeds(w, r)'
  <2>1. os'.buf[From(r)'] = os.buf[From(r)] BY <1>21, <1>22, ReaderTypes
  <2>2. LastOf(LastRead(r), os.buf[From(r)])' = LastOf(LastRead(r), os.buf[From(r)])
    BY <1>22, <2>1
  <2>3. ASSUME NEW w \in Pids, at'[w] \in Writers, Into(w)' = From(r)' PROVE Feeds(w, r)'
    <3>1. w \in Pids \ {p, c} BY <1>12, <1>16, <1>22, <2>3
    <3>2. /\ at[w] \in Writers /\ Into(w)' = Into(w) /\ at'[w] = at[w] /\ mem'[w] = mem[w]
          /\ LastRead(w)' = LastRead(w)
      BY <1>11, <2>3, <3>1
    <3>3. Feeds(w, r) BY <1>22, <2>3, <3>2 DEF SieveInv, Streams
    <3> QED BY <1>22, <2>2, <3>2, <3>3, FeedsSame
  <2> QED BY <1>22, <2>1, <2>3, ReaderTypes
<1>23. \A b, x : Stream(b, x, <<>>) /\ LastOf(x, <<>>) = x BY DEF Stream, LastOf
<1>24. Streams'
  <2> SUFFICES ASSUME NEW r \in Pids, at'[r] \in Readers
               PROVE  /\ Stream(Bound(r)', LastRead(r)', os'.buf[From(r)'])
                      /\ \A w \in Pids : at'[w] \in Writers /\ Into(w)' = From(r)' => Feeds(w, r)'
    BY DEF Streams
  <2>1. CASE r \in Pids \ {p, c} BY <1>11, <1>17, <1>22, <2>1
  <2>2. CASE r = p /\ at[p] = "main"
    <3>1. /\ From(p)' = k /\ Bound(p)' = 0 /\ LastRead(p)' = 1
      BY <1>7, <1>9, <1>10, <1>16, <1>19, <2>2 DEF Bound, LastRead, Greater
    <3>2. LastOf(LastRead(p), os.buf[From(p)])' = 1 BY <1>21, <1>23, <3>1
    <3>3. ASSUME NEW w \in Pids, at'[w] \in Writers, Into(w)' = k PROVE Feeds(w, p)'
      <4>1. w = c BY <1>7, <1>11, <1>12, <1>17, <1>19, <2>2, <3>3
      <4>2. at'[c] \in Generating /\ mem'[c].numero = 2 BY <1>7, <1>10, <1>19, <2>2
      <4> QED BY <3>1, <3>2, <4>1, <4>2 DEF Feeds
    <3> QED BY <1>21, <1>23, <2>2, <3>1, <3>3
  <2>3. CASE r = p /\ at[p] = "next_filter"
    <3>1. Bound(p)' = Bound(p) /\ LastRead(p)' = LastRead(p)
      <4>1. at[p] \notin Fresh /\ at'[p] \notin Fresh BY <1>7, <1>19, <2>3 DEF Fresh
      <4> QED BY <1>9, <1>10, <4>1 DEF Bound, LastRead
    <3> QED BY <1>16, <1>18, <1>22, <2>2, <2>3, <3>1
  <2>4. CASE r = c /\ at[p] = "next_filter"
    <3> DEFINE q == mem[p].primo
    <3>1. From(c)' = k /\ Bound(c)' = q /\ LastRead(c)' = q
      BY <1>7, <1>9, <1>10, <1>16, <1>19, <2>4 DEF Bound, LastRead, Greater
    <3>2. LastOf(LastRead(c), os.buf[From(c)])' = q BY <1>21, <1>23, <3>1
    <3>3. ASSUME NEW w \in Pids, at'[w] \in Writers, Into(w)' = k PROVE Feeds(w, c)'
      <4>1. w = p BY <1>7, <1>11, <1>12, <1>17, <1>19, <2>4, <3>3
      <4>2. at'[p] \notin Generating /\ at'[p] # "pass" /\ at'[p] \notin Fresh
            /\ mem'[p].primo = q /\ mem'[p].numero = 2
        BY <1>7, <1>10, <1>19, <2>4
      <4>3. q \in Nat /\ q >= 2 BY <1>9, <2>4
      <4>4. LastRead(p)' = Greater(2, q) BY <4>2 DEF LastRead, Greater
      <4> HIDE DEF q
      <4>5. Greater(2, q) = q BY <4>3 DEF Greater
      <4>6. Alike(q, q) BY DEF Alike
      <4>7. q <= q /\ (q + 1)..q = {} BY <4>3
      <4>8. /\ Alike(mem'[p].primo, Bound(c)') /\ q <= LastRead(p)'
            /\ \A j \in (q + 1)..LastRead(p)' : ~Rough(Bound(c)', j)
        BY <3>1, <4>2, <4>4, <4>5, <4>6, <4>7
      <4> QED BY <3>2, <4>1, <4>2, <4>8 DEF Feeds
    <3> QED BY <1>21, <1>23, <2>4, <3>1, <3>3
  <2> QED BY <1>7, <1>12, <1>19, <2>1, <2>2, <2>3, <2>4
<1>25. Prints'
  <2>1. ASSUME NEW q \in Pids, at'[q] # "gone"
        PROVE  /\ Range(mem'[q].buffer) \subseteq P!PrimesUpTo(Limit)
               /\ terminal' => mem'[q].buffer = <<>>
               /\ terminal' /\ at'[q] \in Frontier => mem'[q].primo = LastOf(0, out')
    <3>1. CASE q \in {p, c} BY <1>1, <1>10, <3>1 DEF SieveInv, Prints
    <3>2. CASE q \in Pids \ {p, c} BY <1>11, <2>1, <3>2 DEF SieveInv, Prints
    <3> QED BY <1>12, <3>1, <3>2
  <2> QED BY <2>1 DEF SieveInv, Prints
<1> QED BY <1>14, <1>20, <1>24, <1>25 DEF SieveInv

(* main and the filters fork, and every process is one step of its own. *)
LEMMA SievePipeAndFork ==
  ASSUME SieveInv, NEW p \in Pids, NEW lp, NEW lc, P!PipeAndFork(p, lp, lc),
         \/ at[p] = "main" /\ lp = "first_filter" /\ lc = "generator"
         \/ at[p] = "next_filter" /\ lp = "parent" /\ lc = "child"
  PROVE  SieveInv'
<1>1. CASE FreePipes(os) = {} \/ FreePids(os) = {}
  <2>1. P!ExitProcess(p, 255) BY <1>1, PrimesSystem DEF P!PipeAndFork
  <2>2. at[p] # "gone" OBVIOUS
  <2> QED BY <2>1, <2>2, SieveExits
<1>2. CASE ~(FreePipes(os) = {} \/ FreePids(os) = {})
  <2> DEFINE k == NewPipe(os)
             o == MakePipe(os, p)
             m == [mem[p] EXCEPT !.pipe = k]
  <2>1. P!ForkTo(p, o, m, lp, lc, "pid") /\ out' = out /\ terminal' = terminal
    BY <1>2, PrimesSystem DEF P!PipeAndFork
  <2>2. FreePids(o) = FreePids(os)
    <3>1. o.state = os.state /\ o.group = os.group
      BY <1>2, NewPipeIs DEF SieveInv, SieveTyped
    <3> QED BY <3>1 DEF FreePids
  <2>3. k = NewPipe(os) /\ o = MakePipe(os, p) /\ m = [mem[p] EXCEPT !.pipe = k]
        /\ FreePids(o) # {}
    BY <1>2, <2>2
  <2> HIDE DEF k, o, m
  <2> QED BY <1>2, <2>1, <2>3, SieveForks
<1> QED BY <1>1, <1>2

(* SieveInv is kept by each step of a process. *)
LEMMA SieveStep ==
  ASSUME P!PrimesAssumption, SieveInv, NEW p \in Pids, P!Step(p) PROVE SieveInv'
<1>1. CASE P!main(p) BY <1>1, SievePipeAndFork DEF P!main
<1>2. CASE P!NextFilter(p) BY <1>2, SievePipeAndFork DEF P!NextFilter
<1>3. CASE P!Wait(p) BY <1>3, SieveExits DEF P!Wait
<1> QED BY <1>1, <1>2, <1>3, SieveGenerator, SieveNumbers, SieveFirstFilter, SieveFiltro,
           SieveChild, SieveParent, SieveSieve, SievePass DEF P!Step

(* SieveInv is inductive. *)
LEMMA SieveNext ==
  ASSUME P!PrimesAssumption, SieveInv, [P!Next]_(P!vars) PROVE SieveInv'
<1>1. CASE P!Next BY <1>1, PrimesSystem, SieveStep DEF P!Next
<1>2. CASE UNCHANGED P!vars
  <2>1. os' = os /\ at' = at /\ mem' = mem /\ out' = out /\ terminal' = terminal
    BY <1>2 DEF P!vars
  <2>2. /\ \A p : Running(os', p) <=> Running(os, p)
        /\ \A p : From(p)' = From(p) /\ Into(p)' = Into(p)
        /\ \A p : LastRead(p)' = LastRead(p) /\ Bound(p)' = Bound(p)
        /\ \A p : (HoldsEnds(p)' <=> HoldsEnds(p)) /\ (Sound(p)' <=> Sound(p))
    <3> SUFFICES ASSUME NEW p
                 PROVE  /\ From(p)' = From(p) /\ Into(p)' = Into(p)
                        /\ LastRead(p)' = LastRead(p) /\ Bound(p)' = Bound(p)
                        /\ (HoldsEnds(p)' <=> HoldsEnds(p)) /\ (Sound(p)' <=> Sound(p))
      BY <2>1
    <3> QED BY <2>1, SameProcess
  <2>3. \A w, r : Feeds(w, r)' <=> Feeds(w, r) BY <2>1, <2>2 DEF Feeds
  <2>4. SieveTyped' BY <2>1, <2>2 DEF SieveInv, SieveTyped
  <2>5. PipesApart' BY <2>1, <2>2 DEF SieveInv, PipesApart
  <2>6. Streams' BY <2>1, <2>2, <2>3 DEF SieveInv, Streams
  <2>7. Prints' BY <2>1 DEF SieveInv, Prints
  <2> QED BY <2>4, <2>5, <2>6, <2>7 DEF SieveInv
<1> QED BY <1>1, <1>2

(* At the start there is main alone, without a pipe. *)
LEMMA SieveInit == P!Init => SieveInv
<1> SUFFICES ASSUME P!Init PROVE SieveInv OBVIOUS
<1>1. /\ os = P!Booted
      /\ at = [p \in Pids |-> IF p = 1 THEN "main" ELSE "gone"]
      /\ mem = [p \in Pids |-> IF p = 1 THEN P!Memory ELSE P!NoMemory]
      /\ out = <<>> /\ terminal \in BOOLEAN
  BY PrimesSystem DEF P!Init, P!Boot
<1>2. P!Booted = Booted
  <2>1. P!Stdin = Stdin /\ P!Stderr = Stderr /\ P!Closed = Closed /\ P!Tty = Tty
        /\ P!InitPid = InitPid /\ P!Pids = Pids
    BY Zenon DEF P!Stdin, P!Stderr, Stdin, Stderr, P!Closed, Closed, P!Tty, Tty,
                 P!InitPid, InitPid, P!Pids, Pids
  <2>2. P!Exited(0) = Exited(0) BY Zenon DEF P!Exited, Exited
  <2> QED BY <2>1, <2>2, Zenon DEF P!Booted, Booted
<1>3. /\ IsSystem(os) /\ 1 \in Pids
      /\ os.state = [p \in Pids |-> IF p = 1 THEN "run" ELSE "none"]
      /\ os.buf = [k \in 1..NPipe |-> <<>>]
  BY <1>1, <1>2, Constants DEF Booted, IsSystem
<1>4. \A p \in Pids : at[p] \in {"main", "gone"} /\ (at[p] = "main" <=> p = 1) BY <1>1
<1>5. mem[1] = P!Memory BY <1>1, <1>3
<1>6. SieveTyped
  <2>1. \A p \in Pids : Sound(p)
    <3> TAKE p \in Pids
    <3>1. CASE p = 1
      <4>1. at[1] = "main" /\ at[1] \notin Sieving \cup {"next_filter"} BY <1>4, <3>1 DEF Sieving
      <4>2. /\ DOMAIN mem[1] = {"pid", "pipe", "up", "numero", "primo", "buffer"}
            /\ mem[1].numero = 2 /\ mem[1].primo = 0 /\ mem[1].buffer = <<>>
        BY <1>5 DEF P!Memory
      <4>3. <<>> \in Seq(Nat) OBVIOUS
      <4> QED BY <3>1, <4>1, <4>2, <4>3 DEF Sound
    <3>2. CASE p # 1 BY <1>4, <3>2 DEF Sound
    <3> QED BY <3>1, <3>2
  <2>2. \A p \in Pids : Running(os, p) <=> at[p] # "gone" BY <1>3, <1>4 DEF Running
  <2>3. "gone" \notin Frontier /\ "main" \in Frontier BY DEF Frontier, Fresh
  <2>4. os.buf \in [1..NPipe -> Seq(Nat)] BY <1>3
  <2>5. at \in [Pids -> Frontier \cup Generating \cup Sieving \cup {"wait", "gone"}]
    BY <1>1, <2>3
  <2> QED BY <1>1, <1>3, <1>4, <2>1, <2>2, <2>3, <2>4, <2>5 DEF SieveTyped
<1>7. \A p \in Pids : at[p] \notin Readers /\ at[p] \notin Writers /\ at[p] \notin Sieving \cup {"child"}
  BY <1>4 DEF Readers, Writers, Fresh, Sieving, Generating
<1>8. PipesApart BY <1>7 DEF PipesApart, HoldsEnds
<1>9. Streams BY <1>7 DEF Streams
<1>10. Prints
  <2>1. out \in Seq(Nat) /\ Range(out) = {} /\ DOMAIN out = {} BY <1>1 DEF Range
  <2>2. P!IsSorted(out) BY <2>1 DEF P!IsSorted
  <2>3. mem[1].buffer = <<>> /\ mem[1].primo = 0 BY <1>5 DEF P!Memory
  <2>4. Range(mem[1].buffer) = {} BY <2>3 DEF Range
  <2>5. LastOf(0, out) = 0 BY <1>1 DEF LastOf
  <2> QED BY <1>4, <2>1, <2>2, <2>3, <2>4, <2>5 DEF Prints
<1> QED BY <1>6, <1>8, <1>9, <1>10 DEF SieveInv

(* Whatever the speed of the generator and of the filters, only primes are *)
(* printed, and on a terminal in order and with none left out              *)
(* (primes.c:30-140): each filter waits for its prime before it makes the  *)
(* next filter.                                                            *)
THEOREM PrimesInOrderHolds ==
  ASSUME P!PrimesAssumption
  PROVE  P!Init /\ [][P!Next]_(P!vars) => []P!PrimesInOrder
<1>1. SieveInv => P!PrimesInOrder
  <2>1. P!Range(out) = Range(out) BY DEF P!Range, Range
  <2> QED BY <2>1 DEF SieveInv, Prints, P!PrimesInOrder
<1> QED BY <1>1, SieveInit, SieveNext, PTL
=============================================================================
