-------------------------------- MODULE Ipc --------------------------------
(***************************************************************************)
(* The library's ipc_send and ipc_recv (3-sched/lib/ipc.c) on any number   *)
(* of CPUs, and programs that live by them: pingpong, primes and fairness  *)
(* of 3-sched/user.  A step is a system call or a read of one's own struct *)
(* Env, which the library maps and reads without the kernel's help, after  *)
(* sys_ipc_recv has returned.  Pages and the steps of fork are the subject *)
(* of AddressSpace, who runs when that of Kernel: here every environment   *)
(* that is RUNNABLE runs in the end.                                       *)
(*                                                                         *)
(* None of these programs makes an environment after one has ended, so a   *)
(* slot of envs[] is the id of its environment.                            *)
(***************************************************************************)
EXTENDS Integers, Sequences, FiniteSets

CONSTANTS
  Programs,     \* which of "pingpong", "primes", "fairness" are run
  NENV,         \* the number of slots of envs[]
  LastBall      \* the number pingpong stops at, 10 in the code

ASSUME IpcAssumption ==
  /\ Programs \subseteq {"pingpong", "primes", "fairness"}
  /\ NENV \in Nat /\ NENV >= 3
  /\ LastBall \in Nat \ {0}

Envs == 0 .. NENV - 1
BadEnv == NENV      \* what fork returns when there is no slot

VARIABLES
  program,  \* the program the machine was built to run
  env,      \* envs[]: the status and the fields of IPC
  usr,      \* the memory of each environment, and where it is
  printed,  \* the numbers pingpong or primes have printed
  monitor   \* the kernel is in its monitor, with the lock

vars == <<program, env, usr, printed, monitor>>

-----------------------------------------------------------------------------
NoMessage == [from |-> BadEnv, value |-> 0]

(* `to` and `val` are the arguments of ipc_send, `from` is what ipc_recv   *)
(* stored, got what it returned, id the child, p the prime of primeproc.   *)
Unborn == [pc |-> "none", role |-> "none", to |-> 0, val |-> 0, from |-> 0,
           got |-> NoMessage, id |-> BadEnv, p |-> 0]

(* fairness: three environments, each before its loop; the one in slot 1   *)
(* receives.                                                               *)
Begun(pr, e) ==
  CASE pr = "fairness" /\ e = 1 -> [Unborn EXCEPT !.pc = "recv", !.role = "receiver"]
    [] pr = "fairness" /\ e \in {0, 2} ->
         [Unborn EXCEPT !.pc = "sent", !.role = "sender", !.to = 1]
    [] pr # "fairness" /\ e = 0 -> [Unborn EXCEPT !.pc = "fork", !.role = "umain"]
    [] OTHER -> Unborn

Init ==
  /\ program \in Programs
  /\ usr = [e \in Envs |-> Begun(program, e)]
  /\ env = [e \in Envs |-> [status |-> IF usr[e].pc = "none" THEN "FREE" ELSE "RUNNABLE",
                            recving |-> FALSE, from |-> 0, value |-> 0]]
  /\ printed = <<>>
  /\ monitor = FALSE

(* An environment gets on a CPU and reaches the instruction at `pc`.       *)
At(e, pc) == ~monitor /\ env[e].status = "RUNNABLE" /\ usr[e].pc = pc

(* A user panic ends in a breakpoint, and that in the monitor: a CPU stays *)
(* there with the kernel's lock.                                           *)
Panic(e) == monitor' = TRUE /\ usr' = [usr EXCEPT ![e].pc = "panic"]

-----------------------------------------------------------------------------
(* System calls *)

Goto(e, pc) == usr' = [usr EXCEPT ![e].pc = pc]

SysIpcRecv(e) ==
  /\ At(e, "recv")
  /\ env' = [env EXCEPT ![e].recving = TRUE, ![e].status = "NOT_RUNNABLE"]
  /\ Goto(e, "woken")
  /\ UNCHANGED <<program, printed, monitor>>

(* Mutant: the receiver still counts as receiving. *)
DeliveredKeeps(d, e, value) ==
  [env EXCEPT ![d] = [status |-> "RUNNABLE", recving |-> TRUE, from |-> e, value |-> value]]

(* Mutant: the receiver has its message and is not made RUNNABLE. *)
DeliveredAsleep(d, e, value) ==
  [env EXCEPT ![d] = [status |-> "NOT_RUNNABLE", recving |-> FALSE, from |-> e, value |-> value]]

Delivered(d, e, value) ==
  [env EXCEPT ![d] = [status |-> "RUNNABLE", recving |-> FALSE, from |-> e, value |-> value]]

(* -E_IPC_NOT_RECV: ipc_send yields, and tries again. *)
NotReceiving(u) == [u EXCEPT !.pc = "yield"]

SysIpcTrySend(e) ==
  /\ At(e, "send")
  /\ LET d == usr[e].to IN
     \/ /\ d \notin Envs \/ (d \in Envs /\ env[d].status = "FREE")
        /\ Panic(e)
        /\ UNCHANGED env
     \/ /\ d \in Envs /\ env[d].status # "FREE" /\ ~env[d].recving
        /\ usr' = [usr EXCEPT ![e] = NotReceiving(@)]
        /\ UNCHANGED <<env, monitor>>
     \/ /\ d \in Envs /\ env[d].status # "FREE" /\ env[d].recving
        /\ env' = Delivered(d, e, usr[e].val)
        /\ Goto(e, "sent")
        /\ UNCHANGED monitor
  /\ UNCHANGED <<program, printed>>

SysYield(e) == At(e, "yield") /\ Goto(e, "send") /\ UNCHANGED <<program, env, printed, monitor>>

(* sys_env_destroy of itself. *)
Exit(e) ==
  /\ At(e, "exit")
  /\ env' = [env EXCEPT ![e].status = "FREE"]
  /\ usr' = [usr EXCEPT ![e].pc = "none"]
  /\ UNCHANGED <<program, printed, monitor>>

(* fork, as a whole: what the parent gets, and its copy, the child.  In    *)
(* every program the child goes on to receive.                             *)
Forked(u, c) == [u EXCEPT !.id = c, !.pc = "forked"]
Child(u) == [u EXCEPT !.pc = "recv", !.role = "child", !.p = 0, !.id = BadEnv]

Fork(e) ==
  /\ At(e, "fork")
  /\ LET free == {d \in Envs : env[d].status = "FREE"}
     IN  \/ /\ free = {}
            /\ usr' = [usr EXCEPT ![e] = Forked(@, BadEnv)]
            /\ UNCHANGED env
         \/ \E c \in free :
              /\ \A f \in free : c <= f
              /\ env' = [env EXCEPT ![c].status = "RUNNABLE", ![c].recving = FALSE]
              /\ usr' = [usr EXCEPT ![e] = Forked(@, c), ![c] = Child(usr[e])]
  /\ UNCHANGED <<program, printed, monitor>>

-----------------------------------------------------------------------------
(* The rest of ipc_recv: who sent, then what. *)

ReadFrom(e) ==
  /\ At(e, "woken")
  /\ usr' = [usr EXCEPT ![e].from = env[e].from, ![e].pc = "value"]
  /\ UNCHANGED <<program, env, printed, monitor>>

ReadValue(e) ==
  /\ At(e, "value")
  /\ usr' = [usr EXCEPT ![e].got = [from |-> usr[e].from, value |-> env[e].value],
                        ![e].pc = "received"]
  /\ UNCHANGED <<program, env, printed, monitor>>

-----------------------------------------------------------------------------
(* The programs *)

Sends(u, to, value) == [u EXCEPT !.pc = "send", !.to = to, !.val = value]
Receives(u) == [u EXCEPT !.pc = "recv"]

PingpongForked(e) ==
  usr' = [usr EXCEPT ![e] = Sends(@, @.id, 0)] /\ UNCHANGED <<env, printed, monitor>>

PingpongReceived(e) ==
  /\ printed' = Append(printed, usr[e].got.value)
  /\ usr' = [usr EXCEPT ![e] = IF @.got.value = LastBall THEN [@ EXCEPT !.pc = "exit"]
                               ELSE Sends(@, @.got.from, @.got.value + 1)]
  /\ UNCHANGED <<env, monitor>>

PingpongSent(e) ==
  /\ Goto(e, IF usr[e].val = LastBall THEN "exit" ELSE "recv")
  /\ UNCHANGED <<env, printed, monitor>>

(* primes: umain feeds the numbers to the first primeproc, and each of     *)
(* those forks the next; a fork that fails is a panic.                     *)
PrimesForked(e) ==
  /\ IF usr[e].id = BadEnv
     THEN Panic(e)
     ELSE /\ usr' = [usr EXCEPT ![e] = IF @.role = "umain" THEN Sends(@, @.id, 2)
                                       ELSE Receives(@)]
          /\ UNCHANGED monitor
  /\ UNCHANGED <<env, printed>>

PrimesReceived(e) ==
  LET i == usr[e].got.value
  IN  /\ IF usr[e].p = 0
         THEN /\ printed' = Append(printed, i)
              /\ usr' = [usr EXCEPT ![e].p = i, ![e].pc = "fork"]
         ELSE /\ usr' = [usr EXCEPT ![e] = IF i % @.p # 0 THEN Sends(@, @.id, i)
                                           ELSE Receives(@)]
              /\ UNCHANGED printed
      /\ UNCHANGED <<env, monitor>>

PrimesSent(e) ==
  /\ usr' = [usr EXCEPT ![e] = IF @.role = "umain" THEN Sends(@, @.id, @.val + 1)
                               ELSE Receives(@)]
  /\ UNCHANGED <<env, printed, monitor>>

(* fairness: for ever. *)
FairnessReceived(e) == Goto(e, "recv") /\ UNCHANGED <<env, printed, monitor>>
FairnessSent(e) == Goto(e, "send") /\ UNCHANGED <<env, printed, monitor>>

Program(e) ==
  /\ \/ program = "pingpong" /\
          \/ At(e, "forked") /\ PingpongForked(e)
          \/ At(e, "received") /\ PingpongReceived(e)
          \/ At(e, "sent") /\ PingpongSent(e)
     \/ program = "primes" /\
          \/ At(e, "forked") /\ PrimesForked(e)
          \/ At(e, "received") /\ PrimesReceived(e)
          \/ At(e, "sent") /\ PrimesSent(e)
     \/ program = "fairness" /\
          \/ At(e, "received") /\ FairnessReceived(e)
          \/ At(e, "sent") /\ FairnessSent(e)
  /\ UNCHANGED program

Step(e) ==
  \/ SysIpcRecv(e) \/ SysIpcTrySend(e) \/ SysYield(e) \/ Fork(e) \/ Exit(e)
  \/ ReadFrom(e) \/ ReadValue(e) \/ Program(e)

Next == \E e \in Envs : Step(e)

(* Round robin reaches every environment (Kernel, NoStarvation). *)
Spec == Init /\ [][Next]_vars /\ \A e \in Envs : WF_vars(Step(e))

-----------------------------------------------------------------------------
(* What each environment does, in the terms of Rendezvous. *)
Doing(e) ==
  CASE usr[e].pc \in {"none", "panic"} -> [kind |-> "gone"]
    [] usr[e].pc \in {"send", "yield"} ->
         [kind |-> "sending", to |-> usr[e].to, value |-> usr[e].val]
    [] usr[e].pc = "woken" /\ env[e].recving -> [kind |-> "waiting"]
    [] usr[e].pc \in {"woken", "value"} /\ ~env[e].recving ->
         [kind |-> "has", from |-> env[e].from, value |-> env[e].value]
    [] OTHER -> [kind |-> "idle"]

R == INSTANCE Rendezvous WITH
       Procs <- Envs, Values <- Nat,
       state <- [e \in Envs |-> Doing(e)], got <- [e \in Envs |-> usr[e].got]

(* ipc_send and ipc_recv are a rendezvous: a send that returns has been    *)
(* received by exactly one ipc_recv, which returns the sender and the      *)
(* value of that send, although the sender retries, others send to the     *)
(* same environment, and the receiver reads its message in two steps after *)
(* it has been made RUNNABLE (ipc.c:25-34, 52-56, syscall.c:363-398).      *)
ImplementsRendezvous == R!Spec

IsPrime(n) == n > 1 /\ \A d \in 2 .. n - 1 : n % d # 0
PrimesSoFar ==
  /\ \A i \in DOMAIN printed : IsPrime(printed[i])
  /\ printed # <<>> =>
       \A n \in 2 .. printed[Len(printed)] :
         IsPrime(n) => \E i \in DOMAIN printed : printed[i] = n

(* What they do goes no wrong way: pingpong passes the ball on and no      *)
(* number of it is lost or comes twice; primes prints the primes in order  *)
(* and leaves none out, though a number goes through as many messages as   *)
(* there are primes below it; and only primes panics, so that nobody       *)
(* sends to somebody who has left (pingpong.c:11-26, primes.c:20-51,       *)
(* fairness.c:14-22, ipc.c:54).                                            *)
NothingLost ==
  /\ program = "primes" => PrimesSoFar
  /\ program = "pingpong" => printed = [i \in 1 .. Len(printed) |-> i - 1]
  /\ program # "primes" => ~monitor

(* Nor do they stop: pingpong passes the ball to its last number and both  *)
(* ends return; primes has a process in every slot before it panics; the   *)
(* receiver of fairness never waits for ever.  Nobody waits for a message  *)
(* that was lost.                                                          *)
IpcPromise ==
  /\ []NothingLost
  /\ <>(program = "pingpong" =>
          Len(printed) = LastBall + 1 /\ \A e \in Envs : env[e].status = "FREE")
  /\ <>(program = "primes" => monitor /\ Len(printed) = NENV - 1)
  /\ []<>(program = "fairness" => usr[1].pc = "received")
=============================================================================
