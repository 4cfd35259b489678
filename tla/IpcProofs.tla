------------------------------ MODULE IpcProofs ------------------------------
(***************************************************************************)
(* ipc_send and ipc_recv implement Rendezvous, in every program of Ipc and *)
(* for any number of environments: types, the inductive invariant, and the *)
(* simulation, one system call or read of struct Env at a time.  And the   *)
(* programs lose nothing: pingpong its ball, primes a number on its way    *)
(* through the chain, which is the sieve, whatever is interleaved.         *)
(***************************************************************************)
EXTENDS Ipc, TLAPS

Locations == {"none", "fork", "forked", "recv", "woken", "value", "received",
              "send", "yield", "sent", "exit", "panic"}
Message == [from : Envs \cup {BadEnv}, value : Nat]
Memory == [pc : Locations, role : {"none", "umain", "child", "sender", "receiver"},
           to : Envs, val : Nat, from : Envs, got : Message,
           id : Envs \cup {BadEnv}, p : Nat]
EnvRecord == [status : {"FREE", "RUNNABLE", "NOT_RUNNABLE"}, recving : BOOLEAN,
              from : Envs, value : Nat]

TypeOK ==
  /\ program \in Programs
  /\ env \in [Envs -> EnvRecord]
  /\ usr \in [Envs -> Memory]
  /\ monitor \in BOOLEAN

(* A slot is free when nobody is in it, and an environment is off the run  *)
(* queue exactly while it receives, at the instruction after its call.     *)
StatusOK ==
  \A e \in Envs :
    /\ env[e].status = "FREE" <=> usr[e].pc = "none"
    /\ env[e].status = "NOT_RUNNABLE" <=> env[e].recving
    /\ env[e].recving => usr[e].pc = "woken"

(* Between the two reads of a message, and after them, it is still the one *)
(* that was delivered.                                                     *)
MessageOK ==
  \A e \in Envs :
    /\ usr[e].pc = "value" => usr[e].from = env[e].from
    /\ usr[e].pc = "received" => usr[e].got.from \in Envs

(* An environment that will send to its child has one.  pingpong forks     *)
(* once, before there is anybody else, and so does not fail to.            *)
Talking == {"recv", "woken", "value", "received", "send", "yield", "sent"}
ChildOK ==
  \A e \in Envs :
    /\ program = "pingpong" /\ usr[e].pc = "fork" =>
         \A d \in Envs \ {e} : usr[d].pc = "none"
    /\ program = "pingpong" /\ usr[e].pc = "forked" => usr[e].id \in Envs
    /\ program = "primes" /\ usr[e].pc \in Talking /\ (usr[e].role = "umain" \/ usr[e].p # 0) =>
         usr[e].id \in Envs

(* The inductive invariant. *)
IInv == TypeOK /\ StatusOK /\ MessageOK /\ ChildOK

-----------------------------------------------------------------------------
LEMMA Ids == /\ Envs \subseteq Nat /\ BadEnv \notin Envs /\ 0 \in Envs /\ 1 \in Envs
             /\ \E d \in Envs : d # 0
  BY IpcAssumption DEF Envs, BadEnv

LEMMA InitIInv == Init => IInv
<1> SUFFICES ASSUME Init PROVE IInv OBVIOUS
<1>1. ASSUME NEW e \in Envs
      PROVE  \/ usr[e] = Unborn
             \/ program = "fairness" /\ usr[e] = [Unborn EXCEPT !.pc = "recv", !.role = "receiver"]
             \/ program = "fairness" /\ usr[e] = [Unborn EXCEPT !.pc = "sent", !.role = "sender", !.to = 1]
             \/ e = 0 /\ usr[e] = [Unborn EXCEPT !.pc = "fork", !.role = "umain"]
  <2>1. usr[e] = Begun(program, e) BY DEF Init
  <2> QED BY <2>1 DEF Begun
<1>2. ASSUME NEW e \in Envs
      PROVE  /\ usr[e] \in Memory
             /\ usr[e].pc \in {"none", "recv", "sent", "fork"}
             /\ program = "pingpong" /\ e # 0 => usr[e].pc = "none"
             /\ program \in {"pingpong", "primes"} => usr[e].pc \in {"none", "fork"}
  <2>1. Unborn \in Memory /\ Unborn.pc = "none"
    BY Ids DEF Unborn, NoMessage, Memory, Locations, Message
  <2>2. CASE usr[e] = Unborn BY <2>1, <2>2
  <2>3. CASE program = "fairness" /\ usr[e] = [Unborn EXCEPT !.pc = "recv", !.role = "receiver"]
    BY <2>1, <2>3 DEF Memory, Locations
  <2>4. CASE program = "fairness" /\ usr[e] = [Unborn EXCEPT !.pc = "sent", !.role = "sender", !.to = 1]
    BY <2>1, <2>4, Ids DEF Memory, Locations
  <2>5. CASE e = 0 /\ usr[e] = [Unborn EXCEPT !.pc = "fork", !.role = "umain"]
    BY <2>1, <2>5 DEF Memory, Locations
  <2> QED BY <1>1, <2>2, <2>3, <2>4, <2>5
<1>3. TypeOK
  BY <1>2, Ids DEF Init, TypeOK, EnvRecord
<1>4. StatusOK
  BY <1>2 DEF Init, StatusOK
<1>5. MessageOK
  BY <1>2 DEF MessageOK
<1>6. ChildOK
  BY <1>2 DEF ChildOK, Talking
<1> QED BY <1>3, <1>4, <1>5, <1>6 DEF IInv

(* What a move, and fork, make of the memory of an environment. *)
LEMMA Updates ==
  ASSUME NEW u \in Memory, NEW l \in Locations
  PROVE  /\ [u EXCEPT !.pc = l] \in Memory /\ [u EXCEPT !.pc = l].pc = l
         /\ [u EXCEPT !.pc = l].id = u.id /\ [u EXCEPT !.pc = l].role = u.role
         /\ [u EXCEPT !.pc = l].p = u.p /\ [u EXCEPT !.pc = l].got = u.got
  BY DEF Memory

LEMMA ForkUpdates ==
  ASSUME NEW u \in Memory, NEW c \in Envs \cup {BadEnv}
  PROVE  /\ Forked(u, c) \in Memory /\ Forked(u, c).pc = "forked"
         /\ Forked(u, c).id = c /\ Forked(u, c).got = u.got
         /\ Child(u) \in Memory /\ Child(u).pc = "recv"
         /\ Child(u).role = "child" /\ Child(u).p = 0 /\ Child(u).got = u.got
<1>1. /\ Child(u).pc = "recv" /\ Child(u).role = "child" /\ Child(u).p = 0
      /\ Child(u).got = u.got
  BY DEF Child, Memory
<1>2. Child(u) \in Memory BY DEF Child, Memory, Locations
<1>3. /\ Forked(u, c).pc = "forked" /\ Forked(u, c).id = c /\ Forked(u, c).got = u.got
  BY DEF Forked, Memory
<1>4. Forked(u, c) \in Memory BY DEF Forked, Memory, Locations
<1> QED BY <1>1, <1>2, <1>3, <1>4

(* A step that moves e to l, for the rest of the memory. *)
LEMMA Moves ==
  ASSUME usr \in [Envs -> Memory], NEW e \in Envs, NEW l \in Locations,
         usr' = [usr EXCEPT ![e].pc = l]
  PROVE  /\ usr' \in [Envs -> Memory] /\ \A d \in Envs \ {e} : usr'[d] = usr[d]
         /\ usr'[e] = [usr[e] EXCEPT !.pc = l] /\ usr'[e].pc = l
         /\ usr'[e].id = usr[e].id /\ usr'[e].role = usr[e].role /\ usr'[e].p = usr[e].p
<1> DEFINE u == [usr[e] EXCEPT !.pc = l]
<1>1. /\ u \in Memory /\ u.pc = l /\ u.id = usr[e].id /\ u.role = usr[e].role
      /\ u.p = usr[e].p
  BY Updates
<1>2. usr' = [usr EXCEPT ![e] = u] OBVIOUS
<1> HIDE DEF u
<1>3. usr'[e] = u /\ usr' \in [Envs -> Memory] /\ \A d \in Envs \ {e} : usr'[d] = usr[d]
  BY <1>1, <1>2
<1> QED BY <1>1, <1>3 DEF u

(* What has to be said of an environment that RUNS, for a step that only   *)
(* moves it and its memory to u.                                           *)
Fits(e, u) ==
  /\ u \in Memory /\ u.pc # "none"
  /\ u.pc = "value" => u.from = env[e].from
  /\ u.pc = "received" => u.got.from \in Envs
  /\ program = "pingpong" => u.pc # "fork" /\ (u.pc = "forked" => u.id \in Envs)
  /\ program = "primes" /\ u.pc \in Talking /\ (u.role = "umain" \/ u.p # 0) => u.id \in Envs

LEMMA LocalStep ==
  ASSUME IInv, NEW e \in Envs, NEW u, Fits(e, u), env[e].status = "RUNNABLE",
         usr' = [usr EXCEPT ![e] = u], env' = env, program' = program,
         monitor' \in BOOLEAN
  PROVE  IInv'
<1>1. TypeOK' BY DEF IInv, TypeOK, Fits
<1>2. usr'[e] = u /\ \A d \in Envs \ {e} : usr'[d] = usr[d] BY DEF IInv, TypeOK
<1>3. usr[e].pc # "none" BY DEF IInv, StatusOK
<1>4. StatusOK' BY <1>2, <1>3 DEF IInv, StatusOK, Fits
<1>5. MessageOK' BY <1>2 DEF IInv, MessageOK, Fits
<1>6. ChildOK' BY <1>2, <1>3 DEF IInv, ChildOK, Fits
<1> QED BY <1>1, <1>4, <1>5, <1>6 DEF IInv

(* A program computes where its environment is neither in ipc_send nor in  *)
(* ipc_recv, and goes on to something else, a send, or a panic.            *)
Idling == {"fork", "forked", "recv", "received", "sent", "exit"}

LEMMA ProgramStep ==
  ASSUME IInv, NEW e \in Envs, Program(e)
  PROVE  /\ env[e].status = "RUNNABLE" /\ usr[e].pc \in Idling
         /\ env' = env /\ program' = program /\ monitor' \in BOOLEAN
         /\ \E u : /\ Fits(e, u) /\ usr' = [usr EXCEPT ![e] = u]
                   /\ u.got = usr[e].got /\ u.pc \in Idling \cup {"send", "panic"}
<1>1. /\ env[e].status = "RUNNABLE" /\ usr[e].pc \in Idling /\ usr[e].pc # "fork"
      /\ env' = env /\ program' = program /\ monitor' \in BOOLEAN
  BY DEF Program, At, Idling, PingpongForked, PingpongReceived, PingpongSent, PrimesForked,
     PrimesReceived, PrimesSent, FairnessReceived, FairnessSent, Panic, Goto, IInv, TypeOK
<1> DEFINE Good(u) == /\ Fits(e, u) /\ usr' = [usr EXCEPT ![e] = u]
                      /\ u.got = usr[e].got /\ u.pc \in Idling \cup {"send", "panic"}
<1>2. /\ usr[e] \in Memory /\ usr \in [Envs -> Memory]
  BY DEF IInv, TypeOK
<1>3. ASSUME program = "pingpong" PROVE \E u : Good(u)
  <2>1. CASE At(e, "forked") /\ PingpongForked(e)
    <3>1. Good(Sends(usr[e], usr[e].id, 0))
      BY <1>2, <1>3, <2>1, Ids DEF At, PingpongForked, Sends, Fits, Memory, Locations, IInv, ChildOK
    <3> QED BY <3>1
  <2>2. CASE At(e, "received") /\ PingpongReceived(e)
    <3>1. usr[e].got.from \in Envs /\ usr[e].got.value + 1 \in Nat
      BY <1>2, <2>2 DEF At, IInv, MessageOK, Memory, Message
    <3>2. CASE usr[e].got.value = LastBall
      <4>1. Good([usr[e] EXCEPT !.pc = "exit"])
        BY <1>2, <1>3, <2>2, <3>2 DEF At, PingpongReceived, Fits, Memory, Locations, Idling
      <4> QED BY <4>1
    <3>3. CASE usr[e].got.value # LastBall
      <4>1. Good(Sends(usr[e], usr[e].got.from, usr[e].got.value + 1))
        BY <1>2, <1>3, <2>2, <3>1, <3>3
           DEF At, PingpongReceived, Sends, Fits, Memory, Locations, Idling
      <4> QED BY <4>1
    <3> QED BY <3>2, <3>3
  <2>3. CASE At(e, "sent") /\ PingpongSent(e)
    <3> DEFINE to == IF usr[e].val = LastBall THEN "exit" ELSE "recv"
    <3>1. Good([usr[e] EXCEPT !.pc = to])
      BY <1>2, <1>3, <2>3 DEF PingpongSent, Goto, Fits, Memory, Locations, Idling
    <3> QED BY <3>1
  <2> QED BY <1>3, <2>1, <2>2, <2>3 DEF Program
<1>4. ASSUME program = "primes" PROVE \E u : Good(u)
  <2>0. usr[e].pc \in Talking /\ (usr[e].role = "umain" \/ usr[e].p # 0) => usr[e].id \in Envs
    BY <1>4 DEF IInv, ChildOK
  <2>1. CASE At(e, "forked") /\ PrimesForked(e)
    <3>1. CASE usr[e].id = BadEnv
      <4>1. Good([usr[e] EXCEPT !.pc = "panic"])
        BY <1>2, <1>4, <2>1, <3>1 DEF PrimesForked, Panic, Fits, Memory, Locations, Talking
      <4> QED BY <4>1
    <3>2. CASE usr[e].id # BadEnv /\ usr[e].role = "umain"
      <4>1. usr[e].id \in Envs BY <1>2, <3>2 DEF Memory
      <4>2. Good(Sends(usr[e], usr[e].id, 2))
        BY <1>2, <1>4, <2>1, <3>2, <4>1
           DEF PrimesForked, Sends, Fits, Memory, Locations, Idling
      <4> QED BY <4>2
    <3>3. CASE usr[e].id # BadEnv /\ usr[e].role # "umain"
      <4>1. usr[e].id \in Envs BY <1>2, <3>3 DEF Memory
      <4>2. Good(Receives(usr[e]))
        BY <1>2, <1>4, <2>1, <3>3, <4>1
           DEF PrimesForked, Receives, Fits, Memory, Locations, Idling
      <4> QED BY <4>2
    <3> QED BY <3>1, <3>2, <3>3
  <2>2. CASE At(e, "received") /\ PrimesReceived(e)
    <3>0. usr[e].got.value \in Nat BY <1>2 DEF Memory, Message
    <3>1. CASE usr[e].p = 0
      <4>1. Good([usr[e] EXCEPT !.p = usr[e].got.value, !.pc = "fork"])
        BY <1>2, <1>4, <2>2, <3>0, <3>1
           DEF PrimesReceived, Fits, Memory, Locations, Idling, Talking
      <4> QED BY <4>1
    <3>2. CASE usr[e].p # 0
      <4>1. usr[e].id \in Envs BY <2>0, <2>2, <3>2 DEF At, Talking
      <4>2. \/ usr' = [usr EXCEPT ![e] = Sends(usr[e], usr[e].id, usr[e].got.value)]
            \/ usr' = [usr EXCEPT ![e] = Receives(usr[e])]
        BY <1>2, <2>2, <3>2 DEF PrimesReceived
      <4>3. Fits(e, Sends(usr[e], usr[e].id, usr[e].got.value)) /\ Fits(e, Receives(usr[e]))
        BY <1>2, <1>4, <3>0, <4>1 DEF Sends, Receives, Fits, Memory, Locations
      <4>4. CASE usr' = [usr EXCEPT ![e] = Sends(usr[e], usr[e].id, usr[e].got.value)]
        <5>1. Good(Sends(usr[e], usr[e].id, usr[e].got.value))
          BY <1>2, <4>3, <4>4 DEF Sends, Memory
        <5> QED BY <5>1
      <4>5. CASE usr' = [usr EXCEPT ![e] = Receives(usr[e])]
        <5>1. Good(Receives(usr[e]))
          BY <1>2, <4>3, <4>5 DEF Receives, Memory, Idling
        <5> QED BY <5>1
      <4> QED BY <4>2, <4>4, <4>5
    <3> QED BY <3>1, <3>2
  <2>3. CASE At(e, "sent") /\ PrimesSent(e)
    <3>1. CASE usr[e].role = "umain"
      <4>1. usr[e].id \in Envs /\ usr[e].val + 1 \in Nat
        BY <1>2, <2>0, <2>3, <3>1 DEF At, Talking, Memory
      <4>2. Good(Sends(usr[e], usr[e].id, usr[e].val + 1))
        BY <1>2, <1>4, <2>3, <3>1, <4>1
           DEF PrimesSent, Sends, Fits, Memory, Locations
      <4> QED BY <4>2
    <3>2. CASE usr[e].role # "umain"
      <4>1. Good(Receives(usr[e]))
        BY <1>2, <1>4, <2>0, <2>3, <3>2
           DEF At, PrimesSent, Receives, Fits, Memory, Locations, Idling, Talking
      <4> QED BY <4>1
    <3> QED BY <3>1, <3>2
  <2> QED BY <1>4, <2>1, <2>2, <2>3 DEF Program
<1>5. ASSUME program = "fairness" PROVE \E u : Good(u)
  <2>1. CASE At(e, "received") /\ FairnessReceived(e)
    <3>1. Good([usr[e] EXCEPT !.pc = "recv"])
      BY <1>2, <1>5, <2>1 DEF FairnessReceived, Goto, Fits, Memory, Locations, Idling
    <3> QED BY <3>1
  <2>2. CASE At(e, "sent") /\ FairnessSent(e)
    <3>1. Good([usr[e] EXCEPT !.pc = "send"])
      BY <1>2, <1>5, <2>2 DEF FairnessSent, Goto, Fits, Memory, Locations
    <3> QED BY <3>1
  <2> QED BY <1>5, <2>1, <2>2 DEF Program
<1> QED BY <1>1, <1>3, <1>4, <1>5 DEF Program

(* Every step keeps the invariant. *)
LEMMA NextIInv == IInv /\ [Next]_vars => IInv'
<1> SUFFICES ASSUME IInv, [Next]_vars PROVE IInv' OBVIOUS
<1>0. /\ usr \in [Envs -> Memory] /\ env \in [Envs -> EnvRecord]
      /\ monitor \in BOOLEAN /\ program \in Programs
  BY DEF IInv, TypeOK
<1>1. ASSUME NEW e \in Envs, SysIpcRecv(e) PROVE IInv'
  <2>1. usr[e].pc = "recv" /\ env[e].status = "RUNNABLE" /\ program' = program
    BY <1>1 DEF SysIpcRecv, At
  <2>2. \A d \in Envs \ {e} : usr'[d] = usr[d] /\ env'[d] = env[d]
    BY <1>0, <1>1 DEF SysIpcRecv, Goto
  <2>3. /\ usr' \in [Envs -> Memory]
        /\ usr'[e].pc = "woken" /\ usr'[e].id = usr[e].id
        /\ usr'[e].role = usr[e].role /\ usr'[e].p = usr[e].p
    <3>1. "woken" \in Locations BY DEF Locations
    <3> QED BY <1>0, <1>1, <3>1, Moves DEF SysIpcRecv, Goto
  <2>4. /\ env'[e] = [env[e] EXCEPT !.recving = TRUE, !.status = "NOT_RUNNABLE"]
        /\ env' \in [Envs -> EnvRecord]
    BY <1>0, <1>1 DEF SysIpcRecv, EnvRecord
  <2>5. env'[e].status = "NOT_RUNNABLE" /\ env'[e].recving = TRUE
    BY <1>0, <2>4 DEF EnvRecord
  <2>6. TypeOK'
    <3>1. UNCHANGED <<program, monitor>> BY <1>1 DEF SysIpcRecv
    <3> QED BY <1>0, <2>3, <2>4, <3>1 DEF TypeOK
  <2>7. StatusOK' BY <2>2, <2>3, <2>5 DEF IInv, StatusOK
  <2>8. MessageOK' BY <2>2, <2>3 DEF IInv, MessageOK
  <2>9. ChildOK' BY <2>1, <2>2, <2>3 DEF IInv, ChildOK, Talking
  <2> QED BY <2>6, <2>7, <2>8, <2>9 DEF IInv
<1>2. ASSUME NEW e \in Envs, SysIpcTrySend(e) PROVE IInv'
  <2>0. usr[e].pc = "send" /\ env[e].status = "RUNNABLE" /\ program' = program
    BY <1>2 DEF SysIpcTrySend, At
  <2>1. CASE Panic(e) /\ UNCHANGED env
    <3> DEFINE u == [usr[e] EXCEPT !.pc = "panic"]
    <3>1. Fits(e, u) /\ usr' = [usr EXCEPT ![e] = u] /\ monitor' \in BOOLEAN
      BY <1>0, <2>1 DEF Panic, Fits, Memory, Locations, Talking
    <3> HIDE DEF u
    <3> QED BY <2>0, <2>1, <3>1, LocalStep
  <2>2. CASE usr' = [usr EXCEPT ![e] = NotReceiving(@)] /\ UNCHANGED <<env, monitor>>
    <3> DEFINE u == [usr[e] EXCEPT !.pc = "yield"]
    <3>1. Fits(e, u) /\ usr' = [usr EXCEPT ![e] = u]
      BY <1>0, <2>0, <2>2 DEF NotReceiving, Fits, Memory, Locations, Talking, IInv, ChildOK
    <3> HIDE DEF u
    <3> QED BY <1>0, <2>0, <2>2, <3>1, LocalStep
  <2>3. ASSUME NEW d \in Envs, d = usr[e].to, env[d].recving, Goto(e, "sent"),
               env' = Delivered(d, e, usr[e].val), UNCHANGED monitor
        PROVE  IInv'
    <3>1. d # e /\ usr[d].pc = "woken" BY <2>0, <2>3 DEF IInv, StatusOK
    <3>2. \A c \in Envs : (c # e => usr'[c] = usr[c]) /\ (c # d => env'[c] = env[c])
      BY <1>0, <2>3 DEF Goto, Delivered
    <3>3. /\ usr' \in [Envs -> Memory]
          /\ usr'[e].pc = "sent" /\ usr'[e].id = usr[e].id
          /\ usr'[e].role = usr[e].role /\ usr'[e].p = usr[e].p
      <4>1. "sent" \in Locations BY DEF Locations
      <4> QED BY <1>0, <2>3, <4>1, Moves DEF Goto
    <3>4. env' \in [Envs -> EnvRecord]
      <4>1. usr[e].val \in Nat BY <1>0 DEF Memory
      <4> QED BY <1>0, <2>3, <4>1 DEF Delivered, EnvRecord
    <3>5. env'[d].status = "RUNNABLE" /\ env'[d].recving = FALSE
      BY <1>0, <2>3 DEF Delivered
    <3>7. TypeOK' BY <1>0, <2>0, <2>3, <3>3, <3>4 DEF TypeOK
    <3>8. StatusOK' BY <2>0, <3>1, <3>2, <3>3, <3>5 DEF IInv, StatusOK
    <3>9. MessageOK' BY <3>1, <3>2, <3>3 DEF IInv, MessageOK
    <3>10. ChildOK' BY <2>0, <3>2, <3>3 DEF IInv, ChildOK, Talking
    <3> QED BY <3>7, <3>8, <3>9, <3>10 DEF IInv
  <2> QED BY <1>2, <2>1, <2>2, <2>3 DEF SysIpcTrySend
<1>3. ASSUME NEW e \in Envs, Exit(e) PROVE IInv'
  <2>1. usr[e].pc = "exit" /\ env[e].status = "RUNNABLE"
    BY <1>3 DEF Exit, At
  <2>2. \A d \in Envs \ {e} : usr'[d] = usr[d] /\ env'[d] = env[d]
    BY <1>0, <1>3 DEF Exit
  <2>3. usr'[e].pc = "none" /\ usr' \in [Envs -> Memory]
    <3>1. "none" \in Locations BY DEF Locations
    <3> QED BY <1>0, <1>3, <3>1, Moves DEF Exit
  <2>4. /\ env'[e].status = "FREE" /\ env'[e].recving = env[e].recving
        /\ env' \in [Envs -> EnvRecord]
    BY <1>0, <1>3 DEF Exit, EnvRecord
  <2>5. UNCHANGED <<program, monitor>> BY <1>3 DEF Exit
  <2>6. TypeOK' BY <1>0, <2>3, <2>4, <2>5 DEF TypeOK
  <2>7. StatusOK' BY <2>1, <2>2, <2>3, <2>4 DEF IInv, StatusOK
  <2>8. MessageOK' BY <2>2, <2>3 DEF IInv, MessageOK
  <2>9. ChildOK' BY <2>1, <2>2, <2>3, <2>5 DEF IInv, ChildOK, Talking
  <2> QED BY <2>6, <2>7, <2>8, <2>9 DEF IInv
<1>4. ASSUME NEW e \in Envs, Fork(e) PROVE IInv'
  <2> DEFINE free == {d \in Envs : env[d].status = "FREE"}
  <2>0. usr[e].pc = "fork" /\ env[e].status = "RUNNABLE" /\ program' = program
        /\ monitor' = monitor
    BY <1>4 DEF Fork, At
  <2>1. CASE free = {} /\ UNCHANGED env /\ usr' = [usr EXCEPT ![e] = Forked(@, BadEnv)]
    <3> DEFINE u == Forked(usr[e], BadEnv)
    <3>1. program # "pingpong"
      <4>1. PICK d \in Envs : d # e BY Ids
      <4>2. usr[d].pc # "none" BY <2>1 DEF IInv, StatusOK
      <4> QED BY <2>0, <4>1, <4>2 DEF IInv, ChildOK
    <3>2. Fits(e, u) /\ usr' = [usr EXCEPT ![e] = u]
      BY <1>0, <2>1, <3>1, ForkUpdates DEF Fits, Talking
    <3> HIDE DEF u
    <3> QED BY <1>0, <2>0, <2>1, <3>2, LocalStep
  <2>2. ASSUME NEW c \in free,
               env' = [env EXCEPT ![c].status = "RUNNABLE", ![c].recving = FALSE],
               usr' = [usr EXCEPT ![e] = Forked(@, c), ![c] = Child(usr[e])]
        PROVE  IInv'
    <3>1. c \in Envs /\ c # e /\ usr[c].pc = "none" /\ BadEnv \notin Envs
      BY <2>0, Ids DEF IInv, StatusOK
    <3>2. /\ \A d \in Envs \ {e, c} : usr'[d] = usr[d]
          /\ \A d \in Envs \ {c} : env'[d] = env[d]
      BY <1>0, <2>2, <3>1
    <3>3. usr'[e] = Forked(usr[e], c) /\ usr'[c] = Child(usr[e])
      BY <1>0, <2>2, <3>1
    <3>4. usr'[e].pc = "forked" /\ usr'[e].id = c
      BY <1>0, <3>1, <3>3, ForkUpdates
    <3>5. usr'[c].pc = "recv" /\ usr'[c].role = "child" /\ usr'[c].p = 0
      BY <1>0, <3>3, ForkUpdates
    <3>6. usr' \in [Envs -> Memory]
      <4>1. Child(usr[e]) \in Memory /\ Forked(usr[e], c) \in Memory
        BY <1>0, <3>1, ForkUpdates
      <4> QED BY <1>0, <2>2, <4>1
    <3>7. env'[c].status = "RUNNABLE" /\ env'[c].recving = FALSE /\ env' \in [Envs -> EnvRecord]
      BY <1>0, <2>2, <3>1 DEF EnvRecord
    <3>8. TypeOK' BY <1>0, <2>0, <3>6, <3>7 DEF TypeOK
    <3>9. StatusOK' BY <2>0, <3>1, <3>2, <3>4, <3>5, <3>7 DEF IInv, StatusOK
    <3>10. MessageOK' BY <3>1, <3>2, <3>4, <3>5 DEF IInv, MessageOK
    <3>11. ChildOK' BY <2>0, <3>1, <3>2, <3>4, <3>5 DEF IInv, ChildOK, Talking
    <3> QED BY <3>8, <3>9, <3>10, <3>11 DEF IInv
  <2> QED BY <1>4, <2>1, <2>2 DEF Fork
<1>5. ASSUME NEW e \in Envs, SysYield(e) PROVE IInv'
  <2> DEFINE u == [usr[e] EXCEPT !.pc = "send"]
  <2>1. /\ usr[e].pc = "yield" /\ env[e].status = "RUNNABLE" /\ env' = env
        /\ program' = program /\ monitor' = monitor
    BY <1>5 DEF SysYield, At
  <2>2. Fits(e, u) /\ usr' = [usr EXCEPT ![e] = u]
    BY <1>0, <1>5, <2>1 DEF SysYield, Goto, Fits, Memory, Locations, Talking, IInv, ChildOK
  <2> HIDE DEF u
  <2> QED BY <1>0, <2>1, <2>2, LocalStep
<1>6. ASSUME NEW e \in Envs, ReadFrom(e) PROVE IInv'
  <2> DEFINE u == [usr[e] EXCEPT !.from = env[e].from, !.pc = "value"]
  <2>1. /\ usr[e].pc = "woken" /\ env[e].status = "RUNNABLE" /\ env' = env
        /\ program' = program /\ monitor' = monitor
    BY <1>6 DEF ReadFrom, At
  <2>2. Fits(e, u) /\ usr' = [usr EXCEPT ![e] = u]
    BY <1>0, <1>6, <2>1 DEF ReadFrom, Fits, Memory, EnvRecord, Locations, Talking, IInv, ChildOK
  <2> HIDE DEF u
  <2> QED BY <1>0, <2>1, <2>2, LocalStep
<1>7. ASSUME NEW e \in Envs, ReadValue(e) PROVE IInv'
  <2> DEFINE u == [usr[e] EXCEPT !.got = [from |-> usr[e].from, value |-> env[e].value],
                                 !.pc = "received"]
  <2>1. /\ usr[e].pc = "value" /\ env[e].status = "RUNNABLE" /\ env' = env
        /\ program' = program /\ monitor' = monitor
    BY <1>7 DEF ReadValue, At
  <2>2. Fits(e, u) /\ usr' = [usr EXCEPT ![e] = u]
    BY <1>0, <1>7, <2>1
       DEF ReadValue, Fits, Memory, Message, EnvRecord, Locations, Talking, IInv, ChildOK
  <2> HIDE DEF u
  <2> QED BY <1>0, <2>1, <2>2, LocalStep
<1>8. ASSUME NEW e \in Envs, Program(e) PROVE IInv'
  BY <1>8, ProgramStep, LocalStep
<1>9. CASE UNCHANGED vars
  BY <1>9 DEF vars, IInv, TypeOK, StatusOK, MessageOK, ChildOK
<1> QED BY <1>1, <1>2, <1>3, <1>4, <1>5, <1>6, <1>7, <1>8, <1>9 DEF Next, Step

(* The inductive invariant holds in every reachable state. *)
THEOREM Invariance == Spec => []IInv
  BY InitIInv, NextIInv, PTL DEF Spec
-----------------------------------------------------------------------------
(* The implementation of Rendezvous *)

St == [e \in Envs |-> Doing(e)]
Gt == [e \in Envs |-> usr[e].got]

(* What Rendezvous sees of an environment, by where it is. *)
Seen(e) ==
  /\ usr[e].pc \in {"none", "panic"} => Doing(e) = R!Gone
  /\ usr[e].pc \in Idling => Doing(e) = R!Idle
  /\ usr[e].pc \in {"send", "yield"} =>
       /\ Doing(e) = [kind |-> "sending", to |-> usr[e].to, value |-> usr[e].val]
       /\ Doing(e) \in R!Sending
  /\ usr[e].pc = "woken" /\ env[e].recving => Doing(e) = R!Waiting
  /\ usr[e].pc \in {"woken", "value"} /\ ~env[e].recving =>
       Doing(e) = R!Has(env[e].from, env[e].value)

LEMMA DoingIs == IInv => \A e \in Envs : Seen(e)
<1> SUFFICES ASSUME IInv, NEW e \in Envs PROVE Seen(e) OBVIOUS
<1>1. usr[e].to \in Envs /\ usr[e].val \in Nat BY DEF IInv, TypeOK, Memory
<1>2. usr[e].pc \in {"none", "panic"} => Doing(e) = R!Gone BY DEF Doing, R!Gone
<1>3. usr[e].pc \in Idling => Doing(e) = R!Idle BY DEF Doing, R!Idle, Idling
<1>4. usr[e].pc \in {"send", "yield"} =>
        /\ Doing(e) = [kind |-> "sending", to |-> usr[e].to, value |-> usr[e].val]
        /\ Doing(e) \in R!Sending
  BY <1>1 DEF Doing, R!Sending
<1>5. usr[e].pc = "woken" /\ env[e].recving => Doing(e) = R!Waiting
  BY DEF Doing, R!Waiting
<1>6. usr[e].pc \in {"woken", "value"} /\ ~env[e].recving =>
        Doing(e) = R!Has(env[e].from, env[e].value)
  BY DEF Doing, R!Has
<1> QED BY <1>2, <1>3, <1>4, <1>5, <1>6 DEF Seen

(* A step of e changes what Rendezvous sees of e only. *)
LEMMA OneMoves ==
  ASSUME NEW e \in Envs, \A d \in Envs \ {e} : usr'[d] = usr[d] /\ env'[d] = env[d]
  PROVE  St' = [St EXCEPT ![e] = Doing(e)'] /\ Gt' = [Gt EXCEPT ![e] = usr'[e].got]
<1>1. \A d \in Envs \ {e} : Doing(d)' = Doing(d)
  BY DEF Doing
<1> HIDE DEF Doing
<1>2. \A d \in Envs : St[d] = Doing(d) /\ St'[d] = Doing(d)' BY DEF St
<1> QED BY <1>1, <1>2 DEF St, Gt

(* What a step of Rendezvous is, seen from Ipc. *)
Simulates == R!Next \/ (St' = St /\ Gt' = Gt)

LEMMA RendezvousSteps ==
  ASSUME NEW e \in Envs, St' = [St EXCEPT ![e] = Doing(e)'],
         Gt' = [Gt EXCEPT ![e] = usr'[e].got]
  PROVE  /\ Doing(e)' = Doing(e) /\ usr'[e].got = usr[e].got => Simulates
         /\ Doing(e) = R!Idle /\ Doing(e)' \in R!Sending /\ usr'[e].got = usr[e].got =>
              Simulates
         /\ Doing(e) = R!Idle /\ Doing(e)' \in {R!Waiting, R!Gone} /\ usr'[e].got = usr[e].got =>
              Simulates
<1>1. St[e] = Doing(e) /\ St'[e] = Doing(e)' /\ Gt[e] = usr[e].got
  BY DEF St, Gt
<1>2. usr'[e].got = usr[e].got => Gt' = Gt BY DEF Gt
<1>3. R!Idle # R!Waiting /\ R!Idle # R!Gone /\ R!Idle \notin R!Sending
  BY DEF R!Idle, R!Waiting, R!Gone, R!Sending
<1>4. Doing(e)' = Doing(e) /\ usr'[e].got = usr[e].got => Simulates
  BY <1>2 DEF Simulates, St
<1>5. Doing(e) = R!Idle /\ Doing(e)' \in R!Sending /\ usr'[e].got = usr[e].got => R!Send(e)
  BY <1>1, <1>2, <1>3 DEF R!Send, R!Become, St, Gt
<1>6. Doing(e) = R!Idle /\ Doing(e)' = R!Waiting /\ usr'[e].got = usr[e].got => R!Wait(e)
  BY <1>1, <1>2, <1>3 DEF R!Wait, R!Become, St, Gt
<1>7. Doing(e) = R!Idle /\ Doing(e)' = R!Gone /\ usr'[e].got = usr[e].got => R!End(e)
  BY <1>1, <1>2, <1>3 DEF R!End, R!Become, St, Gt
<1> QED BY <1>4, <1>5, <1>6, <1>7 DEF Simulates, R!Next
(* Every step of the library and the programs is a step of Rendezvous, or  *)
(* none.                                                                   *)
LEMMA StepImplements == IInv /\ IInv' /\ [Next]_vars => Simulates
<1> SUFFICES ASSUME IInv, IInv', [Next]_vars PROVE Simulates OBVIOUS
<1>0. usr \in [Envs -> Memory] /\ env \in [Envs -> EnvRecord] /\ usr' \in [Envs -> Memory]
  BY DEF IInv, TypeOK
<1>1. \A e \in Envs : Seen(e) BY DoingIs
<1>2. \A e \in Envs : Seen(e)'
  <2>1. (IInv => \A e \in Envs : Seen(e))' BY DoingIs, PTL
  <2> QED BY <2>1
<1>3. ASSUME NEW e \in Envs, SysIpcRecv(e) PROVE Simulates
  <2> DEFINE u == [usr[e] EXCEPT !.pc = "woken"]
  <2>1. usr[e].pc = "recv" BY <1>3 DEF SysIpcRecv, At
  <2>2. /\ \A d \in Envs \ {e} : usr'[d] = usr[d] /\ env'[d] = env[d]
        /\ usr'[e] = u /\ env'[e].recving = TRUE
    BY <1>0, <1>3 DEF SysIpcRecv, Goto, EnvRecord
  <2>3. u.pc = "woken" /\ u.got = usr[e].got BY <1>0, Updates DEF Locations
  <2> HIDE DEF u
  <2>4. Doing(e) = R!Idle BY <1>1, <2>1 DEF Seen, Idling
  <2>5. Doing(e)' = R!Waiting BY <1>2, <2>2, <2>3 DEF Seen
  <2> QED BY <2>2, <2>3, <2>4, <2>5, OneMoves, RendezvousSteps
<1>4. ASSUME NEW e \in Envs, SysIpcTrySend(e) PROVE Simulates
  <2>1. usr[e].pc = "send" /\ usr[e].to \in Envs
    BY <1>0, <1>4 DEF SysIpcTrySend, At, Memory
  <2>2. /\ Doing(e) = [kind |-> "sending", to |-> usr[e].to, value |-> usr[e].val]
        /\ Doing(e) \in R!Sending
    BY <1>1, <2>1 DEF Seen
  <2>3. CASE env[usr[e].to].status = "FREE" /\ Panic(e) /\ UNCHANGED env
    <3> DEFINE u == [usr[e] EXCEPT !.pc = "panic"]
    <3>1. u.pc = "panic" /\ u.got = usr[e].got BY <1>0, Updates DEF Locations
    <3>2. usr'[e] = u /\ \A d \in Envs \ {e} : usr'[d] = usr[d] /\ env'[d] = env[d]
      BY <1>0, <2>3 DEF Panic
    <3> HIDE DEF u
    <3>3. Doing(e)' = R!Gone BY <1>2, <3>1, <3>2 DEF Seen
    <3>4. Doing(usr[e].to) = R!Gone
      <4>1. usr[usr[e].to].pc = "none" BY <2>1, <2>3 DEF IInv, StatusOK
      <4> QED BY <1>1, <2>1, <4>1 DEF Seen
    <3>5. Doing(e) # R!Gone BY <2>2 DEF R!Gone
    <3>6. St' = [St EXCEPT ![e] = R!Gone] /\ Gt' = [Gt EXCEPT ![e] = usr[e].got]
      BY <3>1, <3>2, <3>3, OneMoves
    <3>7. /\ St[e] = Doing(e) /\ St[e].to = usr[e].to /\ St[St[e].to] = R!Gone
          /\ Gt[e] = usr[e].got
      <4>1. St[e] = Doing(e) /\ St[usr[e].to] = R!Gone BY <2>1, <3>4 DEF St
      <4> QED BY <2>2, <4>1 DEF Gt
    <3>8. Gt' = Gt BY <3>6, <3>7 DEF Gt
    <3>9. R!Refused(e)
      BY <2>2, <3>5, <3>6, <3>7, <3>8 DEF R!Refused, R!Become, St, Gt
    <3> QED BY <3>9 DEF Simulates, R!Next
  <2>4. CASE usr' = [usr EXCEPT ![e] = NotReceiving(@)] /\ UNCHANGED env
    <3>1. /\ usr'[e] = [usr[e] EXCEPT !.pc = "yield"]
          /\ \A d \in Envs \ {e} : usr'[d] = usr[d] /\ env'[d] = env[d]
      BY <1>0, <2>4 DEF NotReceiving
    <3>2. usr'[e].pc = "yield" /\ usr'[e].got = usr[e].got
          /\ usr'[e].to = usr[e].to /\ usr'[e].val = usr[e].val
      BY <1>0, <3>1 DEF Memory
    <3>3. Doing(e)' = Doing(e) BY <1>2, <2>2, <3>2 DEF Seen
    <3> QED BY <3>1, <3>2, <3>3, OneMoves, RendezvousSteps
  <2>5. ASSUME NEW d \in Envs, d = usr[e].to, env[d].recving, Goto(e, "sent"),
               env' = Delivered(d, e, usr[e].val)
        PROVE  Simulates
    <3>1. d # e /\ usr[d].pc = "woken" BY <2>1, <2>5 DEF IInv, StatusOK
    <3> DEFINE u == [usr[e] EXCEPT !.pc = "sent"]
    <3>2. u.pc = "sent" /\ u.got = usr[e].got BY <1>0, Updates DEF Locations
    <3>3. /\ usr'[e] = u /\ usr'[d] = usr[d] /\ env'[d].recving = FALSE
          /\ env'[d].from = e /\ env'[d].value = usr[e].val
          /\ \A c \in Envs \ {e, d} : usr'[c] = usr[c] /\ env'[c] = env[c]
      BY <1>0, <2>5, <3>1 DEF Goto, Delivered
    <3> HIDE DEF u
    <3>4. Doing(d) = R!Waiting BY <1>1, <2>5, <3>1 DEF Seen
    <3>5. Doing(d)' = R!Has(e, usr[e].val) BY <1>2, <3>1, <3>3 DEF Seen
    <3>6. Doing(e)' = R!Idle BY <1>2, <3>2, <3>3 DEF Seen, Idling
    <3>7. \A c \in Envs \ {e, d} : Doing(c)' = Doing(c) BY <3>3 DEF Doing
    <3> HIDE DEF Doing
    <3>8. St' = [St EXCEPT ![e] = R!Idle, ![d] = R!Has(e, St[e].value)]
      <4>1. St[e].value = usr[e].val BY <2>2 DEF St
      <4> QED BY <3>1, <3>5, <3>6, <3>7, <4>1 DEF St
    <3>9. Gt' = Gt BY <3>2, <3>3 DEF Gt
    <3>10. R!Deliver(e, d)
      BY <2>2, <2>5, <3>4, <3>8, <3>9 DEF R!Deliver, St, Gt
    <3> QED BY <3>10 DEF Simulates, R!Next
  <2> QED BY <1>4, <2>1, <2>3, <2>4, <2>5 DEF SysIpcTrySend
<1>5. ASSUME NEW e \in Envs, Exit(e) PROVE Simulates
  <2> DEFINE u == [usr[e] EXCEPT !.pc = "none"]
  <2>1. u.pc = "none" /\ u.got = usr[e].got BY <1>0, Updates DEF Locations
  <2>2. /\ usr[e].pc = "exit" /\ usr'[e] = u
        /\ \A d \in Envs \ {e} : usr'[d] = usr[d] /\ env'[d] = env[d]
    BY <1>0, <1>5 DEF Exit, At
  <2> HIDE DEF u
  <2>3. Doing(e) = R!Idle BY <1>1, <2>2 DEF Seen, Idling
  <2>4. Doing(e)' = R!Gone BY <1>2, <2>1, <2>2 DEF Seen
  <2> QED BY <2>1, <2>2, <2>3, <2>4, OneMoves, RendezvousSteps
<1>6. ASSUME NEW e \in Envs, Fork(e) PROVE Simulates
  <2>1. usr[e].pc = "fork" BY <1>6 DEF Fork, At
  <2>2. \A c \in Envs \cup {BadEnv} : Forked(usr[e], c).pc = "forked" /\ Forked(usr[e], c).got = usr[e].got
    BY <1>0, ForkUpdates
  <2>3. Doing(e) = R!Idle BY <1>1, <2>1 DEF Seen, Idling
  <2>4. CASE usr' = [usr EXCEPT ![e] = Forked(@, BadEnv)] /\ UNCHANGED env
    <3>1. /\ usr'[e] = Forked(usr[e], BadEnv)
          /\ \A d \in Envs \ {e} : usr'[d] = usr[d] /\ env'[d] = env[d]
      BY <1>0, <2>4
    <3>2. Doing(e)' = R!Idle BY <1>2, <2>2, <3>1 DEF Seen, Idling
    <3> QED BY <2>2, <2>3, <3>1, <3>2, OneMoves, RendezvousSteps
  <2>5. ASSUME NEW c \in Envs, env[c].status = "FREE",
               env' = [env EXCEPT ![c].status = "RUNNABLE", ![c].recving = FALSE],
               usr' = [usr EXCEPT ![e] = Forked(@, c), ![c] = Child(usr[e])]
        PROVE  Simulates
    <3>1. c # e /\ usr[c].pc = "none" BY <2>1, <2>5 DEF IInv, StatusOK
    <3>2. /\ usr'[e] = Forked(usr[e], c) /\ usr'[c] = Child(usr[e])
          /\ \A d \in Envs \ {e, c} : usr'[d] = usr[d] /\ env'[d] = env[d]
      BY <1>0, <2>5, <3>1
    <3>3. Child(usr[e]).pc = "recv" /\ Child(usr[e]).got = usr[e].got
      BY <1>0, ForkUpdates
    <3>4. Doing(c) = R!Gone /\ Doing(c)' = R!Idle /\ Doing(e)' = R!Idle
      BY <1>1, <1>2, <2>2, <3>1, <3>2, <3>3 DEF Seen, Idling
    <3>5. \A d \in Envs \ {e, c} : Doing(d)' = Doing(d) BY <3>2 DEF Doing
    <3> HIDE DEF Doing
    <3>6. St' = [St EXCEPT ![c] = R!Idle] BY <2>3, <3>1, <3>4, <3>5 DEF St
    <3>7. Gt' = [Gt EXCEPT ![c] = Gt[e]] BY <2>2, <3>1, <3>2, <3>3 DEF Gt
    <3>8. R!Begin(c)
      <4>1. R!Gone # R!Idle BY DEF R!Gone, R!Idle
      <4> QED BY <3>4, <3>6, <3>7, <4>1 DEF R!Begin, R!Become, St, Gt
    <3> QED BY <3>8 DEF Simulates, R!Next
  <2> QED BY <1>6, <2>4, <2>5 DEF Fork
<1>7. ASSUME NEW e \in Envs, SysYield(e) PROVE Simulates
  <2>1. /\ usr[e].pc = "yield" /\ usr'[e] = [usr[e] EXCEPT !.pc = "send"]
        /\ \A d \in Envs \ {e} : usr'[d] = usr[d] /\ env'[d] = env[d]
    BY <1>0, <1>7 DEF SysYield, At, Goto
  <2>2. usr'[e].pc = "send" /\ usr'[e].got = usr[e].got
        /\ usr'[e].to = usr[e].to /\ usr'[e].val = usr[e].val
    BY <1>0, <2>1 DEF Memory
  <2>3. Doing(e)' = Doing(e)
    <3>1. Doing(e) = [kind |-> "sending", to |-> usr[e].to, value |-> usr[e].val]
      BY <1>1, <2>1 DEF Seen
    <3>2. Doing(e)' = [kind |-> "sending", to |-> usr'[e].to, value |-> usr'[e].val]
      BY <1>2, <2>2 DEF Seen
    <3> QED BY <2>2, <3>1, <3>2
  <2> QED BY <2>1, <2>2, <2>3, OneMoves, RendezvousSteps
<1>8. ASSUME NEW e \in Envs, ReadFrom(e) PROVE Simulates
  <2>1. /\ usr[e].pc = "woken" /\ env[e].status = "RUNNABLE"
        /\ usr'[e] = [usr[e] EXCEPT !.from = env[e].from, !.pc = "value"]
        /\ env' = env /\ \A d \in Envs \ {e} : usr'[d] = usr[d] /\ env'[d] = env[d]
    BY <1>0, <1>8 DEF ReadFrom, At
  <2>2. usr'[e].pc = "value" /\ usr'[e].got = usr[e].got BY <1>0, <2>1 DEF Memory
  <2>3. ~env[e].recving BY <2>1 DEF IInv, StatusOK
  <2>4. Doing(e)' = Doing(e) BY <1>1, <1>2, <2>1, <2>2, <2>3 DEF Seen
  <2> QED BY <2>1, <2>2, <2>4, OneMoves, RendezvousSteps
<1>9. ASSUME NEW e \in Envs, ReadValue(e) PROVE Simulates
  <2> DEFINE m == [from |-> env[e].from, value |-> env[e].value]
  <2>1. /\ usr[e].pc = "value" /\ env[e].status = "RUNNABLE"
        /\ usr'[e] = [usr[e] EXCEPT !.got = [from |-> usr[e].from, value |-> env[e].value],
                                    !.pc = "received"]
        /\ \A d \in Envs \ {e} : usr'[d] = usr[d] /\ env'[d] = env[d]
    BY <1>0, <1>9 DEF ReadValue, At
  <2>2. usr[e].from = env[e].from /\ ~env[e].recving BY <2>1 DEF IInv, MessageOK, StatusOK
  <2>3. usr'[e].pc = "received" /\ usr'[e].got = m BY <1>0, <2>1, <2>2 DEF Memory
  <2>4. Doing(e) = R!Has(env[e].from, env[e].value) /\ Doing(e)' = R!Idle
    BY <1>1, <1>2, <2>1, <2>2, <2>3 DEF Seen, Idling
  <2>5. St' = [St EXCEPT ![e] = R!Idle] /\ Gt' = [Gt EXCEPT ![e] = m]
    BY <2>1, <2>3, <2>4, OneMoves
  <2>6. /\ St[e].kind = "has" /\ St[e].from = env[e].from /\ St[e].value = env[e].value
        /\ St[e] # R!Idle
    BY <2>4 DEF St, R!Has, R!Idle
  <2>7. R!Take(e)
    BY <2>5, <2>6 DEF R!Take, R!Become, St, Gt
  <2> QED BY <2>7 DEF Simulates, R!Next
<1>10. ASSUME NEW e \in Envs, Program(e) PROVE Simulates
  <2>1. usr[e].pc \in Idling /\ env' = env BY <1>10, ProgramStep
  <2>2. PICK u : /\ usr' = [usr EXCEPT ![e] = u] /\ u.got = usr[e].got
                 /\ u.pc \in Idling \cup {"send", "panic"}
    BY <1>10, ProgramStep
  <2>3. /\ usr'[e] = u /\ \A d \in Envs \ {e} : usr'[d] = usr[d] /\ env'[d] = env[d]
    BY <1>0, <2>1, <2>2
  <2>4. Doing(e) = R!Idle BY <1>1, <2>1 DEF Seen
  <2>5. CASE u.pc \in Idling
    <3>1. Doing(e)' = R!Idle BY <1>2, <2>3, <2>5 DEF Seen
    <3> QED BY <2>2, <2>3, <2>4, <3>1, OneMoves, RendezvousSteps
  <2>6. CASE u.pc = "send"
    <3>1. Doing(e)' \in R!Sending BY <1>2, <2>3, <2>6 DEF Seen
    <3> QED BY <2>2, <2>3, <2>4, <3>1, OneMoves, RendezvousSteps
  <2>7. CASE u.pc = "panic"
    <3>1. Doing(e)' = R!Gone BY <1>2, <2>3, <2>7 DEF Seen
    <3> QED BY <2>2, <2>3, <2>4, <3>1, OneMoves, RendezvousSteps
  <2> QED BY <2>2, <2>5, <2>6, <2>7
<1>11. CASE UNCHANGED vars
  BY <1>11 DEF vars, Simulates, St, Gt, Doing
<1> QED BY <1>3, <1>4, <1>5, <1>6, <1>7, <1>8, <1>9, <1>10, <1>11 DEF Next, Step

LEMMA InitImplements == Init => R!Init
<1> SUFFICES ASSUME Init PROVE R!Init OBVIOUS
<1>1. IInv BY InitIInv
<1>2. \A e \in Envs : /\ Doing(e) \in {R!Gone, R!Idle}
                      /\ usr[e].got = NoMessage
  <2>1. \A e \in Envs : usr[e].pc \in {"none", "recv", "sent", "fork"} /\ usr[e].got = NoMessage
    BY DEF Init, Begun, Unborn
  <2> QED BY <1>1, <2>1, DoingIs DEF Seen, Idling
<1> HIDE DEF Doing
<1> QED BY <1>2 DEF R!Init

(* ipc_send and ipc_recv are a rendezvous, whatever the number of          *)
(* environments that send to the same one: a send that returns 0 has been  *)
(* received by exactly one ipc_recv, with its sender and its value, though *)
(* the sender retries and the receiver reads struct Env after it has been  *)
(* made RUNNABLE (ipc.c:25-34 and 52-56, syscall.c:363-398).               *)
THEOREM Implementation == Spec => ImplementsRendezvous
<1>1. IInv /\ IInv' /\ [Next]_vars => [R!Next]_<<St, Gt>>
  BY StepImplements DEF Simulates
<1> QED BY <1>1, InitImplements, Invariance, PTL
        DEF Spec, ImplementsRendezvous, R!Spec, St, Gt

-----------------------------------------------------------------------------
(* primes: umain is in slot 0 and the primeproc that was forked n-th in    *)
(* slot n, with the n-th prime, because every environment of the program   *)
(* forks once, the last of them, and nobody ends.                          *)

(* Where an environment has not yet dealt with the number it got last. *)
Busy(e) ==
  \/ usr[e].pc \in {"value", "received", "send", "yield", "panic"}
  \/ usr[e].pc = "woken" /\ ~env[e].recving

(* The numbers up to this one have been dealt with in e, and the last that *)
(* has gone through to the environment e.                                  *)
Done(e) ==
  IF e # 0 THEN env[e].value - (IF Busy(e) THEN 1 ELSE 0)
  ELSE IF usr[e].pc = "sent" THEN usr[e].val
  ELSE IF usr[e].pc \in {"send", "yield"} THEN usr[e].val - 1 ELSE 0
Passed(e) == IF e \in Envs THEN env[e].value ELSE 0

(* No prime of the environments up to e divides n. *)
Sifted(e, n) == \A d \in 1 .. e : usr[d].p # 0 => n % usr[d].p # 0

Born(e) == usr[e].pc # "none"
LastBorn(e) == \A d \in Envs : d > e => ~Born(d)
HasNext(e) == usr[e].id = e + 1 /\ e + 1 \in Envs /\ Born(e + 1)

Chain(e) ==
  /\ usr[e].pc # "exit"
  /\ usr[e].pc \in {"none", "fork"} \/ (e # 0 /\ usr[e].p = 0) => LastBorn(e)
  /\ ~Born(e) => usr[e].p = 0 /\ env[e].value = 0
  /\ e = 0 => /\ usr[e].role = "umain" /\ usr[e].p = 0
              /\ usr[e].pc \in {"fork", "forked", "send", "yield", "sent", "panic"}
  /\ e # 0 /\ Born(e) =>
       /\ usr[e].role = "child"
       /\ \A d \in 1 .. e - 1 : usr[d].p # 0
       /\ usr[e].p = 0 => usr[e].pc \in {"recv", "woken", "value", "received"}
  /\ Born(e) /\ usr[e].pc \notin {"fork", "panic"} /\ (e = 0 \/ usr[e].p # 0) =>
       HasNext(e) \/ (usr[e].id = BadEnv /\ usr[e].pc = "forked")
  /\ usr[e].pc \in {"send", "yield"} => usr[e].to = usr[e].id

(* Of the numbers that e has dealt with, those that no prime up to its own *)
(* divides have gone through, in order; the one it sends is one of them.   *)
Covered(e) == \A n \in 2 .. Done(e) : n <= Passed(e + 1) \/ ~Sifted(e, n)
Numbers(e) ==
  /\ Covered(e)
  /\ usr[e].pc \in {"send", "yield", "sent"} => usr[e].val >= 2
  /\ e # 0 =>
       /\ usr[e].pc \in {"received", "send", "yield"} => usr[e].got.value = env[e].value
       /\ usr[e].pc \in {"send", "yield"} =>
            usr[e].val = env[e].value /\ usr[e].val % usr[e].p # 0
       /\ env[e].value # 0 => env[e].value >= 2 /\ Sifted(e - 1, env[e].value)
       /\ Busy(e) \/ usr[e].p # 0 => env[e].value # 0

ChainOK == \A e \in Envs : Chain(e)
NumbersOK == \A e \in Envs : Numbers(e)
PrintedOK ==
  /\ printed \in Seq(Nat)
  /\ \A i \in DOMAIN printed : i \in Envs /\ printed[i] = usr[i].p
  /\ \A e \in Envs : e # 0 => (usr[e].p # 0 <=> e <= Len(printed))
  /\ PrimesSoFar

Sieving == ChainOK /\ NumbersOK /\ PrintedOK

(* What it means that a division leaves no remainder. *)
LEMMA Divides ==
  ASSUME NEW m \in Nat, NEW d \in Nat, d > 0
  PROVE  m % d = 0 <=> \E k \in Nat : m = d * k
<1>1. m % d = 0 => \E k \in Nat : m = d * k OBVIOUS
<1>2. ASSUME NEW k \in Nat, m = d * k PROVE m % d = 0 BY <1>2
<1> QED BY <1>1, <1>2

(* A divisor of a divisor is a divisor. *)
LEMMA DividesTransitive ==
  ASSUME NEW m \in Nat, NEW d \in Nat, d > 0, NEW e \in Nat, e > 0, m % d = 0, d % e = 0
  PROVE  m % e = 0
<1>1. PICK j \in Nat : m = d * j BY Divides
<1>2. PICK k \in Nat : d = e * k BY Divides
<1>3. m = e * (k * j) /\ k * j \in Nat BY <1>1, <1>2
<1> QED BY <1>3, Divides

(* The slots below a slot. *)
LEMMA Below ==
  \A e \in Envs : /\ e \in Nat /\ e < NENV /\ 1 .. e \subseteq Envs /\ 1 .. e - 1 \subseteq Envs
                  /\ \A d \in Envs : d < e /\ d # 0 => d \in 1 .. e - 1
                  /\ e # 0 => e - 1 \in Envs /\ e >= 1
  BY IpcAssumption DEF Envs

(* A step of an environment that neither forks nor sends nor prints leaves *)
(* the others' part of the sieve alone.                                    *)
LEMMA SieveLocal ==
  ASSUME IInv, Sieving, NEW e \in Envs, NEW u \in Memory,
         usr' = [usr EXCEPT ![e] = u], printed' = printed,
         env' \in [Envs -> EnvRecord],
         \A d \in Envs \ {e} : env'[d] = env[d], env'[e].value = env[e].value,
         u.p = usr[e].p, u.role = usr[e].role, u.id = usr[e].id,
         usr[e].pc \notin {"none", "fork", "panic"},
         u.pc \notin {"none", "fork", "forked", "exit"},
         e = 0 => u.pc \in {"send", "yield", "sent", "panic"},
         e # 0 /\ u.p = 0 => u.pc \in {"recv", "woken", "value", "received"},
         usr[e].id = BadEnv /\ usr[e].pc = "forked" => u.pc = "panic",
         u.pc \in {"send", "yield"} => u.to = u.id,
         Numbers(e)'
  PROVE  Sieving'
<1>1. usr'[e] = u /\ \A d \in Envs \ {e} : usr'[d] = usr[d] BY DEF IInv, TypeOK
<1>2. \A d \in Envs : (Born(d)' <=> Born(d)) /\ usr'[d].p = usr[d].p BY <1>1 DEF Born
<1>3. \A d \in Envs : (LastBorn(d)' <=> LastBorn(d)) BY <1>2 DEF LastBorn
<1>4. \A d \in Envs : 1 .. d - 1 \subseteq Envs /\ 1 .. d \subseteq Envs
  BY Below
<1>5. \A d \in Envs : \A n : (Sifted(d, n)' <=> Sifted(d, n)) /\ (Sifted(d - 1, n)' <=> Sifted(d - 1, n))
  BY <1>2, <1>4 DEF Sifted
<1>6. \A d \in Envs : usr'[d].id = usr[d].id BY <1>1
<1>7. \A d \in Envs : HasNext(d)' <=> HasNext(d) BY <1>2, <1>6 DEF HasNext
<1>8. Chain(e)'
  <2>1. Chain(e) BY DEF Sieving, ChainOK
  <2>2. usr[e].pc # "none" /\ Born(e) BY DEF Born
  <2>3. e = 0 => u.role = "umain" /\ u.p = 0 BY <2>1 DEF Chain
  <2>4. e # 0 => u.role = "child" /\ \A d \in 1 .. e - 1 : usr'[d].p # 0
    BY <1>2, <1>4, <2>1, <2>2 DEF Chain
  <2>5. e # 0 /\ u.p = 0 => LastBorn(e) BY <2>1 DEF Chain
  <2>6. u.pc # "panic" /\ (e = 0 \/ u.p # 0) => HasNext(e)
    BY <2>1, <2>2 DEF Chain
  <2> QED BY <1>1, <1>2, <1>3, <1>7, <2>2, <2>3, <2>4, <2>5, <2>6 DEF Chain
<1>9. ASSUME NEW d \in Envs \ {e} PROVE Chain(d)'
  <2>1. Chain(d) BY DEF Sieving, ChainOK
  <2> QED BY <1>1, <1>2, <1>3, <1>4, <1>7, <2>1 DEF Chain
<1>10. ASSUME NEW d \in Envs \ {e} PROVE Numbers(d)'
  <2>1. Numbers(d) BY DEF Sieving, NumbersOK
  <2>2. usr'[d] = usr[d] /\ env'[d] = env[d] BY <1>1
  <2>3. (Busy(d)' <=> Busy(d)) /\ Done(d)' = Done(d) BY <2>2 DEF Busy, Done
  <2>4. Passed(d + 1)' = Passed(d + 1) BY DEF Passed
  <2>5. Covered(d)' BY <1>5, <2>1, <2>3, <2>4 DEF Covered, Numbers
  <2> QED BY <1>2, <1>5, <2>1, <2>2, <2>3, <2>5 DEF Numbers
<1>11. PrintedOK'
  <2>1. DOMAIN printed' = DOMAIN printed /\ Len(printed') = Len(printed) OBVIOUS
  <2> QED BY <1>2, <2>1 DEF Sieving, PrintedOK, PrimesSoFar
<1> QED BY <1>8, <1>9, <1>10, <1>11 DEF Sieving, ChainOK, NumbersOK

(* The steps that change the memory of one environment alone. *)
LEMMA SieveSteps ==
  ASSUME IInv, Sieving, program = "primes", NEW e \in Envs,
         \/ SysIpcRecv(e) \/ SysYield(e) \/ ReadFrom(e) \/ ReadValue(e)
         \/ At(e, "forked") /\ PrimesForked(e)
         \/ At(e, "received") /\ PrimesReceived(e) /\ usr[e].p # 0
         \/ At(e, "sent") /\ PrimesSent(e)
  PROVE  Sieving'
<1>0. /\ usr \in [Envs -> Memory] /\ env \in [Envs -> EnvRecord] /\ usr[e] \in Memory
      /\ env[e] \in EnvRecord /\ usr[e].got.value \in Nat
      /\ usr[e].p \in Nat /\ usr[e].val \in Nat /\ env[e].value \in Nat /\ usr[e].got \in Message
  BY DEF IInv, TypeOK, Memory, EnvRecord, Message
<1>1. Chain(e) /\ Numbers(e) BY DEF Sieving, ChainOK, NumbersOK
<1>2. \A n : (\A d \in Envs : usr'[d].p = usr[d].p) => (Sifted(e, n)' <=> Sifted(e, n)) /\ (Sifted(e - 1, n)' <=> Sifted(e - 1, n))
  BY Below DEF Sifted
<1>3. e \in Nat /\ e + 1 # e BY IpcAssumption DEF Envs
<1>4. ASSUME NEW u \in Memory, usr' = [usr EXCEPT ![e] = u], u.p = usr[e].p,
             \A d \in Envs \ {e} : env'[d] = env[d], env'[e].value = env[e].value
      PROVE  /\ usr'[e] = u /\ Passed(e + 1)' = Passed(e + 1)
             /\ \A n : (Sifted(e, n)' <=> Sifted(e, n)) /\ (Sifted(e - 1, n)' <=> Sifted(e - 1, n))
  <2>1. usr'[e] = u /\ \A d \in Envs : usr'[d].p = usr[d].p BY <1>0, <1>4
  <2> QED BY <1>2, <1>3, <1>4, <2>1 DEF Passed
<1>5. CASE SysIpcRecv(e)
  <2> DEFINE u == [usr[e] EXCEPT !.pc = "woken"]
  <2>1. /\ u \in Memory /\ u.pc = "woken" /\ u.p = usr[e].p /\ u.id = usr[e].id
        /\ u.role = usr[e].role /\ u.got = usr[e].got
    BY <1>0, Updates DEF Locations
  <2>2. /\ usr[e].pc = "recv" /\ usr' = [usr EXCEPT ![e] = u] /\ printed' = printed
        /\ env' = [env EXCEPT ![e].recving = TRUE, ![e].status = "NOT_RUNNABLE"]
    BY <1>5 DEF SysIpcRecv, At, Goto
  <2>3. /\ env' \in [Envs -> EnvRecord] /\ \A d \in Envs \ {e} : env'[d] = env[d]
        /\ env'[e].value = env[e].value /\ env'[e].recving = TRUE
    BY <1>0, <2>2 DEF EnvRecord
  <2> HIDE DEF u
  <2>4. e # 0 BY <1>1, <2>2 DEF Chain
  <2>5. usr[e].p # 0 => usr[e].id # BadEnv BY <1>1, <2>2, Ids DEF Chain, HasNext, Born
  <2>6. ~Busy(e) /\ ~Busy(e)' /\ Done(e)' = Done(e)
    BY <1>4, <2>1, <2>2, <2>3, <2>4 DEF Busy, Done
  <2>7. Numbers(e)'
    BY <1>1, <1>4, <2>1, <2>2, <2>3, <2>6 DEF Numbers, Covered
  <2> QED BY <1>0, <2>1, <2>2, <2>3, <2>4, <2>7, SieveLocal
<1>6. CASE SysYield(e)
  <2> DEFINE u == [usr[e] EXCEPT !.pc = "send"]
  <2>1. /\ u \in Memory /\ u.pc = "send" /\ u.p = usr[e].p /\ u.id = usr[e].id
        /\ u.role = usr[e].role /\ u.got = usr[e].got /\ u.to = usr[e].to /\ u.val = usr[e].val
    BY <1>0 DEF Locations, Memory
  <2>2. /\ usr[e].pc = "yield" /\ usr' = [usr EXCEPT ![e] = u] /\ printed' = printed
        /\ env' = env
    BY <1>6 DEF SysYield, At, Goto
  <2> HIDE DEF u
  <2>3. e # 0 => usr[e].p # 0 BY <1>1, <2>2 DEF Chain, Born
  <2>4. usr[e].to = usr[e].id BY <1>1, <2>2 DEF Chain
  <2>5. usr'[e] = u BY <1>0, <2>2
  <2>6. Busy(e)' /\ Busy(e) /\ Done(e)' = Done(e)
    BY <2>1, <2>2, <2>5 DEF Busy, Done
  <2>7. Numbers(e)'
    BY <1>1, <1>4, <2>1, <2>2, <2>6 DEF Numbers, Covered, Born
  <2> QED BY <1>0, <2>1, <2>2, <2>3, <2>4, <2>7, SieveLocal
<1>7. CASE ReadFrom(e)
  <2> DEFINE u == [usr[e] EXCEPT !.from = env[e].from, !.pc = "value"]
  <2>1. /\ u \in Memory /\ u.pc = "value" /\ u.p = usr[e].p /\ u.id = usr[e].id
        /\ u.role = usr[e].role
    BY <1>0 DEF Locations, Memory, EnvRecord
  <2>2. /\ usr[e].pc = "woken" /\ usr' = [usr EXCEPT ![e] = u] /\ printed' = printed
        /\ env' = env /\ ~env[e].recving
    BY <1>7 DEF ReadFrom, At, IInv, StatusOK
  <2> HIDE DEF u
  <2>4. e # 0 BY <1>1, <2>2 DEF Chain
  <2>5. usr[e].p # 0 => usr[e].id # BadEnv BY <1>1, <2>2, Ids DEF Chain, HasNext, Born
  <2>6. Busy(e) /\ Busy(e)' /\ Done(e)' = Done(e) /\ usr'[e] = u
    BY <1>4, <2>1, <2>2 DEF Busy, Done
  <2>7. Numbers(e)'
    BY <1>1, <1>4, <2>1, <2>2, <2>6 DEF Numbers, Covered, Born
  <2> QED BY <1>0, <2>1, <2>2, <2>4, <2>7, SieveLocal
<1>8. CASE ReadValue(e)
  <2> DEFINE u == [usr[e] EXCEPT !.got = [from |-> usr[e].from, value |-> env[e].value],
                                 !.pc = "received"]
  <2>1. /\ u \in Memory /\ u.pc = "received" /\ u.p = usr[e].p /\ u.id = usr[e].id
        /\ u.role = usr[e].role /\ u.got.value = env[e].value
    BY <1>0 DEF Locations, Memory, EnvRecord, Message
  <2>2. /\ usr[e].pc = "value" /\ usr' = [usr EXCEPT ![e] = u] /\ printed' = printed
        /\ env' = env
    BY <1>8 DEF ReadValue, At
  <2> HIDE DEF u
  <2>4. e # 0 BY <1>1, <2>2 DEF Chain
  <2>6. Busy(e) /\ Busy(e)' /\ Done(e)' = Done(e) /\ usr'[e] = u
    BY <1>4, <2>1, <2>2 DEF Busy, Done
  <2>7. Numbers(e)'
    BY <1>1, <1>4, <2>1, <2>2, <2>6 DEF Numbers, Covered, Born
  <2> QED BY <1>0, <2>1, <2>2, <2>4, <2>7, SieveLocal
<1>9. CASE At(e, "forked") /\ PrimesForked(e)
  <2>0. usr[e].pc = "forked" /\ env' = env /\ printed' = printed
    BY <1>9 DEF At, PrimesForked
  <2>1. (e = 0 <=> usr[e].role = "umain") /\ (e # 0 => usr[e].p # 0)
    BY <1>1, <2>0 DEF Chain, Born
  <2>2. ~Busy(e) /\ (e = 0 => Done(e) = 0) /\ (e # 0 => Done(e) = env[e].value)
    BY <1>0, <2>0 DEF Busy, Done
  <2>3. CASE usr[e].id = BadEnv
    <3> DEFINE u == [usr[e] EXCEPT !.pc = "panic"]
    <3>1. /\ u \in Memory /\ u.pc = "panic" /\ u.p = usr[e].p /\ u.id = usr[e].id
          /\ u.role = usr[e].role
      BY <1>0, Updates DEF Locations
    <3>2. usr' = [usr EXCEPT ![e] = u] BY <1>9, <2>3 DEF PrimesForked, Panic
    <3> HIDE DEF u
    <3>3. usr'[e] = u BY <1>0, <3>2
    <3>4. Done(e)' \in Int /\ Done(e)' <= Done(e) /\ Done(e) \in Int
      BY <1>0, <2>0, <2>2, <3>1, <3>3 DEF Busy, Done
    <3>5. Covered(e)'
      <4>1. \A n \in 2 .. Done(e)' : n \in 2 .. Done(e) BY <3>4
      <4> QED BY <1>1, <1>4, <2>0, <3>1, <3>2, <4>1 DEF Numbers, Covered
    <3>6. Numbers(e)'
      BY <1>1, <1>4, <2>0, <2>1, <3>1, <3>2, <3>3, <3>5 DEF Numbers
    <3> QED BY <1>0, <2>0, <2>1, <3>1, <3>2, <3>6, SieveLocal
  <2>4. CASE usr[e].id # BadEnv /\ e = 0
    <3> DEFINE u == Sends(usr[e], usr[e].id, 2)
    <3>0. usr[e].id \in Envs BY <1>0, <2>4 DEF Memory
    <3>1. /\ u \in Memory /\ u.pc = "send" /\ u.p = usr[e].p /\ u.id = usr[e].id
          /\ u.role = usr[e].role /\ u.to = u.id /\ u.val = 2
      BY <1>0, <3>0 DEF Sends, Memory, Locations
    <3>2. usr' = [usr EXCEPT ![e] = u] BY <1>9, <2>1, <2>4 DEF PrimesForked
    <3> HIDE DEF u
    <3>3. usr'[e] = u BY <1>0, <3>2
    <3>4. Done(e)' = 1 BY <2>4, <3>1, <3>3 DEF Done
    <3>5. Numbers(e)' BY <2>4, <3>1, <3>3, <3>4 DEF Numbers, Covered
    <3> QED BY <1>0, <2>0, <2>4, <3>1, <3>2, <3>5, SieveLocal
  <2>5. CASE usr[e].id # BadEnv /\ e # 0
    <3> DEFINE u == Receives(usr[e])
    <3>1. /\ u \in Memory /\ u.pc = "recv" /\ u.p = usr[e].p /\ u.id = usr[e].id
          /\ u.role = usr[e].role
      BY <1>0 DEF Receives, Memory, Locations
    <3>2. usr' = [usr EXCEPT ![e] = u] BY <1>9, <2>1, <2>5 DEF PrimesForked
    <3> HIDE DEF u
    <3>3. usr'[e] = u BY <1>0, <3>2
    <3>4. ~Busy(e)' /\ Done(e)' = Done(e)
      BY <1>0, <2>0, <2>2, <2>5, <3>1, <3>3 DEF Busy, Done
    <3>5. Numbers(e)'
      BY <1>1, <1>4, <2>0, <2>1, <2>5, <3>1, <3>2, <3>3, <3>4 DEF Numbers, Covered
    <3> QED BY <1>0, <2>0, <2>1, <2>5, <3>1, <3>2, <3>5, SieveLocal
  <2> QED BY <2>3, <2>4, <2>5
<1>10. CASE At(e, "received") /\ PrimesReceived(e) /\ usr[e].p # 0
  <2> DEFINE i == usr[e].got.value
  <2>0. usr[e].pc = "received" /\ env' = env /\ printed' = printed /\ usr[e].p # 0
    BY <1>10 DEF At, PrimesReceived
  <2>1. e # 0 /\ i = env[e].value /\ Born(e) /\ Busy(e) /\ i >= 2 /\ Sifted(e - 1, i)
    BY <1>0, <1>1, <2>0 DEF Chain, Numbers, Born, Busy
  <2>2. HasNext(e) /\ usr[e].id \in Envs /\ usr[e].id # BadEnv
    BY <1>1, <2>0, <2>1, Ids DEF Chain, HasNext
  <2>3. Done(e) = i - 1 BY <2>1 DEF Done
  <2>4. CASE i % usr[e].p # 0
    <3> DEFINE u == Sends(usr[e], usr[e].id, i)
    <3>1. /\ u \in Memory /\ u.pc = "send" /\ u.p = usr[e].p /\ u.id = usr[e].id
          /\ u.role = usr[e].role /\ u.to = u.id /\ u.val = i /\ u.got = usr[e].got
      BY <1>0, <2>2 DEF Sends, Memory, Locations
    <3>2. usr' = [usr EXCEPT ![e] = u] BY <1>10, <2>4 DEF PrimesReceived
    <3> HIDE DEF u
    <3>3. usr'[e] = u BY <1>0, <3>2
    <3>4. Busy(e)' /\ Done(e)' = Done(e)
      BY <1>0, <2>0, <2>1, <3>1, <3>3 DEF Busy, Done
    <3>5. Numbers(e)'
      BY <1>1, <1>4, <2>0, <2>1, <2>4, <3>1, <3>2, <3>3, <3>4 DEF Numbers, Covered
    <3> QED BY <1>0, <2>0, <2>1, <2>2, <3>1, <3>2, <3>5, SieveLocal
  <2>5. CASE i % usr[e].p = 0
    <3> DEFINE u == Receives(usr[e])
    <3>1. /\ u \in Memory /\ u.pc = "recv" /\ u.p = usr[e].p /\ u.id = usr[e].id
          /\ u.role = usr[e].role
      BY <1>0 DEF Receives, Memory, Locations
    <3>2. usr' = [usr EXCEPT ![e] = u] BY <1>10, <2>5 DEF PrimesReceived
    <3> HIDE DEF u
    <3>3. usr'[e] = u BY <1>0, <3>2
    <3>4. ~Busy(e)' /\ Done(e)' = i
      BY <1>0, <2>0, <2>1, <3>1, <3>3 DEF Busy, Done
    <3>5. ~Sifted(e, i)
      <4>1. e \in 1 .. e BY <2>1, Below
      <4> QED BY <2>0, <2>5, <4>1 DEF Sifted
    <3>6. Covered(e)'
      <4>1. \A n \in 2 .. i : n \in 2 .. i - 1 \/ n = i BY <1>0
      <4>2. \A n \in 2 .. i : n <= Passed(e + 1) \/ ~Sifted(e, n)
        BY <1>1, <2>3, <3>5, <4>1 DEF Numbers, Covered
      <4> QED BY <1>4, <2>0, <3>1, <3>2, <3>4, <4>2 DEF Covered
    <3>7. Numbers(e)'
      BY <1>1, <1>4, <2>0, <2>1, <3>1, <3>2, <3>3, <3>4, <3>6 DEF Numbers
    <3> QED BY <1>0, <2>0, <2>1, <2>2, <3>1, <3>2, <3>7, SieveLocal
  <2> QED BY <2>4, <2>5
<1>11. CASE At(e, "sent") /\ PrimesSent(e)
  <2>0. usr[e].pc = "sent" /\ env' = env /\ printed' = printed
    BY <1>11 DEF At, PrimesSent
  <2>1. (e = 0 <=> usr[e].role = "umain") /\ (e # 0 => usr[e].p # 0) /\ HasNext(e)
    BY <1>1, <2>0 DEF Chain, Born
  <2>2. usr[e].id \in Envs /\ usr[e].id # BadEnv /\ ~Busy(e)
    BY <2>0, <2>1, Ids DEF HasNext, Busy
  <2>3. CASE e = 0
    <3> DEFINE u == Sends(usr[e], usr[e].id, usr[e].val + 1)
    <3>1. /\ u \in Memory /\ u.pc = "send" /\ u.p = usr[e].p /\ u.id = usr[e].id
          /\ u.role = usr[e].role /\ u.to = u.id /\ u.val = usr[e].val + 1
      <4>1. usr[e].val + 1 \in Nat BY <1>0
      <4> QED BY <1>0, <2>2, <4>1 DEF Sends, Memory, Locations
    <3>2. usr' = [usr EXCEPT ![e] = u] BY <1>11, <2>1, <2>3 DEF PrimesSent
    <3> HIDE DEF u
    <3>3. usr'[e] = u BY <1>0, <3>2
    <3>4. Done(e)' = usr[e].val /\ Done(e) = usr[e].val
      BY <1>0, <2>0, <2>3, <3>1, <3>3 DEF Done
    <3>5. u.val >= 2 BY <1>0, <1>1, <2>0, <2>3, <3>1 DEF Numbers
    <3>6. Numbers(e)'
      BY <1>1, <1>4, <2>0, <2>3, <3>1, <3>2, <3>3, <3>4, <3>5 DEF Numbers, Covered
    <3> QED BY <1>0, <2>0, <2>2, <2>3, <3>1, <3>2, <3>6, SieveLocal
  <2>4. CASE e # 0
    <3> DEFINE u == Receives(usr[e])
    <3>1. /\ u \in Memory /\ u.pc = "recv" /\ u.p = usr[e].p /\ u.id = usr[e].id
          /\ u.role = usr[e].role
      BY <1>0 DEF Receives, Memory, Locations
    <3>2. usr' = [usr EXCEPT ![e] = u] BY <1>11, <2>1, <2>4 DEF PrimesSent
    <3> HIDE DEF u
    <3>3. usr'[e] = u BY <1>0, <3>2
    <3>4. ~Busy(e)' /\ Done(e)' = Done(e)
      BY <1>0, <2>0, <2>2, <2>4, <3>1, <3>3 DEF Busy, Done
    <3>5. Numbers(e)'
      BY <1>1, <1>4, <2>0, <2>1, <2>4, <3>1, <3>2, <3>3, <3>4 DEF Numbers, Covered
    <3> QED BY <1>0, <2>0, <2>1, <2>2, <2>4, <3>1, <3>2, <3>5, SieveLocal
  <2> QED BY <2>3, <2>4
<1> QED BY <1>5, <1>6, <1>7, <1>8, <1>9, <1>10, <1>11

(* A number goes through, to an environment that has dealt with the last.  *)
LEMMA SieveSends ==
  ASSUME IInv, Sieving, program = "primes", NEW e \in Envs, SysIpcTrySend(e)
  PROVE  Sieving' /\ monitor' = monitor
<1>0. /\ usr \in [Envs -> Memory] /\ env \in [Envs -> EnvRecord] /\ usr[e] \in Memory
      /\ usr[e].val \in Nat /\ env[e].value \in Nat
  BY DEF IInv, TypeOK, Memory, EnvRecord
<1>1. Chain(e) /\ Numbers(e) BY DEF Sieving, ChainOK, NumbersOK
<1>2. usr[e].pc = "send" /\ printed' = printed BY DEF SysIpcTrySend, At
<1>3. (e # 0 => usr[e].p # 0) /\ Born(e) BY <1>1, <1>2 DEF Chain, Born
<1>4. HasNext(e) /\ usr[e].to = e + 1 BY <1>1, <1>2, <1>3 DEF Chain, HasNext
<1> DEFINE d == e + 1
           v == usr[e].val
<1>5. d \in Envs /\ d # e /\ d # 0 /\ d - 1 = e /\ Born(d) /\ env[d].status # "FREE"
  <2>1. d \in Envs /\ Born(d) BY <1>4 DEF HasNext
  <2>2. d # e /\ d # 0 /\ d - 1 = e BY IpcAssumption DEF Envs
  <2> QED BY <2>1, <2>2 DEF IInv, StatusOK, Born
<1>6. v >= 2 /\ Done(e) = v - 1 /\ (e # 0 => env[e].value = v /\ Busy(e) /\ v % usr[e].p # 0)
  BY <1>0, <1>1, <1>2 DEF Numbers, Done, Busy
<1>7. CASE usr' = [usr EXCEPT ![e] = NotReceiving(@)] /\ UNCHANGED <<env, monitor>>
  <2> DEFINE u == [usr[e] EXCEPT !.pc = "yield"]
  <2>1. /\ u \in Memory /\ u.pc = "yield" /\ u.p = usr[e].p /\ u.id = usr[e].id
        /\ u.role = usr[e].role /\ u.got = usr[e].got /\ u.to = usr[e].to /\ u.val = usr[e].val
    BY <1>0 DEF Locations, Memory
  <2>2. usr' = [usr EXCEPT ![e] = u] /\ env' = env BY <1>7 DEF NotReceiving
  <2> HIDE DEF u
  <2>3. usr'[e] = u /\ \A c \in Envs : usr'[c].p = usr[c].p BY <1>0, <2>1, <2>2
  <2>4. Busy(e)' /\ Busy(e) /\ Done(e)' = Done(e)
    BY <1>2, <2>1, <2>2, <2>3 DEF Busy, Done
  <2>5. \A n : (Sifted(e, n)' <=> Sifted(e, n)) /\ (Sifted(e - 1, n)' <=> Sifted(e - 1, n))
    BY <2>3, Below DEF Sifted
  <2>6. Numbers(e)'
    BY <1>1, <1>2, <2>1, <2>2, <2>3, <2>4, <2>5 DEF Numbers, Covered, Passed
  <2>7. usr[e].to = usr[e].id BY <1>1, <1>2 DEF Chain
  <2> QED BY <1>0, <1>2, <1>3, <1>7, <2>1, <2>2, <2>6, <2>7, SieveLocal
<1>8. CASE env[d].recving /\ env' = Delivered(d, e, v) /\ Goto(e, "sent") /\ UNCHANGED monitor
  <2>1. /\ usr'[e] = [usr[e] EXCEPT !.pc = "sent"] /\ \A c \in Envs \ {e} : usr'[c] = usr[c]
        /\ env'[d] = [status |-> "RUNNABLE", recving |-> FALSE, from |-> e, value |-> v]
        /\ \A c \in Envs \ {d} : env'[c] = env[c]
    BY <1>0, <1>5, <1>8 DEF Goto, Delivered
  <2>2. /\ usr'[e].pc = "sent" /\ usr'[e].p = usr[e].p /\ usr'[e].id = usr[e].id
        /\ usr'[e].role = usr[e].role /\ usr'[e].val = v
        /\ env'[d].value = v /\ env'[d].recving = FALSE
    <3>1. usr'[e].pc = "sent" /\ usr'[e].p = usr[e].p /\ usr'[e].id = usr[e].id
          /\ usr'[e].role = usr[e].role /\ usr'[e].val = v
      BY <1>0, <2>1 DEF Memory
    <3>2. env'[d].value = v /\ env'[d].recving = FALSE BY <2>1
    <3> QED BY <3>1, <3>2
  <2>3. \A c \in Envs : (Born(c)' <=> Born(c)) /\ usr'[c].p = usr[c].p /\ usr'[c].id = usr[c].id
                        /\ usr'[c].role = usr[c].role
    BY <1>3, <2>1, <2>2 DEF Born
  <2>4. \A c \in Envs : (LastBorn(c)' <=> LastBorn(c)) /\ (HasNext(c)' <=> HasNext(c))
    BY <2>3 DEF LastBorn, HasNext
  <2>5. \A c \in Envs : \A n : (Sifted(c, n)' <=> Sifted(c, n)) /\ (Sifted(c - 1, n)' <=> Sifted(c - 1, n))
    BY <2>3, Below DEF Sifted
  <2>6. ChainOK'
    <3>1. ASSUME NEW c \in Envs, c # e PROVE Chain(c)'
      <4>1. Chain(c) BY DEF Sieving, ChainOK
      <4>2. ~Born(c) => env'[c].value = env[c].value BY <1>5, <2>1
      <4>3. usr'[c] = usr[c] BY <2>1, <3>1
      <4> QED BY <2>3, <2>4, <4>1, <4>2, <4>3, Below DEF Chain
    <3>2. Chain(e)'
      BY <1>1, <1>2, <1>3, <1>4, <2>2, <2>3, <2>4, Below DEF Chain
    <3> QED BY <3>1, <3>2 DEF ChainOK
  <2>7. usr[d].pc = "woken" /\ ~Busy(d) /\ Busy(d)' /\ Done(d) = env[d].value /\ Done(d)' = v - 1
    <3>1. usr[d].pc = "woken" BY <1>5, <1>8 DEF IInv, StatusOK
    <3>2. ~Busy(d) /\ Busy(d)' BY <1>5, <1>8, <2>1, <2>2, <3>1 DEF Busy
    <3>3. env[d].value \in Nat BY <1>0, <1>5 DEF EnvRecord
    <3> QED BY <1>5, <2>2, <3>1, <3>2, <3>3 DEF Done
  <2>8. ASSUME NEW c \in Envs, c # e, c # d PROVE Numbers(c)'
    <3>1. Numbers(c) BY DEF Sieving, NumbersOK
    <3>2. usr'[c] = usr[c] /\ env'[c] = env[c] BY <2>1, <2>8
    <3>3. c + 1 # d BY <2>8, IpcAssumption DEF Envs
    <3>4. Passed(c + 1)' = Passed(c + 1) BY <2>1, <3>3 DEF Passed
    <3>5. (Busy(c)' <=> Busy(c)) /\ Done(c)' = Done(c) BY <3>2 DEF Busy, Done
    <3>6. Covered(c)' BY <2>5, <3>1, <3>4, <3>5 DEF Numbers, Covered
    <3> QED BY <2>3, <2>5, <3>1, <3>2, <3>5, <3>6 DEF Numbers
  <2>9. Numbers(e)'
    <3>1. Done(e)' = v /\ ~Busy(e)'
      BY <1>0, <1>5, <1>6, <2>1, <2>2 DEF Done, Busy
    <3>2. Passed(e + 1)' = v BY <1>5, <2>2 DEF Passed
    <3>3. Covered(e)' BY <1>0, <3>1, <3>2 DEF Covered
    <3> QED BY <1>1, <1>5, <1>6, <2>1, <2>2, <2>5, <3>1, <3>3 DEF Numbers
  <2>10. Numbers(d)'
    <3>1. Numbers(d) BY <1>5 DEF Sieving, NumbersOK
    <3>2. Sifted(e, v)
      <4>1. ASSUME NEW c \in 1 .. e, usr[c].p # 0 PROVE v % usr[c].p # 0
        <5>1. e # 0 /\ (c = e \/ c \in 1 .. e - 1) BY IpcAssumption DEF Envs
        <5>2. Sifted(e - 1, v) BY <1>1, <1>6, <5>1 DEF Numbers
        <5> QED BY <1>6, <4>1, <5>1, <5>2 DEF Sifted
      <4> QED BY <4>1 DEF Sifted
    <3>3. ASSUME NEW n \in 2 .. v - 1 PROVE n <= Passed(d + 1) \/ ~Sifted(d, n)
      <4>1. n <= Passed(d) \/ ~Sifted(e, n) BY <1>1, <1>6 DEF Numbers, Covered
      <4>2. CASE n <= env[d].value
        <5>1. n \in 2 .. Done(d) BY <1>0, <1>5, <2>7, <4>2 DEF EnvRecord
        <5> QED BY <3>1, <5>1 DEF Numbers, Covered
      <4>3. CASE ~Sifted(e, n)
        <5>1. \A c \in 1 .. e : c \in 1 .. d BY IpcAssumption DEF Envs
        <5> QED BY <4>3, <5>1 DEF Sifted
      <4> QED BY <1>5, <4>1, <4>2, <4>3 DEF Passed
    <3>4. Passed(d + 1)' = Passed(d + 1)
      <4>1. d + 1 # d BY IpcAssumption DEF Envs
      <4> QED BY <2>1, <4>1 DEF Passed
    <3>5. Covered(d)' BY <1>5, <2>5, <2>7, <3>3, <3>4 DEF Covered
    <3>6. usr'[d].pc = "woken" BY <1>5, <2>1, <2>7
    <3> QED BY <1>5, <1>6, <2>2, <2>5, <3>2, <3>5, <3>6 DEF Numbers
  <2>11. PrintedOK'
    BY <1>2, <2>3 DEF Sieving, PrintedOK, PrimesSoFar
  <2>12. NumbersOK' BY <2>8, <2>9, <2>10 DEF NumbersOK
  <2> QED BY <1>8, <2>6, <2>11, <2>12 DEF Sieving
<1> QED BY <1>4, <1>5, <1>7, <1>8 DEF SysIpcTrySend

(* The last environment forks the next, in the next slot. *)
LEMMA SieveForks ==
  ASSUME IInv, Sieving, program = "primes", NEW e \in Envs, Fork(e)
  PROVE  Sieving' /\ monitor' = monitor
<1>0. usr \in [Envs -> Memory] /\ env \in [Envs -> EnvRecord] /\ usr[e] \in Memory
  BY DEF IInv, TypeOK
<1>1. Chain(e) /\ Numbers(e) BY DEF Sieving, ChainOK, NumbersOK
<1>2. usr[e].pc = "fork" /\ printed' = printed /\ monitor' = monitor BY DEF Fork, At
<1>3. LastBorn(e) /\ Born(e) /\ (e # 0 => usr[e].p # 0)
  BY <1>1, <1>2 DEF Chain, Born
<1>4. \A d \in Envs : Born(d) <=> env[d].status # "FREE" BY DEF IInv, StatusOK, Born
<1>5. \A d \in Envs : d <= e => Born(d)
  <2> SUFFICES ASSUME NEW d \in Envs, d <= e, ~Born(d) PROVE FALSE OBVIOUS
  <2>1. LastBorn(d) BY DEF Sieving, ChainOK, Chain, Born
  <2>2. d # e => d < e BY IpcAssumption DEF Envs
  <2> QED BY <1>3, <2>1, <2>2 DEF LastBorn
<1>6. CASE usr' = [usr EXCEPT ![e] = Forked(@, BadEnv)] /\ UNCHANGED env /\ \A d \in Envs : Born(d)
  <2>1. /\ usr'[e] = Forked(usr[e], BadEnv) /\ \A d \in Envs \ {e} : usr'[d] = usr[d]
        /\ env' = env
    BY <1>0, <1>6
  <2>2. /\ usr'[e].pc = "forked" /\ usr'[e].p = usr[e].p /\ usr'[e].id = BadEnv
        /\ usr'[e].role = usr[e].role /\ usr'[e].got = usr[e].got
    BY <1>0, <2>1 DEF Forked, Memory
  <2>3. \A c \in Envs : (Born(c)' <=> Born(c)) /\ usr'[c].p = usr[c].p
    BY <1>3, <2>1, <2>2 DEF Born
  <2>4. \A c \in Envs : LastBorn(c)' <=> LastBorn(c) BY <2>3 DEF LastBorn
  <2>5. \A c \in Envs : \A n : (Sifted(c, n)' <=> Sifted(c, n)) /\ (Sifted(c - 1, n)' <=> Sifted(c - 1, n))
    BY <2>3, Below DEF Sifted
  <2>6. ASSUME NEW c \in Envs, c # e PROVE Chain(c)' /\ Numbers(c)'
    <3>1. Chain(c) /\ Numbers(c) BY DEF Sieving, ChainOK, NumbersOK
    <3>2. usr'[c] = usr[c] /\ env'[c] = env[c] BY <2>1, <2>6
    <3>3. HasNext(c)' <=> HasNext(c) BY <2>3, <3>2 DEF HasNext
    <3>4. Chain(c)' BY <2>3, <2>4, <3>1, <3>2, <3>3, Below DEF Chain
    <3>5. (Busy(c)' <=> Busy(c)) /\ Done(c)' = Done(c) /\ Passed(c + 1)' = Passed(c + 1)
      BY <2>1, <3>2 DEF Busy, Done, Passed
    <3>6. Numbers(c)' BY <2>3, <2>5, <3>1, <3>2, <3>5 DEF Numbers, Covered
    <3> QED BY <3>4, <3>6
  <2>7. Chain(e)' BY <1>1, <1>3, <2>1, <2>2, <2>3, <2>4, Below DEF Chain
  <2>8. Numbers(e)'
    <3>1. ~Busy(e) /\ ~Busy(e)' /\ Done(e)' = Done(e) /\ Passed(e + 1)' = Passed(e + 1)
      BY <1>2, <2>1, <2>2 DEF Busy, Done, Passed
    <3> QED BY <1>1, <2>1, <2>2, <2>3, <2>5, <3>1 DEF Numbers, Covered
  <2>9. PrintedOK' BY <1>2, <2>3 DEF Sieving, PrintedOK, PrimesSoFar
  <2> QED BY <1>2, <2>6, <2>7, <2>8, <2>9 DEF Sieving, ChainOK, NumbersOK
<1>7. ASSUME NEW c \in Envs, ~Born(c), \A f \in Envs : ~Born(f) => c <= f,
             env' = [env EXCEPT ![c].status = "RUNNABLE", ![c].recving = FALSE],
             usr' = [usr EXCEPT ![e] = Forked(@, c), ![c] = Child(usr[e])]
      PROVE  Sieving'
  <2>0. c = e + 1 /\ c # e /\ c # 0 /\ e + 1 \in Envs
    <3>1. e + 1 \in Envs /\ e < c BY <1>5, <1>7, IpcAssumption DEF Envs
    <3>2. ~Born(e + 1) BY <1>3, <3>1, IpcAssumption DEF LastBorn, Envs
    <3>3. c <= e + 1 BY <1>7, <3>1, <3>2
    <3> QED BY <3>1, <3>3, IpcAssumption DEF Envs
  <2>1. /\ usr'[e] = Forked(usr[e], c) /\ usr'[c] = Child(usr[e])
        /\ \A d \in Envs \ {e, c} : usr'[d] = usr[d]
        /\ \A d \in Envs \ {c} : env'[d] = env[d]
    BY <1>0, <1>7, <2>0
  <2>2. /\ usr'[e].pc = "forked" /\ usr'[e].p = usr[e].p /\ usr'[e].id = c
        /\ usr'[e].role = usr[e].role
        /\ usr'[c].pc = "recv" /\ usr'[c].p = 0 /\ usr'[c].role = "child"
    <3>1. usr'[c].pc = "recv" /\ usr'[c].p = 0 /\ usr'[c].role = "child"
      BY <1>0, <2>1, ForkUpdates
    <3> QED BY <1>0, <2>1, <3>1 DEF Forked, Memory
  <2>3. Chain(c) /\ usr[c].p = 0 /\ env[c].value = 0 /\ LastBorn(c)
    BY <1>7 DEF Sieving, ChainOK, Chain, Born
  <2>4. env'[c].value = 0 BY <1>0, <1>7, <2>3 DEF EnvRecord
  <2>5. /\ \A d \in Envs : usr'[d].p = usr[d].p /\ env'[d].value = env[d].value
        /\ \A d \in Envs \ {c} : Born(d)' <=> Born(d)
        /\ Born(c)'
    BY <1>3, <2>1, <2>2, <2>3, <2>4 DEF Born
  <2>6. \A d \in Envs : \A n : (Sifted(d, n)' <=> Sifted(d, n)) /\ (Sifted(d - 1, n)' <=> Sifted(d - 1, n))
    BY <2>5, Below DEF Sifted
  <2>7. LastBorn(c)'
    <3>1. \A d \in Envs : d > c => d # c BY IpcAssumption DEF Envs
    <3> QED BY <2>3, <2>5, <3>1 DEF LastBorn
  <2>8. ASSUME NEW d \in Envs, d # e, d # c PROVE Chain(d)'
    <3>1. Chain(d) BY DEF Sieving, ChainOK
    <3>2. usr'[d] = usr[d] /\ env'[d] = env[d] BY <2>1, <2>8
    <3>3. HasNext(d) => HasNext(d)' BY <2>5, <3>2 DEF HasNext
    <3>4. LastBorn(d) => LastBorn(d)'
      <4>1. d > c \/ d < e BY <2>0, <2>8, IpcAssumption DEF Envs
      <4>2. CASE d > c
        <5>1. \A f \in Envs : f > d => f # c BY <4>2, IpcAssumption DEF Envs
        <5> QED BY <2>5, <5>1 DEF LastBorn
      <4>3. CASE d < e BY <1>3, <4>3 DEF LastBorn
      <4> QED BY <4>1, <4>2, <4>3
    <3> QED BY <2>5, <2>8, <3>1, <3>2, <3>3, <3>4, Below DEF Chain
  <2>9. Chain(e)'
    <3>1. HasNext(e)' BY <2>0, <2>2, <2>5 DEF HasNext
    <3> QED BY <1>1, <1>3, <2>2, <2>5, <3>1, Below DEF Chain
  <2>10. Chain(c)'
    <3>1. ASSUME NEW d \in 1 .. c - 1 PROVE usr'[d].p # 0
      <4>1. d \in Envs /\ e # 0 /\ (d = e \/ d \in 1 .. e - 1) BY <2>0, IpcAssumption DEF Envs
      <4>2. usr[d].p # 0 BY <1>1, <1>3, <4>1 DEF Chain
      <4> QED BY <2>5, <4>1, <4>2
    <3> QED BY <2>0, <2>2, <2>5, <2>7, <3>1 DEF Chain
  <2>11. ASSUME NEW d \in Envs, d # e, d # c PROVE Numbers(d)'
    <3>1. Numbers(d) BY DEF Sieving, NumbersOK
    <3>2. usr'[d] = usr[d] /\ env'[d] = env[d] BY <2>1, <2>11
    <3>3. (Busy(d)' <=> Busy(d)) /\ Done(d)' = Done(d) /\ Passed(d + 1)' = Passed(d + 1)
      BY <2>5, <3>2 DEF Busy, Done, Passed
    <3> QED BY <2>5, <2>6, <3>1, <3>2, <3>3 DEF Numbers, Covered
  <2>12. Numbers(e)'
    <3>1. ~Busy(e) /\ ~Busy(e)' /\ Done(e)' = Done(e) /\ Passed(e + 1)' = Passed(e + 1)
      BY <1>2, <2>2, <2>5 DEF Busy, Done, Passed
    <3> QED BY <1>1, <2>2, <2>5, <2>6, <3>1 DEF Numbers, Covered
  <2>13. Numbers(c)'
    <3>1. ~Busy(c)' BY <2>2 DEF Busy
    <3>2. Done(c)' = env'[c].value - 0 BY <2>0, <3>1 DEF Done
    <3>3. Done(c)' = 0 BY <2>4, <3>2
    <3> QED BY <2>2, <2>4, <3>1, <3>3 DEF Numbers, Covered
  <2>14. PrintedOK' BY <1>2, <2>5 DEF Sieving, PrintedOK, PrimesSoFar
  <2> QED BY <2>8, <2>9, <2>10, <2>11, <2>12, <2>13, <2>14 DEF Sieving, ChainOK, NumbersOK
<1> QED BY <1>2, <1>4, <1>6, <1>7 DEF Fork

(* The first number that comes to an environment is the next prime. *)
LEMMA SievePrints ==
  ASSUME IInv, Sieving, program = "primes", NEW e \in Envs,
         At(e, "received"), PrimesReceived(e), usr[e].p = 0
  PROVE  Sieving'
<1> DEFINE i == usr[e].got.value
           k == Len(printed)
<1>0. /\ usr \in [Envs -> Memory] /\ env \in [Envs -> EnvRecord] /\ usr[e] \in Memory
      /\ i \in Nat /\ \A d \in Envs : usr[d].p \in Nat
  BY DEF IInv, TypeOK, Memory, Message
<1>1. Chain(e) /\ Numbers(e) BY DEF Sieving, ChainOK, NumbersOK
<1>2. /\ usr[e].pc = "received" /\ printed' = Append(printed, i) /\ env' = env
      /\ usr' = [usr EXCEPT ![e].p = i, ![e].pc = "fork"]
  BY DEF At, PrimesReceived
<1>3. /\ e # 0 /\ LastBorn(e) /\ Born(e) /\ Busy(e) /\ i = env[e].value /\ i >= 2
      /\ Done(e) = i - 1 /\ Sifted(e - 1, i) /\ \A d \in 1 .. e - 1 : usr[d].p # 0
  BY <1>0, <1>1, <1>2 DEF Chain, Numbers, Born, Busy, Done
<1>4. /\ usr'[e].p = i /\ usr'[e].pc = "fork" /\ usr'[e].role = usr[e].role
      /\ usr'[e].id = usr[e].id /\ usr'[e].got = usr[e].got
      /\ \A d \in Envs \ {e} : usr'[d] = usr[d]
  BY <1>0, <1>2 DEF Memory
<1>5. \A d \in Envs : (Born(d)' <=> Born(d)) /\ (d # e => usr'[d].p = usr[d].p) /\ usr'[d].id = usr[d].id
  BY <1>3, <1>4 DEF Born
<1>6. \A d \in Envs : (LastBorn(d)' <=> LastBorn(d)) /\ (HasNext(d)' <=> HasNext(d))
  BY <1>5 DEF LastBorn, HasNext
<1>7. ASSUME NEW d \in Envs, NEW n PROVE Sifted(d, n)' => Sifted(d, n)
  BY <1>0, <1>5, <1>7, Below DEF Sifted
<1>8. ASSUME NEW d \in Envs, d <= e, NEW n PROVE Sifted(d - 1, n)' <=> Sifted(d - 1, n)
  <2>1. ASSUME NEW f \in 1 .. d - 1 PROVE f \in Envs /\ f # e
    BY <1>8, <2>1, IpcAssumption DEF Envs
  <2> QED BY <1>5, <2>1 DEF Sifted
<1>9. ASSUME NEW d \in Envs, d # e PROVE Chain(d)'
  <2>1. Chain(d) BY DEF Sieving, ChainOK
  <2>2. usr'[d] = usr[d] /\ env'[d] = env[d] BY <1>2, <1>4, <1>9
  <2>3. Born(d) => \A f \in Envs : f < d => f # e
    BY <1>3, IpcAssumption DEF LastBorn, Envs
  <2>4. (\A f \in 1 .. d - 1 : usr[f].p # 0) => \A f \in 1 .. d - 1 : usr'[f].p # 0
    BY <1>3, <1>4, <1>5, Below
  <2> QED BY <1>5, <1>6, <2>1, <2>2, <2>4 DEF Chain
<1>10. Chain(e)'
  <2>1. \A d \in 1 .. e - 1 : d \in Envs /\ d # e BY IpcAssumption DEF Envs
  <2> QED BY <1>1, <1>3, <1>4, <1>5, <1>6, <2>1 DEF Chain
<1>11. ASSUME NEW d \in Envs, d # e PROVE Numbers(d)'
  <2>1. Numbers(d) /\ Chain(d) BY DEF Sieving, NumbersOK, ChainOK
  <2>2. usr'[d] = usr[d] /\ env'[d] = env[d] BY <1>2, <1>4, <1>11
  <2>3. (Busy(d)' <=> Busy(d)) /\ Done(d)' = Done(d) /\ Passed(d + 1)' = Passed(d + 1)
    <3>1. Busy(d)' <=> Busy(d) BY <2>2 DEF Busy
    <3>2. Done(d)' = Done(d) BY <2>2, <3>1 DEF Done
    <3>3. Passed(d + 1)' = Passed(d + 1) BY <1>2 DEF Passed
    <3> QED BY <3>1, <3>2, <3>3
  <2>4. Covered(d)' BY <1>7, <2>1, <2>3 DEF Numbers, Covered
  <2>5. env[d].value # 0 => d <= e
    <3>1. env[d].value # 0 => Born(d) BY <2>1 DEF Chain
    <3>2. d > e \/ d <= e BY IpcAssumption DEF Envs
    <3> QED BY <1>3, <3>1, <3>2 DEF LastBorn
  <2>6. env[d].value # 0 /\ d # 0 => Sifted(d - 1, env[d].value)' BY <1>8, <2>1, <2>2, <2>5 DEF Numbers
  <2> QED BY <2>1, <2>2, <2>3, <2>4, <2>6 DEF Numbers
<1>12. Numbers(e)'
  <2>1. ~Busy(e)' /\ Done(e)' = i /\ Passed(e + 1)' = Passed(e + 1)
    BY <1>2, <1>3, <1>4, <1>0 DEF Busy, Done, Passed
  <2>2. ~Sifted(e, i)'
    <3>1. i % i = 0
      <4>1. i = i * 1 /\ i > 0 BY <1>0, <1>3
      <4> QED BY <1>0, <4>1, Divides
    <3>2. e \in 1 .. e BY <1>3, Below
    <3> QED BY <1>3, <1>4, <3>1, <3>2 DEF Sifted
  <2>3. Covered(e)'
    <3>1. \A n \in 2 .. i : n \in 2 .. i - 1 \/ n = i BY <1>0
    <3>2. \A n \in 2 .. i - 1 : n <= Passed(e + 1) \/ ~Sifted(e, n)
      BY <1>1, <1>3 DEF Numbers, Covered
    <3> QED BY <1>4, <1>7, <2>1, <2>2, <3>1, <3>2 DEF Covered
  <2>4. Sifted(e - 1, i)'
    <3>1. e <= e BY Below
    <3> QED BY <1>3, <1>4, <1>8, <3>1
  <2> QED BY <1>2, <1>3, <1>4, <2>1, <2>3, <2>4 DEF Numbers
<1>13. k \in Nat /\ k = e - 1 /\ printed \in Seq(Nat)
  <2>1. k \in Nat /\ printed \in Seq(Nat) BY DEF Sieving, PrintedOK
  <2>2. e > k BY <1>3, <2>1, Below DEF Sieving, PrintedOK
  <2>3. e - 1 # 0 => e - 1 <= k
    <3>1. e - 1 \in Envs /\ (e - 1 # 0 => e - 1 \in 1 .. e - 1) BY <1>3, IpcAssumption DEF Envs
    <3> QED BY <1>3, <3>1 DEF Sieving, PrintedOK
  <2> QED BY <1>3, <2>1, <2>2, <2>3, Below
<1>14. /\ printed' \in Seq(Nat) /\ Len(printed') = k + 1 /\ printed'[k + 1] = i
       /\ \A j \in 1 .. k : printed'[j] = printed[j]
       /\ DOMAIN printed' = 1 .. k + 1 /\ DOMAIN printed = 1 .. k
  BY <1>0, <1>2, <1>13
<1>15. \A j \in 1 .. k : j \in Envs /\ j # e /\ printed[j] = usr[j].p /\ IsPrime(printed[j]) /\ printed[j] \in Nat
  BY <1>0, <1>13, <1>14, Below DEF Sieving, PrintedOK, PrimesSoFar
<1>16. ASSUME NEW n \in 2 .. i - 1 PROVE \E j \in 1 .. k : n % printed[j] = 0
  <2>1. Passed(e + 1) = 0
    <3>1. CASE e + 1 \in Envs
      <4>1. ~Born(e + 1) /\ Chain(e + 1) BY <1>3, <3>1, Below DEF LastBorn, Sieving, ChainOK
      <4> QED BY <3>1, <4>1 DEF Chain, Passed
    <3> QED BY <3>1 DEF Passed
  <2>2. ~Sifted(e, n) BY <1>1, <1>3, <2>1 DEF Numbers, Covered
  <2>3. PICK j \in 1 .. e : usr[j].p # 0 /\ n % usr[j].p = 0 BY <2>2 DEF Sifted
  <2>4. j \in 1 .. k BY <1>13, <2>3, Below
  <2> QED BY <1>15, <2>3, <2>4
<1>17. IsPrime(i)
  <2> SUFFICES ASSUME NEW n \in 2 .. i - 1, i % n = 0 PROVE FALSE BY <1>0, <1>3 DEF IsPrime
  <2>1. PICK j \in 1 .. k : n % printed[j] = 0 BY <1>16
  <2>2. printed[j] \in Nat /\ printed[j] > 0 BY <1>15, <2>1 DEF IsPrime
  <2>3. i % printed[j] = 0
    <3>1. n \in Nat /\ n > 0 BY <1>0
    <3> QED BY <1>0, <2>1, <2>2, <3>1, DividesTransitive
  <2>4. i % printed[j] # 0 BY <1>3, <1>13, <1>15, <2>1, <2>2 DEF Sifted
  <2> QED BY <2>3, <2>4
<1>18. ASSUME NEW n \in 2 .. i, IsPrime(n) PROVE \E j \in 1 .. k + 1 : printed'[j] = n
  <2>1. CASE n = i BY <1>13, <1>14, <2>1
  <2>2. CASE n # i
    <3>1. PICK j \in 1 .. k : n % printed[j] = 0 BY <1>0, <1>16, <2>2
    <3>2. printed[j] \in Nat /\ printed[j] > 1 BY <1>15, <3>1 DEF IsPrime
    <3>3. printed[j] <= n BY <3>1, <3>2
    <3>4. printed[j] \notin 2 .. n - 1 BY <1>18, <3>1 DEF IsPrime
    <3>5. printed[j] = n BY <3>2, <3>3, <3>4
    <3> QED BY <1>13, <1>14, <3>5
  <2> QED BY <2>1, <2>2
<1>19. PrintedOK'
  <2>1. \A j \in 1 .. k + 1 : j \in 1 .. k \/ (j = k + 1 /\ j = e) BY <1>13, Below
  <2>2. ASSUME NEW j \in 1 .. k + 1 PROVE j \in Envs /\ printed'[j] = usr'[j].p /\ IsPrime(printed'[j])
    BY <1>4, <1>14, <1>15, <1>17, <2>1
  <2>3. ASSUME NEW d \in Envs, d # 0 PROVE usr'[d].p # 0 <=> d <= k + 1
    <3>1. CASE d = e BY <1>3, <1>4, <1>13, <3>1, Below
    <3>2. CASE d # e
      <4>1. usr[d].p # 0 <=> d <= k BY <2>3 DEF Sieving, PrintedOK
      <4>2. d <= k <=> d <= k + 1 BY <1>13, <3>2, IpcAssumption DEF Envs
      <4> QED BY <1>5, <3>2, <4>1, <4>2
    <3> QED BY <3>1, <3>2
  <2>4. PrimesSoFar'
    <3>1. \A j \in DOMAIN printed' : IsPrime(printed'[j]) BY <1>14, <2>2
    <3>2. \A n \in 2 .. printed'[Len(printed')] : IsPrime(n) => \E j \in DOMAIN printed' : printed'[j] = n
      BY <1>14, <1>18
    <3> QED BY <3>1, <3>2 DEF PrimesSoFar
  <2> QED BY <1>14, <2>2, <2>3, <2>4 DEF PrintedOK
<1> QED BY <1>9, <1>10, <1>11, <1>12, <1>19 DEF Sieving, ChainOK, NumbersOK

(* Before the first fork there is umain, and no number. *)
LEMMA SieveInit == Init /\ program = "primes" => Sieving
<1> SUFFICES ASSUME Init, program = "primes" PROVE Sieving OBVIOUS
<1>1. /\ usr[0] = [Unborn EXCEPT !.pc = "fork", !.role = "umain"]
      /\ \A e \in Envs \ {0} : usr[e] = Unborn
      /\ \A e \in Envs : env[e].value = 0 /\ env[e].recving = FALSE
  BY Ids DEF Init, Begun
<1>2. /\ usr[0].pc = "fork" /\ usr[0].role = "umain" /\ usr[0].p = 0
      /\ \A e \in Envs \ {0} : usr[e].pc = "none" /\ usr[e].p = 0
  BY <1>1 DEF Unborn
<1>3. ASSUME NEW e \in Envs PROVE Chain(e)
  <2>1. \A d \in Envs : d > e => d # 0 BY IpcAssumption DEF Envs
  <2>2. LastBorn(e) BY <1>2, <2>1 DEF LastBorn, Born
  <2> QED BY <1>1, <1>2, <2>2 DEF Chain, Born
<1>4. ASSUME NEW e \in Envs PROVE Numbers(e)
  <2>1. ~Busy(e) BY <1>2 DEF Busy
  <2>2. e # 0 => Done(e) = env[e].value - 0 BY <2>1 DEF Done
  <2>3. e = 0 => Done(e) = 0 BY <1>2 DEF Done
  <2>4. Done(e) = 0 BY <1>1, <2>2, <2>3
  <2>5. Covered(e) BY <2>4 DEF Covered
  <2>6. usr[e].pc \in {"fork", "none"} /\ env[e].value = 0 /\ usr[e].p = 0 BY <1>1, <1>2
  <2> QED BY <2>1, <2>5, <2>6 DEF Numbers
<1>5. PrintedOK
  <2>1. printed = <<>> BY DEF Init
  <2> QED BY <1>2, <2>1, Below DEF PrintedOK, PrimesSoFar
<1> QED BY <1>3, <1>4, <1>5 DEF Sieving, ChainOK, NumbersOK

(* Every step of primes keeps the sieve. *)
LEMMA SieveKept ==
  ASSUME IInv, Sieving, program = "primes", NEW e \in Envs, Step(e)
  PROVE  Sieving'
<1>1. ~Exit(e) BY DEF Sieving, ChainOK, Chain, Exit, At
<1>2. CASE Program(e)
  <2>1. CASE At(e, "received") /\ PrimesReceived(e) /\ usr[e].p = 0 BY <2>1, SievePrints
  <2>2. CASE At(e, "received") /\ PrimesReceived(e) /\ usr[e].p # 0 BY <2>2, SieveSteps
  <2>3. CASE At(e, "forked") /\ PrimesForked(e) BY <2>3, SieveSteps
  <2>4. CASE At(e, "sent") /\ PrimesSent(e) BY <2>4, SieveSteps
  <2> QED BY <1>2, <2>1, <2>2, <2>3, <2>4 DEF Program
<1>3. CASE SysIpcRecv(e) \/ SysYield(e) \/ ReadFrom(e) \/ ReadValue(e)
  BY <1>3, SieveSteps
<1> QED BY <1>1, <1>2, <1>3, SieveSends, SieveForks DEF Step

-----------------------------------------------------------------------------
(* pingpong: one of the two environments has the ball, the other listens,  *)
(* or has ended when the ball is the last.                                 *)

Listening(e) ==
  \/ usr[e].pc = "recv"
  \/ usr[e].pc = "woken" /\ env[e].recving
  \/ usr[e].pc = "sent" /\ usr[e].val # LastBall
Ended(e) ==
  \/ usr[e].pc \in {"exit", "none"}
  \/ usr[e].pc = "sent" /\ usr[e].val = LastBall

HasBall(e, d, n) ==
  /\ env[e].from = d /\ env[e].value = n
  /\ \/ usr[e].pc = "woken" /\ ~env[e].recving
     \/ usr[e].pc = "value"
     \/ usr[e].pc = "received" /\ usr[e].got = [from |-> d, value |-> n]
BallAt(e, d, n) ==
  \/ HasBall(e, d, n) /\ IF n = LastBall THEN Ended(d) ELSE Listening(d)
  \/ usr[e].pc \in {"send", "yield"} /\ usr[e].to = d /\ usr[e].val = n /\ Listening(d)

Playing ==
  /\ ~monitor
  /\ printed = [i \in 1 .. Len(printed) |-> i - 1] /\ Len(printed) \in Nat
  /\ \A e \in Envs \ {0, 1} : ~Born(e)
  /\ \/ usr[0].pc = "fork" /\ ~Born(1) /\ Len(printed) = 0
     \/ usr[0].pc = "forked" /\ usr[0].id = 1 /\ Listening(1) /\ Len(printed) = 0
     \/ BallAt(0, 1, Len(printed)) \/ BallAt(1, 0, Len(printed))
     \/ Ended(0) /\ Ended(1)

(* A step of an environment that has not got the ball.                     *)
LEMMA Bystander ==
  ASSUME IInv, program = "pingpong", NEW e \in Envs, Step(e), Listening(e) \/ Ended(e)
  PROVE  /\ (Listening(e) => Listening(e)') /\ (Ended(e) => Ended(e)')
         /\ \A d \in Envs \ {e} : usr'[d] = usr[d] /\ env'[d] = env[d]
         /\ printed' = printed /\ monitor' = monitor
<1>0. usr \in [Envs -> Memory] /\ env \in [Envs -> EnvRecord] /\ usr[e] \in Memory
  BY DEF IInv, TypeOK
<1>1. usr[e].pc = "woken" => ~env[e].recving \/ env[e].status # "RUNNABLE"
  BY DEF IInv, StatusOK
<1>2. \/ SysIpcRecv(e) \/ Exit(e)
      \/ At(e, "sent") /\ PingpongSent(e)
  BY <1>1 DEF Step, Listening, Ended, At, SysIpcTrySend, SysYield, Fork, ReadFrom, ReadValue, Program
<1>3. CASE SysIpcRecv(e)
  <2>1. /\ usr'[e] = [usr[e] EXCEPT !.pc = "woken"] /\ usr[e].pc = "recv"
        /\ env'[e] = [env[e] EXCEPT !.recving = TRUE, !.status = "NOT_RUNNABLE"]
        /\ \A d \in Envs \ {e} : usr'[d] = usr[d] /\ env'[d] = env[d]
        /\ printed' = printed /\ monitor' = monitor
    BY <1>0, <1>3 DEF SysIpcRecv, Goto, At
  <2>2. usr'[e].pc = "woken" /\ env'[e].recving = TRUE BY <1>0, <2>1 DEF Memory, EnvRecord
  <2> QED BY <2>1, <2>2 DEF Listening, Ended
<1>4. CASE Exit(e)
  <2>1. /\ usr'[e] = [usr[e] EXCEPT !.pc = "none"] /\ usr[e].pc = "exit"
        /\ \A d \in Envs \ {e} : usr'[d] = usr[d] /\ env'[d] = env[d]
        /\ printed' = printed /\ monitor' = monitor
    BY <1>0, <1>4 DEF Exit, At
  <2>2. usr'[e].pc = "none" BY <1>0, <2>1 DEF Memory
  <2> QED BY <2>1, <2>2 DEF Listening, Ended
<1>5. CASE At(e, "sent") /\ PingpongSent(e)
  <2>1. /\ usr'[e] = [usr[e] EXCEPT !.pc = IF usr[e].val = LastBall THEN "exit" ELSE "recv"]
        /\ usr[e].pc = "sent"
        /\ \A d \in Envs \ {e} : usr'[d] = usr[d] /\ env'[d] = env[d]
        /\ printed' = printed /\ monitor' = monitor
    BY <1>0, <1>5 DEF PingpongSent, Goto, At
  <2>2. usr'[e].pc = IF usr[e].val = LastBall THEN "exit" ELSE "recv" BY <1>0, <2>1 DEF Memory
  <2> QED BY <2>1, <2>2 DEF Listening, Ended
<1> QED BY <1>2, <1>3, <1>4, <1>5

(* A step of the environment that has the ball. *)
LEMMA BallMoves ==
  ASSUME IInv, program = "pingpong", NEW e \in Envs, NEW o \in Envs, e # o, NEW n \in Nat,
         BallAt(e, o, n), Step(e)
  PROVE  /\ monitor' = monitor /\ \A d \in Envs \ {e, o} : usr'[d] = usr[d]
         /\ \/ printed' = printed /\ (BallAt(e, o, n)' \/ BallAt(o, e, n)')
            \/ /\ printed' = Append(printed, n)
               /\ BallAt(e, o, n + 1)' \/ (Ended(e)' /\ Ended(o)')
<1>0. /\ usr \in [Envs -> Memory] /\ env \in [Envs -> EnvRecord] /\ usr[e] \in Memory
      /\ env[e] \in EnvRecord
  BY DEF IInv, TypeOK
<1>1. usr[e].pc = "woken" => ~env[e].recving BY DEF BallAt, HasBall
<1>2. \/ ReadFrom(e) \/ ReadValue(e) \/ SysIpcTrySend(e) \/ SysYield(e)
      \/ At(e, "received") /\ PingpongReceived(e)
  BY DEF Step, BallAt, HasBall, At, SysIpcRecv, Exit, Fork, Program
<1>3. ASSUME NEW d \in Envs, usr'[d] = usr[d], env'[d] = env[d]
      PROVE  (Listening(d)' <=> Listening(d)) /\ (Ended(d)' <=> Ended(d))
  BY <1>3 DEF Listening, Ended
<1>4. CASE ReadFrom(e)
  <2>1. /\ usr'[e] = [usr[e] EXCEPT !.from = env[e].from, !.pc = "value"] /\ usr[e].pc = "woken"
        /\ env' = env /\ \A d \in Envs \ {e} : usr'[d] = usr[d]
        /\ printed' = printed /\ monitor' = monitor
    BY <1>0, <1>4 DEF ReadFrom, At
  <2>2. usr'[e].pc = "value" BY <1>0, <2>1 DEF Memory
  <2>3. BallAt(e, o, n)' BY <1>3, <2>1, <2>2 DEF BallAt, HasBall
  <2> QED BY <2>1, <2>3
<1>5. CASE ReadValue(e)
  <2>1. /\ usr'[e] = [usr[e] EXCEPT !.got = [from |-> usr[e].from, value |-> env[e].value],
                                    !.pc = "received"]
        /\ usr[e].pc = "value" /\ usr[e].from = env[e].from
        /\ env' = env /\ \A d \in Envs \ {e} : usr'[d] = usr[d]
        /\ printed' = printed /\ monitor' = monitor
    BY <1>0, <1>5 DEF ReadValue, At, IInv, MessageOK
  <2>2. usr'[e].pc = "received" /\ usr'[e].got = [from |-> env[e].from, value |-> env[e].value]
    BY <1>0, <2>1 DEF Memory
  <2>3. BallAt(e, o, n)' BY <1>3, <2>1, <2>2 DEF BallAt, HasBall
  <2> QED BY <2>1, <2>3
<1>6. CASE SysYield(e)
  <2>1. /\ usr'[e] = [usr[e] EXCEPT !.pc = "send"] /\ usr[e].pc = "yield"
        /\ env' = env /\ \A d \in Envs \ {e} : usr'[d] = usr[d]
        /\ printed' = printed /\ monitor' = monitor
    BY <1>0, <1>6 DEF SysYield, At, Goto
  <2>2. usr'[e].pc = "send" /\ usr'[e].to = usr[e].to /\ usr'[e].val = usr[e].val
    BY <1>0, <2>1 DEF Memory
  <2>3. BallAt(e, o, n)' BY <1>3, <2>1, <2>2 DEF BallAt, HasBall
  <2> QED BY <2>1, <2>3
<1>7. CASE SysIpcTrySend(e)
  <2>0. usr[e].pc = "send" /\ usr[e].to = o /\ usr[e].val = n /\ Listening(o) /\ printed' = printed
    BY <1>7 DEF SysIpcTrySend, At, BallAt, HasBall
  <2>1. env[o].status # "FREE"
    <3>1. usr[o].pc # "none" BY <2>0 DEF Listening
    <3> QED BY <3>1 DEF IInv, StatusOK
  <2>2. CASE usr' = [usr EXCEPT ![e] = NotReceiving(@)] /\ UNCHANGED <<env, monitor>>
    <3>1. /\ usr'[e] = [usr[e] EXCEPT !.pc = "yield"] /\ \A d \in Envs \ {e} : usr'[d] = usr[d]
          /\ env' = env /\ monitor' = monitor
      BY <1>0, <2>2 DEF NotReceiving
    <3>2. usr'[e].pc = "yield" /\ usr'[e].to = usr[e].to /\ usr'[e].val = usr[e].val
      BY <1>0, <3>1 DEF Memory
    <3>3. BallAt(e, o, n)' BY <1>3, <2>0, <3>1, <3>2 DEF BallAt, HasBall
    <3> QED BY <2>0, <3>1, <3>3
  <2>3. CASE env[o].recving /\ env' = Delivered(o, e, n) /\ Goto(e, "sent") /\ UNCHANGED monitor
    <3>1. /\ usr'[e] = [usr[e] EXCEPT !.pc = "sent"] /\ \A d \in Envs \ {e} : usr'[d] = usr[d]
          /\ env'[o] = [status |-> "RUNNABLE", recving |-> FALSE, from |-> e, value |-> n]
          /\ monitor' = monitor
      BY <1>0, <2>3 DEF Goto, Delivered
    <3>2. usr'[e].pc = "sent" /\ usr'[e].val = n BY <1>0, <2>0, <3>1 DEF Memory
    <3>3. usr'[o].pc = "woken" /\ ~env'[o].recving /\ env'[o].from = e /\ env'[o].value = n
      BY <2>3, <3>1 DEF IInv, StatusOK
    <3>4. IF n = LastBall THEN Ended(e)' ELSE Listening(e)' BY <3>2 DEF Ended, Listening
    <3>5. BallAt(o, e, n)' BY <3>3, <3>4 DEF BallAt, HasBall
    <3> QED BY <2>0, <3>1, <3>5
  <2> QED BY <1>7, <2>0, <2>1, <2>2, <2>3 DEF SysIpcTrySend
<1>8. CASE At(e, "received") /\ PingpongReceived(e)
  <2>0. /\ usr[e].pc = "received" /\ usr[e].got = [from |-> o, value |-> n] /\ env' = env
        /\ monitor' = monitor /\ printed' = Append(printed, n)
        /\ IF n = LastBall THEN Ended(o) ELSE Listening(o)
    BY <1>8 DEF At, PingpongReceived, BallAt, HasBall
  <2>1. CASE n = LastBall
    <3>1. usr'[e] = [usr[e] EXCEPT !.pc = "exit"] /\ \A d \in Envs \ {e} : usr'[d] = usr[d]
      BY <1>0, <1>8, <2>0, <2>1 DEF PingpongReceived
    <3>2. usr'[e].pc = "exit" BY <1>0, <3>1 DEF Memory
    <3>3. Ended(e)' /\ Ended(o)' BY <1>3, <2>0, <2>1, <3>1, <3>2 DEF Ended
    <3> QED BY <2>0, <3>1, <3>3
  <2>2. CASE n # LastBall
    <3>1. usr'[e] = Sends(usr[e], o, n + 1) /\ \A d \in Envs \ {e} : usr'[d] = usr[d]
      BY <1>0, <1>8, <2>0, <2>2 DEF PingpongReceived
    <3>2. usr'[e].pc = "send" /\ usr'[e].to = o /\ usr'[e].val = n + 1
      BY <1>0, <3>1 DEF Sends, Memory
    <3>3. BallAt(e, o, n + 1)' BY <1>3, <2>0, <2>2, <3>1, <3>2 DEF BallAt
    <3> QED BY <2>0, <3>1, <3>3
  <2> QED BY <2>1, <2>2
<1> QED BY <1>2, <1>4, <1>5, <1>6, <1>7, <1>8

(* Before its fork, pingpong is one environment. *)
LEMMA PlayingInit == Init /\ program = "pingpong" => Playing
<1> SUFFICES ASSUME Init, program = "pingpong" PROVE Playing OBVIOUS
<1>1. usr[0].pc = "fork" /\ \A e \in Envs \ {0} : usr[e].pc = "none"
  BY Ids DEF Init, Begun, Unborn
<1>2. printed = <<>> /\ ~monitor BY DEF Init
<1>3. printed = [i \in 1 .. Len(printed) |-> i - 1] /\ Len(printed) = 0 BY <1>2
<1> QED BY <1>1, <1>2, <1>3, Ids DEF Playing, Born

(* The ball's numbers stay in order. *)
LEMMA Counted ==
  ASSUME NEW s, NEW k \in Nat, s = [i \in 1 .. k |-> i - 1]
  PROVE  /\ Len(Append(s, k)) = k + 1
         /\ Append(s, k) = [i \in 1 .. k + 1 |-> i - 1]
<1>1. s \in Seq(Int) /\ Len(s) = k OBVIOUS
<1>2. Append(s, k) \in Seq(Int) /\ Len(Append(s, k)) = k + 1 BY <1>1
<1>3. \A i \in 1 .. k + 1 : Append(s, k)[i] = i - 1 BY <1>1
<1> QED BY <1>2, <1>3

(* Every step of pingpong leaves the ball with one of the two. *)
LEMMA PlayingKept ==
  ASSUME IInv, Playing, program = "pingpong", NEW e \in Envs, Step(e)
  PROVE  Playing'
<1> DEFINE n == Len(printed)
<1>0. /\ usr \in [Envs -> Memory] /\ env \in [Envs -> EnvRecord] /\ usr[e] \in Memory
      /\ 0 \in Envs /\ 1 \in Envs /\ n \in Nat /\ ~monitor
      /\ printed = [i \in 1 .. n |-> i - 1] /\ \A d \in Envs \ {0, 1} : ~Born(d)
  BY Ids DEF IInv, TypeOK, Playing
<1>1. Born(e) BY DEF IInv, StatusOK, Born, Step, SysIpcRecv, SysIpcTrySend, SysYield, Fork,
        Exit, ReadFrom, ReadValue, Program, At
<1>2. e \in {0, 1} BY <1>0, <1>1
<1>3. (\A d \in Envs \ {0, 1} : usr'[d] = usr[d]) => \A d \in Envs \ {0, 1} : ~Born(d)'
  BY <1>0 DEF Born
<1>4. printed' = printed => Len(printed)' = n /\ printed' = [i \in 1 .. n |-> i - 1]
  BY <1>0
<1>5. printed' = Append(printed, n) =>
        Len(printed)' = n + 1 /\ printed' = [i \in 1 .. n + 1 |-> i - 1]
  BY <1>0, Counted
<1>6. CASE usr[0].pc = "fork" /\ ~Born(1) /\ n = 0
  <2>1. e = 0 BY <1>1, <1>2, <1>6
  <2>2. Fork(0) BY <1>6, <2>1 DEF Step, At, SysIpcRecv, SysIpcTrySend, SysYield, Exit, ReadFrom,
                              ReadValue, Program
  <2>3. \A d \in Envs : env[d].status = "FREE" <=> d # 0
    BY <1>0, <1>6 DEF IInv, StatusOK, Born
  <2>4. /\ usr' = [usr EXCEPT ![0] = Forked(@, 1), ![1] = Child(usr[0])]
        /\ printed' = printed /\ monitor' = monitor
    <3> DEFINE free == {d \in Envs : env[d].status = "FREE"}
    <3>1. free = Envs \ {0} BY <2>3
    <3>2. \A c \in free : (\A f \in free : c <= f) => c = 1
      BY <1>0, <3>1, IpcAssumption DEF Envs
    <3>3. free # {} BY <1>0, <3>1
    <3> HIDE DEF free
    <3>4. \E c \in free : /\ \A f \in free : c <= f
                          /\ usr' = [usr EXCEPT ![0] = Forked(@, c), ![c] = Child(usr[0])]
      BY <2>2, <3>3 DEF Fork, free
    <3> QED BY <2>2, <3>2, <3>4 DEF Fork
  <2>5. usr'[0] = Forked(usr[0], 1) /\ usr'[1] = Child(usr[0]) /\ \A d \in Envs \ {0, 1} : usr'[d] = usr[d]
    BY <1>0, <2>4
  <2>6. usr'[0].pc = "forked" /\ usr'[0].id = 1 /\ usr'[1].pc = "recv"
    <3>1. usr[0] \in Memory BY <1>0
    <3> QED BY <1>0, <2>5, <3>1, ForkUpdates
  <2>7. Listening(1)' BY <2>6 DEF Listening
  <2> QED BY <1>0, <1>3, <1>4, <1>6, <2>4, <2>5, <2>6, <2>7 DEF Playing
<1>7. CASE usr[0].pc = "forked" /\ usr[0].id = 1 /\ Listening(1) /\ n = 0
  <2>1. CASE e = 0
    <3>1. PingpongForked(0)
      BY <1>7, <2>1 DEF Step, At, SysIpcRecv, SysIpcTrySend, SysYield, Exit, ReadFrom,
         ReadValue, Program, Fork
    <3>2. /\ usr'[0] = Sends(usr[0], 1, 0) /\ \A d \in Envs \ {0} : usr'[d] = usr[d]
          /\ env' = env /\ printed' = printed /\ monitor' = monitor
      BY <1>0, <1>7, <3>1 DEF PingpongForked
    <3>3. usr'[0].pc = "send" /\ usr'[0].to = 1 /\ usr'[0].val = 0
      <4>1. usr[0] \in Memory BY <1>0
      <4> QED BY <3>2, <4>1 DEF Sends, Memory
    <3>4. Listening(1)' BY <1>0, <1>7, <3>2 DEF Listening
    <3>5. BallAt(0, 1, 0)' BY <3>3, <3>4 DEF BallAt
    <3> QED BY <1>0, <1>3, <1>4, <1>7, <3>2, <3>5 DEF Playing
  <2>2. CASE e = 1
    <3>1. /\ Listening(1)' /\ \A d \in Envs \ {1} : usr'[d] = usr[d]
          /\ printed' = printed /\ monitor' = monitor
      BY <1>0, <1>7, <2>2, Bystander
    <3> QED BY <1>0, <1>3, <1>4, <1>7, <3>1 DEF Playing
  <2> QED BY <1>2, <2>1, <2>2
<1>8. ASSUME NEW a \in {0, 1}, NEW o \in {0, 1}, a # o, BallAt(a, o, n) PROVE Playing'
  <2>0. a \in Envs /\ o \in Envs /\ Envs \ {a, o} = Envs \ {0, 1} BY <1>0, <1>8
  <2>1. CASE e = a
    <3>1. PICK m \in Nat : m = n BY <1>0
    <3>2. BallAt(a, o, m) BY <1>8, <3>1
    <3>3. /\ monitor' = monitor /\ \A d \in Envs \ {a, o} : usr'[d] = usr[d]
          /\ \/ printed' = printed /\ (BallAt(a, o, m)' \/ BallAt(o, a, m)')
             \/ /\ printed' = Append(printed, m)
                /\ BallAt(a, o, m + 1)' \/ (Ended(a)' /\ Ended(o)')
      BY <1>8, <2>0, <2>1, <3>2, BallMoves
    <3>4. CASE printed' = printed /\ (BallAt(a, o, m)' \/ BallAt(o, a, m)')
      <4>1. Len(printed)' = m /\ printed' = [i \in 1 .. m |-> i - 1] BY <1>4, <3>1, <3>4
      <4>2. BallAt(a, o, Len(printed))' \/ BallAt(o, a, Len(printed))' BY <3>4, <4>1
      <4> QED BY <1>0, <1>3, <1>8, <2>0, <3>3, <4>1, <4>2, Zenon DEF Playing
    <3>5. CASE printed' = Append(printed, m) /\ (BallAt(a, o, m + 1)' \/ (Ended(a)' /\ Ended(o)'))
      <4>1. printed = [i \in 1 .. m |-> i - 1] BY <1>0, <3>1
      <4>2. Len(printed)' = m + 1 /\ printed' = [i \in 1 .. m + 1 |-> i - 1] /\ m + 1 \in Nat
        BY <3>5, <4>1, Counted
      <4>3. BallAt(a, o, Len(printed))' \/ (Ended(a)' /\ Ended(o)') BY <3>5, <4>2
      <4> QED BY <1>0, <1>3, <1>8, <2>0, <3>3, <4>2, <4>3, Zenon DEF Playing
    <3> QED BY <3>3, <3>4, <3>5
  <2>2. CASE e = o
    <3>0. Listening(o) \/ Ended(o) BY <1>8 DEF BallAt
    <3>1. /\ (Listening(o) => Listening(o)') /\ (Ended(o) => Ended(o)')
          /\ \A d \in Envs \ {o} : usr'[d] = usr[d] /\ env'[d] = env[d]
          /\ printed' = printed /\ monitor' = monitor
      BY <2>0, <2>2, <3>0, Bystander
    <3>2. usr'[a] = usr[a] /\ env'[a] = env[a] BY <1>8, <2>0, <3>1
    <3>3. BallAt(a, o, Len(printed))'
      BY <1>8, <3>1, <3>2 DEF BallAt, HasBall
    <3> QED BY <1>0, <1>3, <1>4, <1>8, <2>0, <3>1, <3>3 DEF Playing
  <2> QED BY <1>2, <1>8, <2>1, <2>2
<1>9. CASE Ended(0) /\ Ended(1)
  <2>1. /\ Ended(e)' /\ \A d \in Envs \ {e} : usr'[d] = usr[d] /\ env'[d] = env[d]
        /\ printed' = printed /\ monitor' = monitor
    BY <1>2, <1>9, Bystander
  <2>2. Ended(0)' /\ Ended(1)' BY <1>0, <1>2, <1>9, <2>1 DEF Ended
  <2> QED BY <1>0, <1>2, <1>3, <1>4, <2>1, <2>2 DEF Playing
<1> QED BY <1>6, <1>7, <1>8, <1>9 DEF Playing

-----------------------------------------------------------------------------
(* fairness: both senders send to the environment in slot 1, which stays.  *)
Served ==
  /\ ~monitor /\ printed = <<>>
  /\ \A e \in Envs : /\ usr[e].pc \notin {"fork", "forked", "exit", "panic"}
                     /\ usr[e].pc \in {"send", "yield", "sent"} => usr[e].to = 1
  /\ Born(1)

(* The three environments of fairness, before their loops. *)
LEMMA ServedInit == Init /\ program = "fairness" => Served
<1> SUFFICES ASSUME Init, program = "fairness" PROVE Served OBVIOUS
<1>1. ASSUME NEW e \in Envs
      PROVE  /\ usr[e].pc \in {"none", "recv", "sent"}
             /\ usr[e].pc = "sent" => usr[e].to = 1
             /\ e = 1 => usr[e].pc = "recv"
  BY DEF Init, Begun, Unborn
<1> QED BY <1>1, Ids DEF Init, Served, Born

(* No step of fairness ends the receiver, or sends to another. *)
LEMMA ServedKept ==
  ASSUME IInv, Served, program = "fairness", NEW e \in Envs, Step(e)
  PROVE  Served'
<1>0. usr \in [Envs -> Memory] /\ usr[e] \in Memory /\ 1 \in Envs BY Ids DEF IInv, TypeOK
<1>1. usr[e].pc \notin {"fork", "forked", "exit", "panic"} /\ (usr[e].pc \in {"send", "yield", "sent"} => usr[e].to = 1)
  BY DEF Served
<1>2. ASSUME NEW l \in {"woken", "value", "received", "recv", "send", "sent", "yield"}, NEW u \in Memory,
             usr' = [usr EXCEPT ![e] = u], u.pc = l, l \in {"send", "sent", "yield"} => u.to = 1,
             printed' = printed, monitor' = monitor
      PROVE  Served'
  <2>1. usr'[e] = u /\ \A d \in Envs \ {e} : usr'[d] = usr[d] BY <1>0, <1>2
  <2>2. Born(1)' BY <1>0, <1>2, <2>1 DEF Served, Born
  <2> QED BY <1>2, <2>1, <2>2 DEF Served
<1>3. CASE SysIpcRecv(e)
  <2> DEFINE u == [usr[e] EXCEPT !.pc = "woken"]
  <2>1. u \in Memory /\ u.pc = "woken" BY <1>0, Updates DEF Locations
  <2> QED BY <1>2, <1>3, <2>1 DEF SysIpcRecv, Goto
<1>4. CASE SysIpcTrySend(e)
  <2>0. usr[e].pc = "send" /\ usr[e].to = 1 /\ printed' = printed
    BY <1>1, <1>4 DEF SysIpcTrySend, At
  <2>1. env[1].status # "FREE" BY <1>0 DEF Served, Born, IInv, StatusOK
  <2>2. CASE usr' = [usr EXCEPT ![e] = NotReceiving(@)] /\ UNCHANGED <<env, monitor>>
    <3> DEFINE u == [usr[e] EXCEPT !.pc = "yield"]
    <3>1. u \in Memory /\ u.pc = "yield" /\ u.to = usr[e].to BY <1>0 DEF Memory, Locations
    <3> QED BY <1>2, <2>0, <2>2, <3>1 DEF NotReceiving
  <2>3. CASE Goto(e, "sent") /\ UNCHANGED monitor
    <3> DEFINE u == [usr[e] EXCEPT !.pc = "sent"]
    <3>1. u \in Memory /\ u.pc = "sent" /\ u.to = usr[e].to BY <1>0 DEF Memory, Locations
    <3> QED BY <1>2, <2>0, <2>3, <3>1 DEF Goto
  <2> QED BY <1>0, <1>4, <2>0, <2>1, <2>2, <2>3 DEF SysIpcTrySend
<1>5. CASE SysYield(e)
  <2> DEFINE u == [usr[e] EXCEPT !.pc = "send"]
  <2>1. u \in Memory /\ u.pc = "send" /\ u.to = usr[e].to BY <1>0 DEF Memory, Locations
  <2> QED BY <1>1, <1>2, <1>5, <2>1 DEF SysYield, Goto, At
<1>6. CASE ReadFrom(e)
  <2> DEFINE u == [usr[e] EXCEPT !.from = env[e].from, !.pc = "value"]
  <2>1. u \in Memory /\ u.pc = "value"
    BY <1>0 DEF Memory, Locations, IInv, TypeOK, EnvRecord
  <2> QED BY <1>2, <1>6, <2>1 DEF ReadFrom
<1>7. CASE ReadValue(e)
  <2> DEFINE u == [usr[e] EXCEPT !.got = [from |-> usr[e].from, value |-> env[e].value],
                                 !.pc = "received"]
  <2>1. u \in Memory /\ u.pc = "received"
    BY <1>0 DEF Memory, Message, Locations, IInv, TypeOK, EnvRecord
  <2> QED BY <1>2, <1>7, <2>1 DEF ReadValue
<1>8. CASE At(e, "received") /\ FairnessReceived(e)
  <2> DEFINE u == [usr[e] EXCEPT !.pc = "recv"]
  <2>1. u \in Memory /\ u.pc = "recv" BY <1>0, Updates DEF Locations
  <2> QED BY <1>2, <1>8, <2>1 DEF FairnessReceived, Goto
<1>9. CASE At(e, "sent") /\ FairnessSent(e)
  <2> DEFINE u == [usr[e] EXCEPT !.pc = "send"]
  <2>1. u \in Memory /\ u.pc = "send" /\ u.to = usr[e].to BY <1>0 DEF Memory, Locations
  <2> QED BY <1>1, <1>2, <1>9, <2>1 DEF FairnessSent, Goto, At
<1> QED BY <1>1, <1>3, <1>4, <1>5, <1>6, <1>7, <1>8, <1>9 DEF Step, Program, Fork, Exit, At

-----------------------------------------------------------------------------
(* The inductive invariant of NothingLost. *)
Promising ==
  /\ IInv
  /\ program = "primes" => Sieving
  /\ program = "pingpong" => Playing
  /\ program = "fairness" => Served

(* Every step keeps the invariant of the program that runs. *)
LEMMA PromisingKept == Promising /\ [Next]_vars => Promising'
<1> SUFFICES ASSUME Promising, [Next]_vars PROVE Promising' OBVIOUS
<1>1. IInv' BY NextIInv DEF Promising
<1>2. CASE UNCHANGED vars
  <2>1. /\ Sieving' <=> Sieving
    BY <1>2 DEF vars, Sieving, ChainOK, NumbersOK, PrintedOK, Chain, Numbers, Covered, Done, Busy,
       Passed, Sifted, Born, LastBorn, HasNext, PrimesSoFar
  <2>2. Playing' <=> Playing
    BY <1>2 DEF vars, Playing, BallAt, HasBall, Listening, Ended, Born
  <2>3. Served' <=> Served BY <1>2 DEF vars, Served, Born
  <2> QED BY <1>1, <1>2, <2>1, <2>2, <2>3 DEF Promising, vars
<1>3. ASSUME NEW e \in Envs, Step(e) PROVE Promising'
  <2>1. program' = program
    BY <1>3 DEF Step, SysIpcRecv, SysIpcTrySend, SysYield, Fork, Exit, ReadFrom, ReadValue, Program
  <2> QED BY <1>1, <1>3, <2>1, SieveKept, PlayingKept, ServedKept DEF Promising
<1> QED BY <1>2, <1>3 DEF Next

(* No number is lost on its way: pingpong prints the numbers of the ball   *)
(* in order, each once; primes prints the primes in order and leaves none  *)
(* out, for any number of environments; and no program but primes sends to *)
(* an environment that has ended, or panics (pingpong.c:11-26,             *)
(* primes.c:20-51, fairness.c:14-22, ipc.c:54).                            *)
THEOREM NothingLostHolds == Spec => []NothingLost
<1>1. Init => Promising
  BY InitIInv, SieveInit, PlayingInit, ServedInit DEF Promising
<1>2. Promising => NothingLost
  <2> SUFFICES ASSUME Promising PROVE NothingLost OBVIOUS
  <2>1. program \in {"pingpong", "primes", "fairness"}
    BY IpcAssumption DEF Promising, IInv, TypeOK
  <2> QED BY <2>1 DEF Promising, NothingLost, Sieving, PrintedOK, Playing, Served
<1> QED BY <1>1, <1>2, PromisingKept, PTL DEF Spec
=============================================================================
