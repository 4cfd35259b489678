---------------------------- MODULE Rendezvous ----------------------------
(***************************************************************************)
(* What ipc_send and ipc_recv promise together (3-sched/lib/ipc.c): a send *)
(* ends when the process it is meant for waits, and hands its value to     *)
(* that process alone, which returns it before it can wait for another.    *)
(***************************************************************************)
CONSTANTS Procs, Values, NoMessage

VARIABLES
  state,    \* what each process is doing
  got       \* the last message each process has returned

Gone == [kind |-> "gone"]
Idle == [kind |-> "idle"]
Waiting == [kind |-> "waiting"]
Sending == [kind : {"sending"}, to : Procs, value : Values]
Has(p, v) == [kind |-> "has", from |-> p, value |-> v]

Become(p, s) == state[p] # s /\ state' = [state EXCEPT ![p] = s]

Init ==
  /\ state \in [Procs -> {Gone, Idle}]
  /\ got = [p \in Procs |-> NoMessage]

(* A process begins, a copy of another, and ends. *)
Begin(p) ==
  /\ state[p] = Gone /\ Become(p, Idle)
  /\ \E q \in Procs : got' = [got EXCEPT ![p] = got[q]]
End(p) == state[p] = Idle /\ Become(p, Gone) /\ UNCHANGED got

Send(p) ==
  /\ state[p] = Idle
  /\ state'[p] \in Sending /\ Become(p, state'[p])
  /\ UNCHANGED got

Wait(p) == state[p] = Idle /\ Become(p, Waiting) /\ UNCHANGED got

(* Both at once: p goes on, q has the value. *)
Deliver(p, q) ==
  /\ state[p] \in Sending /\ state[p].to = q /\ state[q] = Waiting
  /\ state' = [state EXCEPT ![p] = Idle, ![q] = Has(p, state[p].value)]
  /\ UNCHANGED got

(* The process p sends to does not exist any more. *)
Refused(p) ==
  /\ state[p] \in Sending /\ state[state[p].to] = Gone
  /\ Become(p, Gone)
  /\ UNCHANGED got

Take(q) ==
  /\ state[q].kind = "has"
  /\ got' = [got EXCEPT ![q] = [from |-> state[q].from, value |-> state[q].value]]
  /\ Become(q, Idle)

Next ==
  \E p \in Procs :
    \/ Begin(p) \/ End(p) \/ Send(p) \/ Wait(p) \/ Refused(p) \/ Take(p)
    \/ \E q \in Procs : Deliver(p, q)

Spec == Init /\ [][Next]_<<state, got>>
=============================================================================
