------------------------- MODULE SchedPriorityProofs -------------------------
(***************************************************************************)
(* Proofs about SchedPriority for every number of CPUs and slots, every    *)
(* number of levels and every interval of the boost: its types, that the   *)
(* scheduler chooses one of the most important environments, and that      *)
(* nothing but the boost raises a priority.                                *)
(***************************************************************************)
EXTENDS SchedPriority, TLAPS

(* The priorities by which a visit of the scheduler chooses. *)
Boosted(st) ==
  IF CountCall >= BOOST_INTERVAL THEN BoostAll(st, env_priority) ELSE env_priority

(* What a visit may make of priorities pr: one environment, the one it     *)
(* chooses, loses at most a level.                                         *)
LosesALevel(e, pr) ==
  /\ env_priority' \in [Envs -> Priorities]
  /\ \A f \in Envs : f # e => env_priority'[f] = pr[f]
  /\ pr[e] <= env_priority'[e] + 1 /\ env_priority'[e] <= pr[e]

LEMMA ConstantTypes ==
  /\ NENV \in Nat /\ Envs \subseteq Nat /\ NULL \notin Envs
  /\ MAX_PRIORITY \in Nat /\ Priorities \subseteq Nat
  /\ 0 \in Priorities /\ MAX_PRIORITY \in Priorities
  /\ BOOST_INTERVAL \in Nat
  BY SchedAssumption DEF Envs, NULL, Priorities, MIN_PRIORITY

(* The boost raises by one the environments that are not at the top. *)
LEMMA BoostedTypes ==
  ASSUME TypeOK, NEW st \in [Envs -> Statuses]
  PROVE  /\ Boosted(st) \in [Envs -> Priorities]
         /\ \A e \in Envs :
              \/ Boosted(st)[e] = env_priority[e]
              \/ /\ Boosted(st)[e] = env_priority[e] + 1
                 /\ st[e] # "FREE" /\ CountCall >= BOOST_INTERVAL
         /\ CountCall >= BOOST_INTERVAL =>
              \A e \in Envs : st[e] # "FREE" =>
                Boosted(st)[e] = IF env_priority[e] < MAX_PRIORITY THEN env_priority[e] + 1
                                                               ELSE env_priority[e]
<1>1. env_priority \in [Envs -> Priorities] BY DEF TypeOK
<1>2. \A e \in Envs : env_priority[e] \in Priorities /\ env_priority[e] \in Nat
  BY <1>1, ConstantTypes
<1>3. \A e \in Envs : env_priority[e] < MAX_PRIORITY => env_priority[e] + 1 \in Priorities
  BY <1>2, ConstantTypes DEF Priorities, MIN_PRIORITY
<1>4. BoostAll(st, env_priority) \in [Envs -> Priorities]
  BY <1>2, <1>3 DEF BoostAll
<1>5. \A e \in Envs : BoostAll(st, env_priority)[e] =
        IF st[e] # "FREE" /\ env_priority[e] < MAX_PRIORITY THEN env_priority[e] + 1
                                                          ELSE env_priority[e]
  BY DEF BoostAll
<1>6. CASE CountCall >= BOOST_INTERVAL
  <2>1. Boosted(st) = BoostAll(st, env_priority) BY <1>6 DEF Boosted
  <2> QED BY <1>4, <1>5, <1>6, <2>1
<1>7. CASE ~(CountCall >= BOOST_INTERVAL)
  <2>1. Boosted(st) = env_priority BY <1>7 DEF Boosted
  <2> QED BY <1>1, <1>7, <2>1
<1> QED BY <1>6, <1>7

LEMMA DegradeLoses ==
  ASSUME NEW pr \in [Envs -> Priorities], NEW e \in Envs, Degrade(e, pr)
  PROVE  LosesALevel(e, pr)
<1>1. \A f \in Envs : pr[f] \in Priorities /\ pr[f] \in Nat BY ConstantTypes
<1>2. CASE env_priority' = pr BY <1>1, <1>2 DEF LosesALevel
<1>3. CASE pr[e] > MIN_PRIORITY /\ env_priority' = [pr EXCEPT ![e] = @ - 1]
  <2>1. pr[e] - 1 \in Priorities
    BY <1>1, <1>3, ConstantTypes DEF Priorities, MIN_PRIORITY
  <2>2. env_priority' \in [Envs -> Priorities] BY <1>3, <2>1
  <2>3. env_priority'[e] = pr[e] - 1 BY <1>3
  <2>4. \A f \in Envs : f # e => env_priority'[f] = pr[f] BY <1>3
  <2> QED BY <1>1, <2>2, <2>3, <2>4 DEF LosesALevel
<1> QED BY <1>2, <1>3 DEF Degrade

(* The counts stay within their bounds, also where the history overruns.   *)
LEMMA CountsTypes ==
  ASSUME TypeOK
  PROVE  /\ CountCall \in 0 .. BOOST_INTERVAL
         /\ AddCounts(CountCall) => /\ scheduler_calls' \in 0 .. BOOST_INTERVAL
                                    /\ history_index' \in 0 .. Beyond
<1>1. scheduler_calls \in 0 .. BOOST_INTERVAL /\ history_index \in 0 .. Beyond
  BY DEF TypeOK
<1>2. CountCall \in 0 .. BOOST_INTERVAL BY <1>1, SchedAssumption DEF CountCall
<1>3. ASSUME AddCounts(CountCall)
      PROVE  scheduler_calls' \in 0 .. BOOST_INTERVAL /\ history_index' \in 0 .. Beyond
  <2>1. PICK i \in Envs :
          /\ scheduler_calls' = IF history_index # CallsField THEN CountCall
                                ELSE IF i < BOOST_INTERVAL THEN i ELSE BOOST_INTERVAL
          /\ \/ history_index' = IF history_index < Beyond THEN history_index + 1 ELSE Beyond
             \/ history_index = IndexField /\ history_index' = i
    BY <1>3 DEF AddCounts
  <2>2. i \in Nat /\ i < NENV BY SchedAssumption DEF Envs
  <2>3. scheduler_calls' \in 0 .. BOOST_INTERVAL
    BY <1>2, <2>1, <2>2, SchedAssumption
  <2>4. history_index' \in 0 .. Beyond
    BY <1>1, <2>1, <2>2, SchedAssumption DEF Beyond
  <2> QED BY <2>3, <2>4
<1> QED BY <1>2, <1>3

-----------------------------------------------------------------------------
(* What sched_yield may do: it chooses the best and runs it, or there is   *)
(* nobody RUNNABLE and it goes on with the current one, or halts.          *)
Chosen(c, e, cur, st) ==
  /\ e \in Envs
  /\ BestPriority(e, IF cur = NULL THEN 0 ELSE cur, st, Boosted(st))
  /\ LosesALevel(e, Boosted(st))
  /\ EnvRun(c, e, cur, st)

NobodyElse(c, cur, st) ==
  /\ \A e \in Envs : st[e] # "RUNNABLE"
  /\ env_priority' = Boosted(st)
  /\ \/ cur \in Envs /\ st[cur] = "RUNNING" /\ EnvRun(c, cur, cur, st)
     \/ SchedHalt(c, cur, st)

LEMMA Visits ==
  ASSUME TypeOK, NEW c \in CPUs, NEW cur \in Envs \cup {NULL},
         NEW st \in [Envs -> Statuses], SchedYield(c, cur, st)
  PROVE  /\ scheduler_calls' \in 0 .. BOOST_INTERVAL /\ history_index' \in 0 .. Beyond
         /\ (\E e \in Envs : Chosen(c, e, cur, st)) \/ NobodyElse(c, cur, st)
<1>0. Boosted(st) \in [Envs -> Priorities] BY BoostedTypes
<1>1. \/ \E e \in Envs :
           /\ BestPriority(e, IF cur = NULL THEN 0 ELSE cur, st, Boosted(st))
           /\ AddCounts(CountCall)
           /\ Degrade(e, Boosted(st))
           /\ EnvRun(c, e, cur, st)
      \/ /\ \A e \in Envs : st[e] # "RUNNABLE"
         /\ env_priority' = Boosted(st)
         /\ scheduler_calls' = CountCall
         /\ UNCHANGED history_index
         /\ IF cur # NULL /\ st[cur] = "RUNNING"
            THEN EnvRun(c, cur, cur, st)
            ELSE SchedHalt(c, cur, st)
  BY DEF SchedYield, Boosted
<1>2. ASSUME NEW e \in Envs,
             BestPriority(e, IF cur = NULL THEN 0 ELSE cur, st, Boosted(st)),
             AddCounts(CountCall), Degrade(e, Boosted(st)), EnvRun(c, e, cur, st)
      PROVE  /\ scheduler_calls' \in 0 .. BOOST_INTERVAL /\ history_index' \in 0 .. Beyond
             /\ Chosen(c, e, cur, st)
  BY <1>0, <1>2, DegradeLoses, CountsTypes DEF Chosen
<1>3. ASSUME \A e \in Envs : st[e] # "RUNNABLE",
             env_priority' = Boosted(st), scheduler_calls' = CountCall,
             UNCHANGED history_index,
             IF cur # NULL /\ st[cur] = "RUNNING" THEN EnvRun(c, cur, cur, st)
                                                  ELSE SchedHalt(c, cur, st)
      PROVE  /\ scheduler_calls' \in 0 .. BOOST_INTERVAL /\ history_index' \in 0 .. Beyond
             /\ NobodyElse(c, cur, st)
  <2>1. history_index \in 0 .. Beyond BY DEF TypeOK
  <2>2. NobodyElse(c, cur, st) BY <1>3, ConstantTypes DEF NobodyElse
  <2> QED BY <1>3, <2>1, <2>2, CountsTypes
<1> QED BY <1>1, <1>2, <1>3

LEMMA VisitsTypes ==
  ASSUME TypeOK, NEW c \in CPUs, NEW cur \in Envs \cup {NULL},
         NEW st \in [Envs -> Statuses], SchedYield(c, cur, st)
  PROVE  TypeOK'
<1>1. curenv \in [CPUs -> Envs \cup {NULL}] /\ monitor \in BOOLEAN BY DEF TypeOK
<1>2. Boosted(st) \in [Envs -> Priorities] BY BoostedTypes
<1>3. ASSUME NEW e \in Envs, EnvRun(c, e, cur, st)
      PROVE  /\ env_status' \in [Envs -> Statuses]
             /\ curenv' \in [CPUs -> Envs \cup {NULL}] /\ monitor' \in BOOLEAN
  BY <1>1, <1>3 DEF EnvRun, Statuses
<1>4. ASSUME SchedHalt(c, cur, st)
      PROVE  /\ env_status' \in [Envs -> Statuses]
             /\ curenv' \in [CPUs -> Envs \cup {NULL}] /\ monitor' \in BOOLEAN
  BY <1>1, <1>4 DEF SchedHalt
<1>5. ASSUME NEW e \in Envs, Chosen(c, e, cur, st) PROVE TypeOK'
  BY <1>3, <1>5, Visits DEF Chosen, LosesALevel, TypeOK
<1>6. ASSUME NobodyElse(c, cur, st) PROVE TypeOK'
  BY <1>2, <1>3, <1>4, <1>6, Visits DEF NobodyElse, TypeOK
<1> QED BY <1>5, <1>6, Visits

(* The actions that enter the scheduler, with what they tell it. *)
LEMMA Entries ==
  ASSUME TypeOK, NEW c \in CPUs, Tick(c) \/ Block(c) \/ Exit(c)
  PROVE  \E cur \in Envs \cup {NULL}, st \in [Envs -> Statuses] :
           /\ SchedYield(c, cur, st) /\ ~monitor
           /\ cur = curenv[c] \/ cur = NULL
           /\ \A e \in Envs : \/ st[e] = env_status[e]
                              \/ e = curenv[c] /\ st[e] \in {"NOT_RUNNABLE", "FREE"}
<1>1. /\ env_status \in [Envs -> Statuses] /\ curenv[c] \in Envs \cup {NULL}
  BY DEF TypeOK
<1>2. CASE Tick(c) BY <1>1, <1>2 DEF Tick
<1>3. CASE Block(c)
  <2> DEFINE st == [env_status EXCEPT ![curenv[c]] = "NOT_RUNNABLE"]
  <2>1. st \in [Envs -> Statuses] BY <1>1 DEF Statuses
  <2>2. \A e \in Envs : \/ st[e] = env_status[e]
                        \/ e = curenv[c] /\ st[e] \in {"NOT_RUNNABLE", "FREE"}
    BY <1>1
  <2>3. SchedYield(c, curenv[c], st) /\ ~monitor BY <1>3 DEF Block, Running
  <2> HIDE DEF st
  <2> QED BY <1>1, <2>1, <2>2, <2>3
<1>4. CASE Exit(c)
  <2> DEFINE st == [env_status EXCEPT ![curenv[c]] = "FREE"]
  <2>1. st \in [Envs -> Statuses] BY <1>1 DEF Statuses
  <2>2. \A e \in Envs : \/ st[e] = env_status[e]
                        \/ e = curenv[c] /\ st[e] \in {"NOT_RUNNABLE", "FREE"}
    BY <1>1
  <2>3. SchedYield(c, NULL, st) /\ ~monitor BY <1>4 DEF Exit, Running
  <2> HIDE DEF st
  <2> QED BY <1>1, <2>1, <2>2, <2>3
<1> QED BY <1>2, <1>3, <1>4

-----------------------------------------------------------------------------
LEMMA InitTypes == Init => TypeOK
<1> SUFFICES ASSUME Init PROVE TypeOK
  OBVIOUS
<1>1. env_status \in [Envs -> Statuses] BY DEF Init, Statuses
<1>2. env_priority \in [Envs -> Priorities] BY ConstantTypes DEF Init
<1>3. scheduler_calls \in 0 .. BOOST_INTERVAL BY ConstantTypes DEF Init
<1>4. history_index \in 0 .. Beyond BY ConstantTypes DEF Init, Beyond
<1> QED BY <1>1, <1>2, <1>3, <1>4 DEF Init, TypeOK

(* The system calls after which the environment goes on. *)
LEMMA CallsTypes ==
  ASSUME TypeOK, NEW c \in CPUs, Unblock(c) \/ Fork(c) \/ SetPriority(c)
  PROVE  TypeOK'
<1>1. CASE Unblock(c) BY <1>1 DEF Unblock, GoOn, TypeOK, Statuses
<1>2. CASE Fork(c)
  <2>1. curenv[c] \in Envs BY <1>2 DEF Fork, Running, TypeOK
  <2>2. env_priority[curenv[c]] \in Priorities BY <2>1 DEF TypeOK
  <2> QED BY <1>2, <2>2 DEF Fork, GoOn, TypeOK, Statuses
<1>3. CASE SetPriority(c) BY <1>3 DEF SetPriority, GoOn, TypeOK
<1> QED BY <1>1, <1>2, <1>3

LEMMA NextTypes == TypeOK /\ [Next]_vars => TypeOK'
<1> SUFFICES ASSUME TypeOK, [Next]_vars PROVE TypeOK'
  OBVIOUS
<1>1. ASSUME NEW c \in CPUs, Tick(c) \/ Block(c) \/ Exit(c) PROVE TypeOK'
  BY <1>1, Entries, VisitsTypes
<1>2. ASSUME NEW c \in CPUs, Unblock(c) \/ Fork(c) \/ SetPriority(c) PROVE TypeOK'
  BY <1>2, CallsTypes
<1>3. CASE UNCHANGED vars BY <1>3 DEF vars, TypeOK
<1> QED BY <1>1, <1>2, <1>3 DEF Next

(* The types: no sequence of boosts, degradations and system calls takes a *)
(* priority outside its bounds, nor the counts when the history overruns.  *)
THEOREM Types == Spec => []TypeOK
  BY InitTypes, NextTypes, PTL DEF Spec

-----------------------------------------------------------------------------
(* Which CPU runs what: an environment that is current on a CPU is RUNNING *)
(* and current on no other, as long as no CPU is in the monitor.           *)
Owned ==
  monitor \/ \A c \in CPUs : curenv[c] # NULL =>
                /\ env_status[curenv[c]] = "RUNNING"
                /\ \A d \in CPUs : d # c => curenv[d] # curenv[c]

(* What an entry knows of the statuses it gives to the scheduler. *)
Entered(c, cur, st) ==
  /\ SchedYield(c, cur, st) /\ ~monitor
  /\ cur = curenv[c] \/ cur = NULL
  /\ \A e \in Envs : \/ st[e] = env_status[e]
                     \/ e = curenv[c] /\ st[e] \in {"NOT_RUNNABLE", "FREE"}

LEMMA OwnedVisit ==
  ASSUME TypeOK, Owned, NEW c \in CPUs, NEW cur \in Envs \cup {NULL},
         NEW st \in [Envs -> Statuses], Entered(c, cur, st)
  PROVE  Owned'
<1>1. curenv \in [CPUs -> Envs \cup {NULL}] /\ NULL \notin Envs
  BY ConstantTypes DEF TypeOK
<1>2. \A d \in CPUs : d # c /\ curenv[d] # NULL =>
        /\ curenv[d] \in Envs /\ curenv[d] # curenv[c] /\ curenv[d] # cur
        /\ st[curenv[d]] = "RUNNING"
  BY <1>1 DEF Owned, Entered
<1>3. \A d, x \in CPUs : d # c /\ x # c /\ d # x /\ curenv[d] # NULL => curenv[x] # curenv[d]
  BY DEF Owned, Entered
<1>4. ASSUME NEW b \in Envs, EnvRun(c, b, cur, st),
             \A d \in CPUs : d # c => curenv[d] # b
      PROVE  Owned'
  <2>1. curenv' = [curenv EXCEPT ![c] = b] /\ env_status'[b] = "RUNNING"
    BY <1>4 DEF EnvRun
  <2>2. \A d \in CPUs : d # c /\ curenv[d] # NULL => env_status'[curenv[d]] = "RUNNING"
    BY <1>2, <1>4 DEF EnvRun
  <2> QED BY <1>1, <1>3, <1>4, <2>1, <2>2 DEF Owned
<1>5. ASSUME NEW b \in Envs, Chosen(c, b, cur, st) PROVE Owned'
  <2>1. st[b] = "RUNNABLE" BY <1>5 DEF Chosen, BestPriority
  <2>2. \A d \in CPUs : d # c => curenv[d] # b BY <1>1, <1>2, <2>1
  <2> QED BY <1>4, <1>5, <2>2 DEF Chosen
<1>6. CASE cur \in Envs /\ EnvRun(c, cur, cur, st)
  <2>1. \A d \in CPUs : d # c => curenv[d] # cur BY <1>1, <1>2, <1>6
  <2> QED BY <1>4, <1>6, <2>1
<1>7. CASE SchedHalt(c, cur, st)
  <2>1. env_status' = st BY <1>7 DEF SchedHalt
  <2>2. monitor' \/ curenv' = [curenv EXCEPT ![c] = NULL] BY <1>7 DEF SchedHalt
  <2> QED BY <1>1, <1>2, <1>3, <2>1, <2>2 DEF Owned
<1> QED BY <1>5, <1>6, <1>7, Visits DEF Entered, NobodyElse

LEMMA OwnedCalls ==
  ASSUME TypeOK, Owned, NEW c \in CPUs, Unblock(c) \/ Fork(c) \/ SetPriority(c)
  PROVE  Owned'
<1>1. /\ curenv \in [CPUs -> Envs \cup {NULL}] /\ env_status \in [Envs -> Statuses]
      /\ UNCHANGED <<curenv, monitor>> /\ ~monitor
  BY DEF TypeOK, Unblock, Fork, SetPriority, GoOn, Running
<1>2. ASSUME NEW e \in Envs, env_status[e] = "RUNNING" PROVE env_status'[e] = "RUNNING"
  BY <1>1, <1>2 DEF Unblock, Fork, SetPriority
<1> QED BY <1>1, <1>2 DEF Owned

LEMMA Ownership == Spec => []Owned
<1>1. Init => Owned BY DEF Init, Owned
<1>2. TypeOK /\ Owned /\ [Next]_vars => Owned'
  <2> SUFFICES ASSUME TypeOK, Owned, [Next]_vars PROVE Owned'
    OBVIOUS
  <2>1. ASSUME NEW c \in CPUs, Tick(c) \/ Block(c) \/ Exit(c) PROVE Owned'
    BY <2>1, Entries, OwnedVisit DEF Entered
  <2>2. ASSUME NEW c \in CPUs, Unblock(c) \/ Fork(c) \/ SetPriority(c) PROVE Owned'
    BY <2>2, OwnedCalls
  <2>3. CASE UNCHANGED vars BY <2>3 DEF vars, Owned
  <2> QED BY <2>1, <2>2, <2>3 DEF Next
<1> QED BY <1>1, <1>2, Types, PTL DEF Spec

(* What the scheduler compares is the standing of the candidates. *)
LEMMA StandingBoosted ==
  ASSUME TypeOK, NEW st \in [Envs -> Statuses], NEW e \in Envs, st[e] # "FREE"
  PROVE  Boosted(st)[e] = Standing(e)
<1>1. CountCall >= BOOST_INTERVAL <=> BoostDue
  BY SchedAssumption DEF CountCall, BoostDue, TypeOK
<1>2. CASE BoostDue BY <1>1, <1>2, BoostedTypes DEF Standing
<1>3. CASE ~BoostDue BY <1>1, <1>3 DEF Standing, Boosted
<1> QED BY <1>2, <1>3

(* One visit: whom a CPU changes to, and when it halts. *)
Choice(c, chosen) ==
  /\ curenv[c] # NULL /\ chosen = NULL => \A e \in Envs : env_status[e] # "RUNNABLE"
  /\ chosen # curenv[c] /\ chosen # NULL =>
       /\ env_status[chosen] = "RUNNABLE"
       /\ \A d \in CPUs : curenv[d] # chosen
       /\ \A e \in Envs : env_status[e] = "RUNNABLE" => Standing(e) <= Standing(chosen)
       /\ env_priority'[chosen] <= Standing(chosen)
       /\ Standing(chosen) <= env_priority'[chosen] + 1

LEMMA VisitChooses ==
  ASSUME TypeOK, Owned, NEW c \in CPUs, NEW cur \in Envs \cup {NULL},
         NEW st \in [Envs -> Statuses], Entered(c, cur, st), NEW d \in CPUs
  PROVE  Choice(d, curenv'[d])
<1>0. curenv \in [CPUs -> Envs \cup {NULL}] /\ NULL \notin Envs
  BY ConstantTypes DEF TypeOK
<1>1. \A e \in Envs : st[e] = "RUNNABLE" <=> env_status[e] = "RUNNABLE"
  BY <1>0 DEF Entered, Owned
<1>2. ASSUME NEW b \in Envs, Chosen(c, b, cur, st) PROVE Choice(d, curenv'[d])
  <2>1. curenv' = [curenv EXCEPT ![c] = b] BY <1>2 DEF Chosen, EnvRun
  <2>2. CASE d # c
    <3>1. curenv'[d] = curenv[d] BY <1>0, <2>1, <2>2
    <3> QED BY <3>1 DEF Choice
  <2>3. CASE d = c
    <3>1. curenv'[d] = b /\ b # NULL BY <1>0, <2>1, <2>3
    <3>2. st[b] = "RUNNABLE" /\ env_status[b] = "RUNNABLE"
      BY <1>1, <1>2 DEF Chosen, BestPriority
    <3>3. \A x \in CPUs : curenv[x] # b BY <1>0, <3>2 DEF Owned, Entered
    <3>4. \A e \in Envs : st[e] = "RUNNABLE" =>
            /\ Boosted(st)[e] = Standing(e) /\ Boosted(st)[e] \in Nat
      BY StandingBoosted, BoostedTypes, ConstantTypes
    <3>5. ASSUME NEW e \in Envs, env_status[e] = "RUNNABLE"
          PROVE  Standing(e) <= Standing(b)
      <4>1. st[e] = "RUNNABLE" BY <1>1, <3>5
      <4>2. Boosted(st)[e] < Boosted(st)[b] \/ Boosted(st)[e] = Boosted(st)[b]
        BY <1>2, <4>1 DEF Chosen, BestPriority
      <4> QED BY <3>2, <3>4, <4>1, <4>2
    <3>6. env_priority'[b] <= Standing(b) /\ Standing(b) <= env_priority'[b] + 1
      BY <1>2, <3>2, <3>4 DEF Chosen, LosesALevel
    <3> QED BY <3>1, <3>2, <3>3, <3>5, <3>6 DEF Choice
  <2> QED BY <2>2, <2>3
<1>3. ASSUME NobodyElse(c, cur, st) PROVE Choice(d, curenv'[d])
  <2>1. \A e \in Envs : env_status[e] # "RUNNABLE" BY <1>1, <1>3 DEF NobodyElse
  <2>2. curenv'[d] = curenv[d] \/ curenv'[d] = NULL
    <3>1. CASE cur \in Envs /\ EnvRun(c, cur, cur, st)
      <4>1. curenv' = [curenv EXCEPT ![c] = cur] /\ cur = curenv[c]
        BY <1>0, <3>1 DEF EnvRun, Entered
      <4> QED BY <1>0, <4>1
    <3>2. CASE SchedHalt(c, cur, st) BY <1>0, <3>2 DEF SchedHalt, Entered
    <3> QED BY <1>3, <3>1, <3>2 DEF NobodyElse
  <2> QED BY <2>1, <2>2 DEF Choice
<1> QED BY <1>2, <1>3, Visits DEF Entered

(* A CPU changes only to a RUNNABLE environment that no CPU runs and whose *)
(* priority, boosted when the boost is due, no other RUNNABLE one exceeds; *)
(* it halts only if nobody is RUNNABLE (sched.c:71-81,109-136).            *)
THEOREM MostImportantChosenHolds == Spec => MostImportantChosen
<1>1. ASSUME TypeOK, Owned, [Next]_vars PROVE \A c \in CPUs : Choice(c, curenv'[c])
  <2>1. ASSUME NEW d \in CPUs, UNCHANGED curenv PROVE Choice(d, curenv'[d])
    BY <2>1 DEF Choice
  <2>2. ASSUME NEW c \in CPUs, Tick(c) \/ Block(c) \/ Exit(c), NEW d \in CPUs
        PROVE  Choice(d, curenv'[d])
    BY <1>1, <2>2, Entries, VisitChooses DEF Entered
  <2> QED BY <1>1, <2>1, <2>2 DEF Next, vars, Unblock, Fork, SetPriority, GoOn
<1>2. TypeOK /\ Owned /\ [Next]_vars => [\A c \in CPUs : Choice(c, curenv'[c])]_vars
  BY <1>1
<1> QED BY <1>2, Types, Ownership, PTL DEF Spec, MostImportantChosen, Choice

(* One visit raises a priority only if it boosts everybody. *)
LEMMA VisitRaises ==
  ASSUME TypeOK, NEW c \in CPUs, NEW cur \in Envs \cup {NULL},
         NEW st \in [Envs -> Statuses], SchedYield(c, cur, st),
         NEW e \in Envs, env_priority'[e] > env_priority[e]
  PROVE  /\ BoostDue
         /\ \A f \in Envs : env_status'[f] \in {"RUNNABLE", "NOT_RUNNABLE"} =>
              env_priority'[f] > env_priority[f] \/ env_priority[f] = MAX_PRIORITY
<1> DEFINE pr == Boosted(st)
<1>1. \A f \in Envs : env_priority[f] \in Nat /\ pr[f] \in Nat /\ env_priority[f] <= MAX_PRIORITY
  <2>1. env_priority \in [Envs -> Priorities] BY DEF TypeOK
  <2>2. \A n \in Priorities : n \in Nat /\ n <= MAX_PRIORITY
    BY ConstantTypes DEF Priorities, MIN_PRIORITY
  <2> QED BY <2>1, <2>2, BoostedTypes
<1>2. \E b : /\ \A f \in Envs : f # b => env_priority'[f] = pr[f]
             /\ b \in Envs => env_status'[b] = "RUNNING" /\ env_priority'[b] <= pr[b]
                              /\ env_priority'[b] \in Nat
  <2>1. ASSUME NEW b \in Envs, Chosen(c, b, cur, st)
        PROVE  /\ \A f \in Envs : f # b => env_priority'[f] = pr[f]
               /\ env_status'[b] = "RUNNING" /\ env_priority'[b] <= pr[b]
               /\ env_priority'[b] \in Nat
    <3>1. LosesALevel(b, pr) /\ EnvRun(c, b, cur, st) BY <2>1 DEF Chosen
    <3>2. env_status'[b] = "RUNNING" BY <3>1 DEF EnvRun
    <3> HIDE DEF pr
    <3> QED BY <3>1, <3>2, ConstantTypes DEF LosesALevel
  <2>2. ASSUME NobodyElse(c, cur, st)
        PROVE  /\ \A f \in Envs : f # NULL => env_priority'[f] = pr[f]
               /\ NULL \notin Envs
    BY <2>2, ConstantTypes DEF NobodyElse
  <2> HIDE DEF pr
  <2> QED BY <2>1, <2>2, Visits
<1>3. PICK b : /\ \A f \in Envs : f # b => env_priority'[f] = pr[f]
               /\ b \in Envs => env_status'[b] = "RUNNING" /\ env_priority'[b] <= pr[b]
                                /\ env_priority'[b] \in Nat
  BY <1>2
<1>4. pr[e] = env_priority[e] + 1 /\ CountCall >= BOOST_INTERVAL
  <2>1. pr[e] # env_priority[e] BY <1>1, <1>3
  <2> QED BY <2>1, BoostedTypes
<1>6. BoostDue
  BY <1>4, SchedAssumption DEF CountCall, BoostDue, TypeOK
<1>7. ASSUME NEW f \in Envs, env_status'[f] \in {"RUNNABLE", "NOT_RUNNABLE"}
      PROVE  env_priority'[f] > env_priority[f] \/ env_priority[f] = MAX_PRIORITY
  <2>1. f # b BY <1>3, <1>7
  <2>2. st[f] # "FREE"
    <3>1. ASSUME NEW x \in Envs, EnvRun(c, x, cur, st) PROVE st[f] # "FREE"
      BY <1>7, <3>1 DEF EnvRun
    <3>2. ASSUME SchedHalt(c, cur, st) PROVE st[f] # "FREE"
      BY <1>7, <3>2 DEF SchedHalt
    <3> QED BY <3>1, <3>2, Visits DEF Chosen, NobodyElse
  <2>3. pr[f] = IF env_priority[f] < MAX_PRIORITY THEN env_priority[f] + 1 ELSE env_priority[f]
    BY <1>4, <2>2, BoostedTypes
  <2> HIDE DEF pr
  <2> QED BY <1>1, <1>3, <2>1, <2>3, ConstantTypes
<1> QED BY <1>6, <1>7

(* Nobody becomes more important by what it does itself: a priority rises  *)
(* only when the boost is due, and it passes over nobody who waits after   *)
(* it, RUNNABLE or blocked (sched.c:47-56,104-107, syscall.c:433-442).     *)
THEOREM OnlyBoostRaisesHolds == Spec => OnlyBoostRaises
<1> DEFINE A == \A e \in Envs :
                  env_status[e] # "FREE" /\ env_priority'[e] > env_priority[e] =>
                    /\ BoostDue
                    /\ \A f \in Envs : env_status'[f] \in {"RUNNABLE", "NOT_RUNNABLE"} =>
                         env_priority'[f] > env_priority[f] \/ env_priority[f] = MAX_PRIORITY
<1>1. ASSUME TypeOK, [Next]_vars PROVE A
  <2> SUFFICES ASSUME NEW e \in Envs, env_status[e] # "FREE",
                      env_priority'[e] > env_priority[e]
               PROVE  /\ BoostDue
                      /\ \A f \in Envs : env_status'[f] \in {"RUNNABLE", "NOT_RUNNABLE"} =>
                           env_priority'[f] > env_priority[f] \/ env_priority[f] = MAX_PRIORITY
    OBVIOUS
  <2>0. env_priority[e] \in Nat BY <1>1, ConstantTypes DEF TypeOK
  <2>1. ASSUME NEW c \in CPUs, Fork(c) PROVE FALSE
    BY <1>1, <2>0, <2>1 DEF Fork, TypeOK
  <2>2. ASSUME NEW c \in CPUs, SetPriority(c) PROVE FALSE
    <3>1. PICK p \in Priorities : /\ p <= env_priority[curenv[c]]
                                  /\ env_priority' = [env_priority EXCEPT ![curenv[c]] = p]
      BY <2>2 DEF SetPriority
    <3>2. p \in Nat BY ConstantTypes
    <3>3. env_priority'[e] = env_priority[e] \/ (e = curenv[c] /\ env_priority'[e] = p)
      BY <1>1, <3>1 DEF TypeOK
    <3> QED BY <2>0, <3>1, <3>2, <3>3
  <2>3. PICK c \in CPUs : Tick(c) \/ Block(c) \/ Exit(c)
    <3>1. env_priority' # env_priority BY <2>0
    <3> QED BY <1>1, <2>1, <2>2, <3>1 DEF Next, vars, Unblock
  <2>4. PICK cur \in Envs \cup {NULL}, st \in [Envs -> Statuses] : SchedYield(c, cur, st)
    BY <1>1, <2>3, Entries
  <2> QED BY <1>1, <2>4, VisitRaises
<1>2. TypeOK /\ [Next]_vars => [A]_vars BY <1>1
<1> QED BY <1>2, Types, PTL DEF Spec, OnlyBoostRaises
=============================================================================
