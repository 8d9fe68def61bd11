--------------------------- MODULE MdxSchedProofs ---------------------------
(***************************************************************************)
(* Proofs about the scheduler, the semaphore and the mutex: where every    *)
(* thread is, that no assertion fails, and that permits are kept.          *)
(*                                                                         *)
(* SchedInv is inductive for every number of CPUs, threads and priorities. *)
(* LocInv follows a thread from the CPU to the run queue, the list of the  *)
(* semaphore or the callout that will make it ready, through the steps of  *)
(* mdx_sem_post, the timeout and the exception handler that race for it:   *)
(* who has claimed it, which callout may be pending on its td_c, and what  *)
(* state it is then in.  PermitInv counts the permits on top of that.      *)
(***************************************************************************)
EXTENDS MdxSched, ListTheorems

WaitLabels == {"wait_yield", "wait_ret"}
PostLabels == {"post_spin", "post_cancel", "post_add"}
ThreadLabels ==
  WaitLabels \cup PostLabels \cup
    {"user", "wait_lock", "wait_block", "own", "post_lock", "sleep_yield",
     "yield", "exit_yield", "not_reached"}
HandlerLabels == {"none", "callback", "sem_cb", "park", "next"}
Times == {"none", "wait", "timedwait", "shortwait"}
CalloutTypes == [td : Threads, kind : {"quantum", "sem", "sleep"}, cpu : CPUs]

\* The types of the state that says where threads are.
PlaceTypes ==
  /\ pcpu_list \in Seq(CPUs)
  /\ pending_ipis \subseteq CPUs
  /\ td_state \in [AllThreads -> States]
  /\ alive \subseteq Threads
  /\ curthread \in [CPUs -> AllThreads \cup {NULL}]
  /\ hpc \in [CPUs -> HandlerLabels]
  /\ cbtd \in [CPUs -> Threads \cup {NULL}]
  /\ tpc \in [AllThreads -> ThreadLabels \cup {"boot", "idle"}]
  /\ callouts \subseteq CalloutTypes
  /\ td_c_cpu \in [Threads -> CPUs]
  /\ armed \subseteq CPUs
  /\ td_list \in Seq(Threads)
  /\ sem_lock \in Threads \cup {NULL}
  /\ usec \in [Threads -> Times]
  /\ timeout \in [Threads -> BOOLEAN]
  /\ target \in [Threads -> Threads \cup {NULL}]
  /\ \A t \in Threads : tpc[t] \in ThreadLabels
  /\ \A c \in CPUs : tpc[c] \in {"boot", "idle"} /\ td_state[c] = "READY"

\* A run queue holds threads of its priority, each of them once.
RunQueue ==
  /\ runq \in [0 .. NPrio - 1 -> Seq(AllThreads)]
  /\ \A p \in 0 .. NPrio - 1 :
       Once(runq[p]) /\ \A t \in AllThreads : On(runq[p], t) => PrioOf(t) = p

\* A thread is current on one CPU, and the handler has a thread to return to.
Handlers ==
  /\ \A c \in CPUs :
       /\ hpc[c] = "none" => curthread[c] # NULL
       /\ hpc[c] = "next" => curthread[c] = NULL
       /\ cbtd[c] # NULL <=> hpc[c] = "sem_cb"
  /\ \A c, d \in CPUs : curthread[c] = curthread[d] /\ curthread[c] # NULL => c = d

InQueue(t) == On(runq[PrioOf(t)], t)
Waits(t) == On(td_list, t)

\* The states of a thread that is on a CPU.
Running ==
  \A c \in CPUs, t \in Threads : curthread[c] = t =>
    /\ t \in alive
    /\ hpc[c] = "none" =>
         \/ td_state[t] = "RUNNING"
         \/ td_state[t] = "SEM_WAIT" /\ tpc[t] = "wait_yield"
         \/ td_state[t] = "SLEEPING" /\ tpc[t] = "sleep_yield"
         \/ td_state[t] = "YIELDING" /\ tpc[t] = "yield"
         \/ td_state[t] = "TERMINATING" /\ tpc[t] = "exit_yield"
    /\ hpc[c] # "none" => td_state[t] \in {"RUNNING", "READY", "YIELDING"}
    /\ t \in Preemptive => td_c_cpu[t] = c

\* A thread that is ready is nowhere else and has no callout.
Ready ==
  /\ \A t \in AllThreads : InQueue(t) => \A c \in CPUs : curthread[c] # t
  /\ \A t \in Threads : InQueue(t) =>
       /\ t \in alive /\ td_state[t] \in {"READY", "YIELDING", "WAKEUP", "ACK"}
       /\ ~Waits(t)
       /\ \A u \in Threads : target[u] # t
       /\ \A k \in callouts : k.td # t

\* The threads on the list of the semaphore.
Waiting ==
  /\ Once(td_list)
  /\ \A t \in Threads : Waits(t) =>
       /\ t \in alive /\ td_state[t] \in {"SEM_WAIT", "ACK"}
       /\ tpc[t] \in WaitLabels /\ ~timeout[t]
       /\ \A u \in Threads : target[u] # t

\* The thread that a mdx_sem_post of u has taken off that list.
ClaimOf(u) ==
  /\ target[u] # NULL <=> tpc[u] \in PostLabels
  /\ target[u] # NULL =>
       /\ target[u] \in alive
       /\ tpc[u] = "post_spin" => td_state[target[u]] \in {"SEM_WAIT", "ACK"}
       /\ tpc[u] \in {"post_cancel", "post_add"} =>
            td_state[target[u]] \in {"SEM_UNLOCK", "SEM_UNLOCK_ACK"}
       /\ tpc[u] = "post_add" =>
            /\ \A k \in callouts : k.td # target[u]
            /\ \A c \in CPUs : cbtd[c] # target[u]

Claiming ==
  /\ \A u \in Threads : ClaimOf(u)
  /\ \A u, v \in Threads : target[u] = target[v] /\ target[u] # NULL => u = v

\* The lock of the semaphore is held exactly here, and code that is not
\* interrupted is on a CPU that runs it.
Locking ==
  \A t \in Threads :
    /\ sem_lock = t <=> tpc[t] \in {"wait_block", "post_spin"}
    /\ tpc[t] \notin Interruptible \cup {"not_reached"} =>
         \E c \in CPUs : curthread[c] = t /\ hpc[c] = "none"

\* t waits for the semaphore or for a post that has not cancelled its timeout.
Timed(t) ==
  /\ t \in alive /\ usec[t] = "timedwait" /\ ~timeout[t]
  /\ \/ Waits(t)
     \/ \E u \in Threads : target[u] = t /\ tpc[u] \in {"post_spin", "post_cancel"}

\* The quantum runs while the thread does.
QuantumOf(k) ==
  /\ k.td \in Preemptive
  /\ curthread[k.cpu] = k.td /\ td_state[k.td] = "RUNNING"

\* The timeout of a wait is set on td_c of a thread that still waits.
TimeoutOf(k) ==
  /\ Timed(k.td) /\ td_c_cpu[k.td] = k.cpu
  /\ td_state[k.td] \in {"SEM_WAIT", "ACK", "SEM_UNLOCK"}
  /\ td_state[k.td] = "SEM_WAIT" => curthread[k.cpu] = k.td

\* The end of a sleep.
SleepOf(k) ==
  /\ k.td \in alive /\ td_state[k.td] \in {"SLEEPING", "ACK"}
  /\ td_state[k.td] = "SLEEPING" => curthread[k.cpu] = k.td
  /\ ~Waits(k.td) /\ \A u \in Threads : target[u] # k.td

\* mdx_sem_cb is running for a thread that still waits.
SemCbOf(c) ==
  /\ Timed(cbtd[c]) /\ td_c_cpu[cbtd[c]] = c
  /\ td_state[cbtd[c]] \in {"ACK", "SEM_UNLOCK"}
  /\ \A k \in callouts : k.td # cbtd[c]

\* A thread has one callout at most: its quantum while it runs, or the one that
\* ends its wait or its sleep.
Pending ==
  /\ \A k, l \in callouts : k.td = l.td => k = l
  /\ \A k \in callouts : /\ k.kind = "quantum" => QuantumOf(k)
                         /\ k.kind = "sem" => TimeoutOf(k)
                         /\ k.kind = "sleep" => SleepOf(k)
  /\ \A c \in CPUs : hpc[c] = "sem_cb" => SemCbOf(c)

\* t waits for something that will make it ready.
Parked(t) ==
  \/ Waits(t)
  \/ \E u \in Threads : target[u] = t
  \/ \E k \in callouts : k.td = t /\ k.kind = "sleep"

\* No thread is lost.
Located ==
  /\ \A t \in alive : \/ \E c \in CPUs : curthread[c] = t
                      \/ InQueue(t)
                      \/ Parked(t)
  /\ \A t \in CPUs : InQueue(t) \/ \E c \in CPUs : curthread[c] = t
  /\ \A t \in Threads :
       /\ td_state[t] \in {"SEM_WAIT", "SLEEPING"} => Parked(t)
       /\ td_state[t] = "SEM_WAIT" => \E c \in CPUs : curthread[c] = t

\* What a thread that has been freed was doing, and when a wait has timed out.
Ended ==
  \A t \in Threads :
    /\ t \notin alive => tpc[t] \in {"user", "exit_yield", "not_reached"}
    /\ timeout[t] => usec[t] = "timedwait" /\ tpc[t] \in WaitLabels

\* The list of available CPUs.
Available ==
  /\ Once(pcpu_list)
  /\ \A c \in CPUs :
       /\ On(pcpu_list, c) => hpc[c] = "none" /\ Idle(curthread[c])
       /\ hpc[c] = "none" /\ Idle(curthread[c]) /\ tpc[curthread[c]] = "idle" =>
            On(pcpu_list, c)

\* The inductive invariant about where threads are.
LocInv ==
  /\ PlaceTypes /\ RunQueue /\ Handlers /\ Running /\ Ready /\ Waiting
  /\ Claiming /\ Locking /\ Pending /\ Located /\ Ended /\ Available

\* The owner of a mutex is recorded.
Owning ==
  /\ Mutex => issued = 1
  /\ \A t \in Threads :
       /\ tpc[t] = "own" => Mutex /\ holding[t] > 0
       /\ Mutex /\ holding[t] > 0 /\ tpc[t] # "own" => m_td = t

\* The types of the numbers.
Numbers ==
  /\ sem_count \in 0 .. MaxIssued
  /\ m_td \in Threads \cup {NULL}
  /\ holding \in [Threads -> 0 .. MaxIssued]
  /\ issued \in InitCount .. MaxIssued

PermitInv == Numbers /\ Owning /\ PermitsConserved

-----------------------------------------------------------------------------
(***************************************************************************)
(* Helpers.                                                                *)
(***************************************************************************)

\* Every thread has a priority of the run queue.
LEMMA PrioRange ==
  ASSUME NEW t \in AllThreads
  PROVE  PrioOf(t) \in 0 .. NPrio - 1
<1>1. CASE t \in CPUs
  BY <1>1, SchedAssumption DEF PrioOf, Idle
<1>2. CASE t \notin CPUs
  <2>1. t \in Threads  BY <1>2 DEF AllThreads
  <2>2. Prio[t] \in 1 .. NPrio - 1  BY <2>1, SchedAssumption
  <2> QED  BY <1>2, <2>2, SchedAssumption DEF PrioOf, Idle
<1> QED  BY <1>1, <1>2

\* What mdx_sched_add does to the run queue.
LEMMA AddToQueue ==
  ASSUME RunQueue, PlaceTypes, NEW t \in AllThreads, ~InQueue(t), mdx_sched_add(t)
  PROVE  /\ RunQueue'
         /\ pending_ipis' \subseteq CPUs
         /\ \A u \in AllThreads :
              On(runq'[PrioOf(u)], u) <=> On(runq[PrioOf(u)], u) \/ u = t
<1> DEFINE P == 0 .. NPrio - 1
           z == PrioOf(t)
<1>1. z \in P /\ runq \in [P -> Seq(AllThreads)]
  BY PrioRange DEF RunQueue
<1>2. runq[z] \in Seq(AllThreads) /\ Once(runq[z]) /\ ~On(runq[z], t)
  BY <1>1 DEF RunQueue, InQueue
<1>3. runq' = [runq EXCEPT ![z] = Append(runq[z], t)]
  BY DEF mdx_sched_add
<1>4. /\ Append(runq[z], t) \in Seq(AllThreads)
      /\ Once(Append(runq[z], t))
      /\ \A x : On(Append(runq[z], t), x) <=> On(runq[z], x) \/ x = t
  <2> HIDE DEF z
  <2> QED  BY <1>2, AppendList
<1>5. /\ runq' \in [P -> Seq(AllThreads)]
      /\ runq'[z] = Append(runq[z], t)
      /\ \A p \in P : p # z => runq'[p] = runq[p]
  <2> HIDE DEF z, P
  <2> QED  BY <1>1, <1>3, <1>4
<1>6. pending_ipis' \subseteq CPUs
  <2>1. pcpu_list # <<>> => Head(pcpu_list) \in CPUs
    BY HeadTailList DEF PlaceTypes
  <2> QED  BY <2>1 DEF PlaceTypes, mdx_sched_add, send_ipi
<1>7. \A p \in P : Once(runq'[p])
  BY <1>4, <1>5 DEF RunQueue
<1>8. ASSUME NEW p \in P, NEW u \in AllThreads
      PROVE  On(runq'[p], u) <=> On(runq[p], u) \/ (u = t /\ p = z)
  BY <1>4, <1>5
<1>9. \A u \in AllThreads : PrioOf(u) \in P
  BY PrioRange
<1>10. \A u \in AllThreads :
         On(runq'[PrioOf(u)], u) <=> On(runq[PrioOf(u)], u) \/ u = t
  BY <1>8, <1>9
<1>11. \A p \in P : \A u \in AllThreads : On(runq'[p], u) => PrioOf(u) = p
  BY <1>8 DEF RunQueue
<1> QED  BY <1>5, <1>6, <1>7, <1>10, <1>11 DEF RunQueue

\* The run queue does not change.
LEMMA SameQueue ==
  ASSUME RunQueue, runq' = runq
  PROVE  RunQueue'
BY DEF RunQueue

\* The fields of a pending callout.
LEMMA CalloutFields ==
  ASSUME PlaceTypes
  PROVE  \A k \in callouts :
           k.td \in Threads /\ k.kind \in {"quantum", "sem", "sleep"} /\ k.cpu \in CPUs
BY DEF PlaceTypes, CalloutTypes

\* The kinds of thread do not overlap.
LEMMA Kinds ==
  /\ CPUs \cap Threads = {} /\ NULL \notin CPUs /\ NULL \notin Threads
  /\ AllThreads = Threads \cup CPUs
BY SchedAssumption DEF AllThreads

\* What moving a thread does to its program counter.
LEMMA GotoStep ==
  ASSUME PlaceTypes, NEW t \in Threads, NEW m \in ThreadLabels, Goto(t, m)
  PROVE  /\ tpc' \in [AllThreads -> ThreadLabels \cup {"boot", "idle"}]
         /\ tpc'[t] = m
         /\ \A u \in AllThreads : u # t => tpc'[u] = tpc[u]
         /\ \A u \in Threads : tpc'[u] \in ThreadLabels
         /\ \A d \in CPUs : tpc'[d] \in {"boot", "idle"}
BY Kinds DEF PlaceTypes, Goto

\* What an assignment to td->td_state does.
LEMMA StateStep ==
  ASSUME PlaceTypes, NEW t \in Threads, NEW s \in States,
         td_state' = [td_state EXCEPT ![t] = s]
  PROVE  /\ td_state' \in [AllThreads -> States]
         /\ td_state'[t] = s
         /\ \A u \in AllThreads : u # t => td_state'[u] = td_state[u]
         /\ \A d \in CPUs : td_state'[d] = "READY"
BY Kinds DEF PlaceTypes

\* t is on CPU c and nowhere else, and its only callout is its quantum.
OnlyOn(c, t) ==
  /\ hpc[c] = "none" /\ curthread[c] = t
  /\ td_state[t] = "RUNNING" /\ t \in alive
  /\ ~InQueue(t) /\ ~Waits(t)
  /\ \A u \in Threads : target[u] # t
  /\ \A d \in CPUs : curthread[d] = t => d = c
  /\ \A d \in CPUs : cbtd[d] # t
  /\ \A k \in callouts : k.td = t =>
       k.kind = "quantum" /\ k.cpu = c /\ t \in Preemptive

\* So it is with the thread of code that is not about to yield.
LEMMA AtRunning ==
  ASSUME LocInv, NEW c \in CPUs, NEW t \in Threads, NEW l,
         l \notin {"wait_yield", "sleep_yield", "yield", "exit_yield"},
         At(c, t, l)
  PROVE  tpc[t] = l /\ OnlyOn(c, t)
<1>1. hpc[c] = "none" /\ curthread[c] = t /\ tpc[t] = l
  BY DEF At
<1>2. td_state[t] = "RUNNING" /\ t \in alive
  BY <1>1 DEF LocInv, Running
<1>3. ~InQueue(t) /\ ~Waits(t)
  BY <1>1, <1>2, Kinds DEF LocInv, Ready, Waiting
<1>4. \A u \in Threads : target[u] # t
  BY <1>2, Kinds DEF LocInv, Claiming, ClaimOf, PostLabels
<1>5. \A d \in CPUs : curthread[d] = t => d = c
  BY <1>1, Kinds DEF LocInv, Handlers
<1>6. \A d \in CPUs : cbtd[d] # t
  BY <1>2, Kinds DEF LocInv, Handlers, Pending, SemCbOf
<1>7. \A k \in callouts : k.td = t =>
              k.kind = "quantum" /\ k.cpu = c /\ t \in Preemptive
  BY <1>2, <1>5, CalloutFields
     DEF LocInv, Pending, QuantumOf, TimeoutOf, SleepOf
<1> QED  BY <1>1, <1>2, <1>3, <1>4, <1>5, <1>6, <1>7 DEF OnlyOn

-----------------------------------------------------------------------------
(***************************************************************************)
(* Where threads are: one lemma per step, or two where its cases differ.   *)
(***************************************************************************)

\* The variables that say where the threads are, but for the program counter,
\* the lock and the locals of a wait.
placeVars ==
  <<runq, pcpu_list, pending_ipis, td_state, alive, curthread, hpc, cbtd,
    callouts, td_c_cpu, armed, td_list, target>>

\* Labels of thread code that neither yields nor has claimed another thread.
PlainLabels == {"user", "wait_lock", "own", "post_lock", "wait_ret"}

\* A thread goes from one plain place to another, and may take the lock of the
\* semaphore on its way to the list.
LEMMA PlainStep ==
  ASSUME LocInv, NEW c \in CPUs, NEW t \in Threads,
         NEW l \in PlainLabels, At(c, t, l),
         NEW m \in {"user", "wait_lock", "own", "post_lock", "wait_block"},
         Goto(t, m), UNCHANGED placeVars,
         usec' \in [Threads -> Times], timeout' \in [Threads -> BOOLEAN],
         ~timeout'[t],
         \A u \in Threads : u # t => usec'[u] = usec[u] /\ timeout'[u] = timeout[u],
         IF m = "wait_block" THEN sem_lock = NULL /\ sem_lock' = t
                             ELSE sem_lock' = sem_lock
  PROVE  LocInv'
<1>1. CPUs \cap Threads = {} /\ NULL \notin CPUs /\ NULL \notin Threads
      /\ AllThreads = Threads \cup CPUs
  BY Kinds
<1>2. tpc[t] = l /\ OnlyOn(c, t)
  BY AtRunning DEF PlainLabels
<1>3. /\ runq' = runq /\ pcpu_list' = pcpu_list /\ pending_ipis' = pending_ipis
      /\ td_state' = td_state /\ alive' = alive /\ curthread' = curthread
      /\ hpc' = hpc /\ cbtd' = cbtd /\ callouts' = callouts
      /\ td_c_cpu' = td_c_cpu /\ armed' = armed /\ td_list' = td_list
      /\ target' = target
  BY DEF placeVars
<1>4. /\ tpc' \in [AllThreads -> ThreadLabels \cup {"boot", "idle"}]
      /\ tpc'[t] = m
      /\ \A u \in AllThreads : u # t => tpc'[u] = tpc[u]
      /\ \A u \in Threads : tpc'[u] \in ThreadLabels
      /\ \A d \in CPUs : tpc'[d] \in {"boot", "idle"}
  BY GotoStep DEF LocInv, ThreadLabels
<1>a. PlaceTypes'
  BY <1>1, <1>2, <1>3, <1>4
     DEF LocInv, PlaceTypes, OnlyOn, ThreadLabels, PostLabels, WaitLabels
<1>b. RunQueue'
  BY <1>1, <1>2, <1>3, <1>4, SameQueue DEF LocInv
<1>c. Handlers'
  BY <1>1, <1>2, <1>3, <1>4
     DEF LocInv, Handlers
<1>d. Running'
  BY <1>1, <1>2, <1>3, <1>4
     DEF LocInv, Running, OnlyOn
<1>e. Ready'
  BY <1>1, <1>2, <1>3, <1>4
     DEF LocInv, Ready, InQueue, Waits
<1>f. Waiting'
  BY <1>1, <1>2, <1>3, <1>4
     DEF LocInv, Waiting, Waits, WaitLabels, OnlyOn
<1>g. Claiming'
  <2>1. ASSUME NEW u \in Threads  PROVE ClaimOf(u)'
    BY <1>1, <1>2, <1>3, <1>4
       DEF LocInv, PlaceTypes, Claiming, ClaimOf, PostLabels, OnlyOn, PlainLabels
  <2>2. \A u, v \in Threads : target'[u] = target'[v] /\ target'[u] # NULL => u = v
    BY <1>1, <1>2, <1>3, <1>4
       DEF LocInv, PlaceTypes, Claiming, ClaimOf, PostLabels, OnlyOn, PlainLabels
  <2> QED  BY <2>1, <2>2 DEF Claiming
<1>h. Locking'
  BY <1>1, <1>2, <1>3, <1>4
     DEF LocInv, Locking, Interruptible, OnlyOn, PlainLabels
<1>i. Pending'
  <2>0. \A j, k \in callouts' : j.td = k.td => j = k
    BY <1>1, <1>2, <1>3, <1>4, CalloutFields
       DEF LocInv, Pending
  <2>1. ASSUME NEW k \in callouts', k.kind = "quantum"  PROVE QuantumOf(k)'
    BY <1>1, <1>2, <1>3, <1>4, <2>1, CalloutFields
       DEF LocInv, Pending, QuantumOf
  <2>2. ASSUME NEW k \in callouts', k.kind = "sem"  PROVE TimeoutOf(k)'
    BY <1>1, <1>2, <1>3, <1>4, <2>2, CalloutFields
       DEF LocInv, Pending, TimeoutOf, Timed, Waits, OnlyOn, PlainLabels
  <2>3. ASSUME NEW k \in callouts', k.kind = "sleep"  PROVE SleepOf(k)'
    BY <1>1, <1>2, <1>3, <1>4, <2>3, CalloutFields
       DEF LocInv, Pending, SleepOf, Waits
  <2>4. ASSUME NEW d \in CPUs, hpc'[d] = "sem_cb"  PROVE SemCbOf(d)'
    BY <1>1, <1>2, <1>3, <1>4, <2>4
       DEF LocInv, PlaceTypes, Handlers, Pending, SemCbOf, Timed, Waits, OnlyOn, PlainLabels
  <2> QED  BY <1>1, <1>2, <1>3, <1>4, <2>0, <2>1, <2>2, <2>3, <2>4 DEF Pending
<1>j. Located'
  <2>1. ASSUME NEW u \in alive'
        PROVE  (\E d \in CPUs : curthread'[d] = u) \/ InQueue(u)' \/ Parked(u)'
    BY <1>1, <1>2, <1>3, <1>4
       DEF LocInv, Located, Parked, InQueue, Waits
  <2>2. ASSUME NEW u \in CPUs
        PROVE  InQueue(u)' \/ \E d \in CPUs : curthread'[d] = u
    BY <1>1, <1>2, <1>3, <1>4
       DEF LocInv, Located, Parked, InQueue, Waits
  <2>3. ASSUME NEW u \in Threads
        PROVE  /\ td_state'[u] \in {"SEM_WAIT", "SLEEPING"} => Parked(u)'
               /\ td_state'[u] = "SEM_WAIT" => \E d \in CPUs : curthread'[d] = u
    BY <1>1, <1>2, <1>3, <1>4
       DEF LocInv, Located, Parked, InQueue, Waits
  <2> QED  BY <2>1, <2>2, <2>3 DEF Located
<1>k. Ended'
  BY <1>1, <1>2, <1>3, <1>4
     DEF LocInv, Ended, WaitLabels, OnlyOn
<1>l. Available'
  BY <1>1, <1>2, <1>3, <1>4
     DEF LocInv, Available, Idle, OnlyOn
<1> QED  BY <1>a, <1>b, <1>c, <1>d, <1>e, <1>f, <1>g, <1>h, <1>i, <1>j, <1>k, <1>l
         DEF LocInv

\* mdx_sem_timedwait puts the thread on the list.
LEMMA WaitBlockStep ==
  ASSUME LocInv, NEW c \in CPUs, NEW t \in Threads, wait_block(c, t)
  PROVE  LocInv'
<1>1. CPUs \cap Threads = {} /\ NULL \notin CPUs /\ NULL \notin Threads
      /\ AllThreads = Threads \cup CPUs
  BY Kinds
<1>2. tpc[t] = "wait_block" /\ OnlyOn(c, t)
  BY AtRunning DEF wait_block
<1>3. /\ runq' = runq /\ pcpu_list' = pcpu_list /\ pending_ipis' = pending_ipis
      /\ alive' = alive /\ curthread' = curthread /\ hpc' = hpc
      /\ cbtd' = cbtd /\ target' = target /\ usec' = usec
  BY DEF wait_block, schedVars, threadVars, cpuVars, calloutVars, semVars,
     localVars, permitVars
<1>4. /\ tpc' \in [AllThreads -> ThreadLabels \cup {"boot", "idle"}]
      /\ tpc'[t] = "wait_yield"
      /\ \A u \in AllThreads : u # t => tpc'[u] = tpc[u]
      /\ \A u \in Threads : tpc'[u] \in ThreadLabels
      /\ \A d \in CPUs : tpc'[d] \in {"boot", "idle"}
  BY GotoStep DEF LocInv, ThreadLabels, WaitLabels, wait_block
<1>5. /\ td_state' \in [AllThreads -> States]
      /\ td_state'[t] = "SEM_WAIT"
      /\ \A u \in AllThreads : u # t => td_state'[u] = td_state[u]
      /\ \A d \in CPUs : td_state'[d] = "READY"
  BY StateStep DEF LocInv, wait_block, States
<1>6. /\ td_list' \in Seq(Threads) /\ Once(td_list')
      /\ \A u : On(td_list', u) <=> On(td_list, u) \/ u = t
  BY <1>2, AppendList DEF LocInv, PlaceTypes, Waiting, Waits, OnlyOn, wait_block
<1>7. /\ timeout' \in [Threads -> BOOLEAN] /\ ~timeout'[t]
      /\ \A u \in Threads : u # t => timeout'[u] = timeout[u]
      /\ sem_lock' = NULL
  BY DEF LocInv, PlaceTypes, wait_block
<1>8. /\ callouts' \subseteq CalloutTypes
      /\ td_c_cpu' \in [Threads -> CPUs] /\ armed' \subseteq CPUs
      /\ \A u \in Threads : u # t => td_c_cpu'[u] = td_c_cpu[u]
      /\ td_c_cpu'[t] \in {td_c_cpu[t], c}
      /\ \A k \in callouts : k.td # t => k \in callouts'
      /\ \A k \in callouts' :
           \/ k \in callouts /\ k.td # t
           \/ /\ k = Callout(t, "sem", c) /\ usec[t] = "timedwait"
              /\ td_c_cpu'[t] = c
  <2>1. CASE usec[t] = "timedwait"
    <3>1. /\ callouts' = (callouts \ Deadlines(t)) \cup {Callout(t, "sem", c)}
          /\ td_c_cpu' = [td_c_cpu EXCEPT ![t] = c] /\ armed' = armed \cup {c}
      BY <2>1 DEF wait_block, set_timeout
    <3>2. Callout(t, "sem", c) \in CalloutTypes
      BY DEF Callout, CalloutTypes
    <3>3. \A k \in callouts : k \in Deadlines(t) <=> k.td = t
      BY <1>2 DEF Deadlines, OnlyOn
    <3> QED  BY <2>1, <3>1, <3>2, <3>3 DEF LocInv, PlaceTypes
  <2>2. CASE usec[t] # "timedwait"
    <3>1. callouts' = callouts \ Deadlines(t) /\ td_c_cpu' = td_c_cpu /\ armed' = armed
      BY <2>2 DEF wait_block, set_timeout
    <3>3. \A k \in callouts : k \in Deadlines(t) <=> k.td = t
      BY <1>2 DEF Deadlines, OnlyOn
    <3> QED  BY <2>2, <3>1, <3>3 DEF LocInv, PlaceTypes
  <2> QED  BY <2>1, <2>2
<1>9. Callout(t, "sem", c).td = t /\ Callout(t, "sem", c).kind = "sem"
      /\ Callout(t, "sem", c).cpu = c
  BY DEF Callout
<1>a. PlaceTypes'
  BY <1>1, <1>2, <1>3, <1>4, <1>5, <1>6, <1>7, <1>8, <1>9
     DEF LocInv, PlaceTypes, OnlyOn
<1>b. RunQueue'
  BY <1>1, <1>2, <1>3, <1>4, <1>5, <1>6, <1>7, <1>8, <1>9, SameQueue DEF LocInv
<1>c. Handlers'
  BY <1>1, <1>2, <1>3, <1>4, <1>5, <1>6, <1>7, <1>8, <1>9
     DEF LocInv, Handlers
<1>d. Running'
  BY <1>1, <1>2, <1>3, <1>4, <1>5, <1>6, <1>7, <1>8, <1>9
     DEF LocInv, Running, OnlyOn
<1>e. Ready'
  BY <1>1, <1>2, <1>3, <1>4, <1>5, <1>6, <1>7, <1>8, <1>9
     DEF LocInv, Ready, InQueue, Waits, OnlyOn
<1>f. Waiting'
  BY <1>1, <1>2, <1>3, <1>4, <1>5, <1>6, <1>7, <1>8, <1>9
     DEF LocInv, Waiting, Waits, WaitLabels, OnlyOn
<1>g. Claiming'
  <2>1. ASSUME NEW u \in Threads  PROVE ClaimOf(u)'
    BY <1>1, <1>2, <1>3, <1>4, <1>5, <1>6, <1>7, <1>8, <1>9
       DEF LocInv, PlaceTypes, Claiming, ClaimOf, PostLabels, OnlyOn
  <2>2. \A u, v \in Threads : target'[u] = target'[v] /\ target'[u] # NULL => u = v
    BY <1>1, <1>2, <1>3, <1>4, <1>5, <1>6, <1>7, <1>8, <1>9
       DEF LocInv, PlaceTypes, Claiming, ClaimOf, PostLabels, OnlyOn
  <2> QED  BY <2>1, <2>2 DEF Claiming
<1>h. Locking'
  BY <1>1, <1>2, <1>3, <1>4, <1>5, <1>6, <1>7, <1>8, <1>9
     DEF LocInv, Locking, Interruptible, OnlyOn
<1>i. Pending'
  <2>0. \A k, l \in callouts' : k.td = l.td => k = l
    BY <1>1, <1>2, <1>3, <1>4, <1>5, <1>6, <1>7, <1>8, <1>9, CalloutFields
       DEF LocInv, Pending, OnlyOn
  <2>1. ASSUME NEW k \in callouts', k.kind = "quantum"  PROVE QuantumOf(k)'
    BY <1>1, <1>2, <1>3, <1>4, <1>5, <1>6, <1>7, <1>8, <1>9, <2>1, CalloutFields
       DEF LocInv, Pending, QuantumOf, OnlyOn
  <2>2. ASSUME NEW k \in callouts', k.kind = "sem"  PROVE TimeoutOf(k)'
    BY <1>1, <1>2, <1>3, <1>4, <1>5, <1>6, <1>7, <1>8, <1>9, <2>2, CalloutFields
       DEF LocInv, Pending, TimeoutOf, Timed, Waits, OnlyOn
  <2>3. ASSUME NEW k \in callouts', k.kind = "sleep"  PROVE SleepOf(k)'
    BY <1>1, <1>2, <1>3, <1>4, <1>5, <1>6, <1>7, <1>8, <1>9, <2>3, CalloutFields
       DEF LocInv, Pending, SleepOf, Waits, OnlyOn
  <2>4. ASSUME NEW d \in CPUs, hpc'[d] = "sem_cb"  PROVE SemCbOf(d)'
    <3>1. PICK y \in Threads : /\ y = cbtd[d] /\ y = cbtd'[d] /\ Timed(y)
                               /\ td_c_cpu[y] = d /\ td_state[y] \in {"ACK", "SEM_UNLOCK"}
                               /\ \A k \in callouts : k.td # y
      BY <1>1, <1>2, <1>3, <1>4, <1>5, <1>6, <1>7, <1>8, <1>9, <2>4
         DEF LocInv, PlaceTypes, Handlers, Pending, SemCbOf
    <3>2. Timed(y)'
      BY <1>1, <1>2, <1>3, <1>4, <1>5, <1>6, <1>7, <1>8, <1>9, <3>1
         DEF LocInv, Timed, Waits, OnlyOn
    <3> QED
      BY <1>1, <1>2, <1>3, <1>4, <1>5, <1>6, <1>7, <1>8, <1>9, <3>1, <3>2
         DEF SemCbOf, OnlyOn
  <2> QED  BY <1>1, <1>2, <1>3, <1>4, <1>5, <1>6, <1>7, <1>8, <1>9, <2>0, <2>1,
              <2>2, <2>3, <2>4
              DEF Pending
<1>j. Located'
  <2>1. ASSUME NEW u \in alive'
        PROVE  (\E d \in CPUs : curthread'[d] = u) \/ InQueue(u)' \/ Parked(u)'
    BY <1>1, <1>2, <1>3, <1>4, <1>5, <1>6, <1>7, <1>8, <1>9
       DEF LocInv, Located, Parked, InQueue, Waits, OnlyOn
  <2>2. ASSUME NEW u \in CPUs
        PROVE  InQueue(u)' \/ \E d \in CPUs : curthread'[d] = u
    BY <1>1, <1>2, <1>3, <1>4, <1>5, <1>6, <1>7, <1>8, <1>9
       DEF LocInv, Located, Parked, InQueue, Waits, OnlyOn
  <2>3. ASSUME NEW u \in Threads
        PROVE  /\ td_state'[u] \in {"SEM_WAIT", "SLEEPING"} => Parked(u)'
               /\ td_state'[u] = "SEM_WAIT" => \E d \in CPUs : curthread'[d] = u
    BY <1>1, <1>2, <1>3, <1>4, <1>5, <1>6, <1>7, <1>8, <1>9
       DEF LocInv, Located, Parked, InQueue, Waits, OnlyOn
  <2> QED  BY <2>1, <2>2, <2>3 DEF Located
<1>k. Ended'
  BY <1>1, <1>2, <1>3, <1>4, <1>5, <1>6, <1>7, <1>8, <1>9
     DEF LocInv, Ended, WaitLabels, OnlyOn
<1>l. Available'
  BY <1>1, <1>2, <1>3, <1>4, <1>5, <1>6, <1>7, <1>8, <1>9
     DEF LocInv, Available, Idle, OnlyOn
<1> QED  BY <1>a, <1>b, <1>c, <1>d, <1>e, <1>f, <1>g, <1>h, <1>i, <1>j, <1>k, <1>l
         DEF LocInv

\* mdx_sem_post takes a thread off the list.
LEMMA PostPopStep ==
  ASSUME LocInv, NEW c \in CPUs, NEW t \in Threads,
         post_lock(c, t), td_list # <<>>
  PROVE  LocInv'
<1>1. CPUs \cap Threads = {} /\ NULL \notin CPUs /\ NULL \notin Threads
      /\ AllThreads = Threads \cup CPUs
  BY Kinds
<1>2. tpc[t] = "post_lock" /\ OnlyOn(c, t) /\ sem_lock = NULL
  BY AtRunning DEF post_lock
<1>3. /\ runq' = runq /\ pcpu_list' = pcpu_list /\ pending_ipis' = pending_ipis
      /\ td_state' = td_state /\ alive' = alive /\ curthread' = curthread
      /\ hpc' = hpc /\ cbtd' = cbtd /\ callouts' = callouts
      /\ td_c_cpu' = td_c_cpu /\ armed' = armed /\ usec' = usec
      /\ timeout' = timeout
  BY DEF post_lock, schedVars, threadVars, cpuVars, calloutVars, semVars, localVars,
     permitVars
<1>4. /\ tpc' \in [AllThreads -> ThreadLabels \cup {"boot", "idle"}]
      /\ tpc'[t] = "post_spin"
      /\ \A u \in AllThreads : u # t => tpc'[u] = tpc[u]
      /\ \A u \in Threads : tpc'[u] \in ThreadLabels
      /\ \A d \in CPUs : tpc'[d] \in {"boot", "idle"}
  BY GotoStep DEF LocInv, ThreadLabels, PostLabels, post_lock
<1>5. PICK h \in Threads :
      /\ h = Head(td_list) /\ On(td_list, h) /\ h # t
      /\ td_list' \in Seq(Threads) /\ Once(td_list') /\ ~On(td_list', h)
      /\ \A u : On(td_list', u) => On(td_list, u)
      /\ \A u : On(td_list, u) /\ u # h => On(td_list', u)
  <2>1. td_list \in Seq(Threads) /\ Once(td_list) /\ td_list' = Tail(td_list)
    BY DEF LocInv, PlaceTypes, Waiting, post_lock
  <2>2. /\ Head(td_list) \in Threads /\ On(td_list, Head(td_list))
        /\ Tail(td_list) \in Seq(Threads) /\ Once(Tail(td_list))
        /\ ~On(Tail(td_list), Head(td_list))
        /\ \A u : On(Tail(td_list), u) => On(td_list, u)
        /\ \A u : On(td_list, u) /\ u # Head(td_list) => On(Tail(td_list), u)
    BY <2>1, HeadTailList
  <2>3. Head(td_list) # t
    BY <1>2, <2>2 DEF OnlyOn, Waits
  <2> QED  BY <2>1, <2>2, <2>3
<1>6. /\ target' \in [Threads -> Threads \cup {NULL}] /\ target'[t] = h
      /\ \A u \in Threads : u # t => target'[u] = target[u]
      /\ sem_lock' = t
  BY <1>5 DEF LocInv, PlaceTypes, post_lock
<1>7. target[t] = NULL /\ \A u \in Threads : target[u] # h
  BY <1>2, <1>5 DEF LocInv, Claiming, ClaimOf, PostLabels, Waiting, Waits
<1>8. h \in alive /\ td_state[h] \in {"SEM_WAIT", "ACK"} /\ tpc[h] \in WaitLabels
  BY <1>5 DEF LocInv, Waiting, Waits
<1>a. PlaceTypes'
  BY <1>1, <1>2, <1>3, <1>4, <1>5, <1>6, <1>7, <1>8
     DEF LocInv, PlaceTypes, OnlyOn
<1>b. RunQueue'
  BY <1>1, <1>2, <1>3, <1>4, <1>5, <1>6, <1>7, <1>8, SameQueue DEF LocInv
<1>c. Handlers'
  BY <1>1, <1>2, <1>3, <1>4, <1>5, <1>6, <1>7, <1>8
     DEF LocInv, Handlers
<1>d. Running'
  BY <1>1, <1>2, <1>3, <1>4, <1>5, <1>6, <1>7, <1>8
     DEF LocInv, Running, OnlyOn
<1>e. Ready'
  BY <1>1, <1>2, <1>3, <1>4, <1>5, <1>6, <1>7, <1>8
     DEF LocInv, Ready, InQueue, Waits, OnlyOn
<1>f. Waiting'
  BY <1>1, <1>2, <1>3, <1>4, <1>5, <1>6, <1>7, <1>8
     DEF LocInv, Waiting, Waits, WaitLabels, OnlyOn
<1>g. Claiming'
  <2>1. ASSUME NEW u \in Threads  PROVE ClaimOf(u)'
    BY <1>1, <1>2, <1>3, <1>4, <1>5, <1>6, <1>7, <1>8
       DEF LocInv, PlaceTypes, Claiming, ClaimOf, PostLabels, OnlyOn
  <2>2. \A u, v \in Threads : target'[u] = target'[v] /\ target'[u] # NULL => u = v
    BY <1>1, <1>2, <1>3, <1>4, <1>5, <1>6, <1>7, <1>8
       DEF LocInv, PlaceTypes, Claiming, ClaimOf, PostLabels, OnlyOn
  <2> QED  BY <2>1, <2>2 DEF Claiming
<1>h. Locking'
  BY <1>1, <1>2, <1>3, <1>4, <1>5, <1>6, <1>7, <1>8
     DEF LocInv, Locking, Interruptible, OnlyOn
<1>i. Pending'
  <2>0. \A k, l \in callouts' : k.td = l.td => k = l
    BY <1>1, <1>2, <1>3, <1>4, <1>5, <1>6, <1>7, <1>8, CalloutFields
       DEF LocInv, Pending, OnlyOn
  <2>1. ASSUME NEW k \in callouts', k.kind = "quantum"  PROVE QuantumOf(k)'
    BY <1>1, <1>2, <1>3, <1>4, <1>5, <1>6, <1>7, <1>8, <2>1, CalloutFields
       DEF LocInv, Pending, QuantumOf, OnlyOn
  <2>2. ASSUME NEW k \in callouts', k.kind = "sem"  PROVE TimeoutOf(k)'
    BY <1>1, <1>2, <1>3, <1>4, <1>5, <1>6, <1>7, <1>8, <2>2, CalloutFields
       DEF LocInv, Pending, TimeoutOf, Timed, Waits, OnlyOn
  <2>3. ASSUME NEW k \in callouts', k.kind = "sleep"  PROVE SleepOf(k)'
    BY <1>1, <1>2, <1>3, <1>4, <1>5, <1>6, <1>7, <1>8, <2>3, CalloutFields
       DEF LocInv, Pending, SleepOf, Waits, OnlyOn
  <2>4. ASSUME NEW d \in CPUs, hpc'[d] = "sem_cb"  PROVE SemCbOf(d)'
    <3>1. PICK y \in Threads : /\ y = cbtd[d] /\ y = cbtd'[d] /\ Timed(y)
                               /\ td_c_cpu[y] = d /\ td_state[y] \in {"ACK", "SEM_UNLOCK"}
                               /\ \A k \in callouts : k.td # y
      BY <1>1, <1>2, <1>3, <1>4, <1>5, <1>6, <1>7, <1>8, <2>4
         DEF LocInv, PlaceTypes, Handlers, Pending, SemCbOf
    <3>2. Timed(y)'
      BY <1>1, <1>2, <1>3, <1>4, <1>5, <1>6, <1>7, <1>8, <3>1
         DEF LocInv, Timed, Waits, OnlyOn
    <3> QED
      BY <1>1, <1>2, <1>3, <1>4, <1>5, <1>6, <1>7, <1>8, <3>1, <3>2
         DEF SemCbOf, OnlyOn
  <2> QED  BY <1>1, <1>2, <1>3, <1>4, <1>5, <1>6, <1>7, <1>8, <2>0, <2>1, <2>2,
              <2>3, <2>4
              DEF Pending
<1>j. Located'
  <2>1. ASSUME NEW u \in alive'
        PROVE  (\E d \in CPUs : curthread'[d] = u) \/ InQueue(u)' \/ Parked(u)'
    <3>1. CASE u = h
      BY <1>1, <1>2, <1>3, <1>4, <1>5, <1>6, <1>7, <1>8, <3>1
         DEF LocInv, Parked, InQueue, Waits
    <3>2. CASE u # h
      <4>1. /\ u \in Threads /\ u \in AllThreads /\ u # NULL
            /\ \/ \E d \in CPUs : curthread[d] = u
               \/ InQueue(u) \/ Parked(u)
        BY <1>1, <1>2, <1>3, <1>4, <1>5, <1>6, <1>7, <1>8, <3>2
           DEF LocInv, PlaceTypes, Located
      <4>2. CASE \E v \in Threads : target[v] = u
        <5>1. PICK v \in Threads : target[v] = u  BY <4>2
        <5>2. target'[v] = u
          BY <1>1, <1>2, <1>3, <1>4, <1>5, <1>6, <1>7, <1>8, <3>2, <4>1, <5>1
        <5> QED  BY <5>2 DEF Parked
      <4> QED  BY <1>1, <1>2, <1>3, <1>4, <1>5, <1>6, <1>7, <1>8, <3>2, <4>1, <4>2
            DEF Parked, InQueue, Waits, OnlyOn
    <3> QED  BY <3>1, <3>2
  <2>2. ASSUME NEW u \in CPUs
        PROVE  InQueue(u)' \/ \E d \in CPUs : curthread'[d] = u
    BY <1>1, <1>2, <1>3, <1>4, <1>5, <1>6, <1>7, <1>8
       DEF LocInv, Located, Parked, InQueue, Waits, OnlyOn
  <2>3. ASSUME NEW u \in Threads
        PROVE  /\ td_state'[u] \in {"SEM_WAIT", "SLEEPING"} => Parked(u)'
               /\ td_state'[u] = "SEM_WAIT" => \E d \in CPUs : curthread'[d] = u
    BY <1>1, <1>2, <1>3, <1>4, <1>5, <1>6, <1>7, <1>8
       DEF LocInv, Located, Parked, InQueue, Waits, OnlyOn
  <2> QED  BY <2>1, <2>2, <2>3 DEF Located
<1>k. Ended'
  BY <1>1, <1>2, <1>3, <1>4, <1>5, <1>6, <1>7, <1>8
     DEF LocInv, Ended, WaitLabels, OnlyOn
<1>l. Available'
  BY <1>1, <1>2, <1>3, <1>4, <1>5, <1>6, <1>7, <1>8
     DEF LocInv, Available, Idle, OnlyOn
<1> QED  BY <1>a, <1>b, <1>c, <1>d, <1>e, <1>f, <1>g, <1>h, <1>i, <1>j, <1>k, <1>l
         DEF LocInv

\* mdx_sem_post has seen that the thread left its CPU.
LEMMA PostSpinStep ==
  ASSUME LocInv, NEW c \in CPUs, NEW t \in Threads, post_spin(c, t)
  PROVE  LocInv'
<1>1. CPUs \cap Threads = {} /\ NULL \notin CPUs /\ NULL \notin Threads
      /\ AllThreads = Threads \cup CPUs
  BY Kinds
<1>2. tpc[t] = "post_spin" /\ OnlyOn(c, t) /\ sem_lock = t
  BY AtRunning DEF post_spin, LocInv, Locking
<1>3. /\ runq' = runq /\ pcpu_list' = pcpu_list /\ pending_ipis' = pending_ipis
      /\ alive' = alive /\ curthread' = curthread /\ hpc' = hpc
      /\ cbtd' = cbtd /\ callouts' = callouts /\ td_c_cpu' = td_c_cpu
      /\ armed' = armed /\ td_list' = td_list /\ target' = target
      /\ usec' = usec /\ timeout' = timeout
  BY DEF post_spin, schedVars, threadVars, cpuVars, calloutVars, semVars, localVars,
     permitVars
<1>4. /\ tpc' \in [AllThreads -> ThreadLabels \cup {"boot", "idle"}]
      /\ tpc'[t] = "post_cancel"
      /\ \A u \in AllThreads : u # t => tpc'[u] = tpc[u]
      /\ \A u \in Threads : tpc'[u] \in ThreadLabels
      /\ \A d \in CPUs : tpc'[d] \in {"boot", "idle"}
  BY GotoStep DEF LocInv, ThreadLabels, PostLabels, post_spin
<1>5. PICK x \in Threads : x = target[t] /\ x # t
  BY <1>2 DEF LocInv, PlaceTypes, Claiming, ClaimOf, PostLabels, OnlyOn
<1>6. td_state[x] = "ACK" /\ x \in alive /\ sem_lock' = NULL
  BY <1>2, <1>5, Kinds DEF post_spin, LocInv, Claiming, ClaimOf
<1>7. /\ td_state' \in [AllThreads -> States]
      /\ td_state'[x] = "SEM_UNLOCK"
      /\ \A u \in AllThreads : u # x => td_state'[u] = td_state[u]
      /\ \A d \in CPUs : td_state'[d] = "READY"
  BY <1>5, StateStep DEF LocInv, post_spin, States
<1>8. \A u \in Threads : target[u] = x => u = t
  BY <1>1, <1>5 DEF LocInv, Claiming, ClaimOf
<1>9. ~InQueue(x) /\ ~Waits(x) /\ \A d \in CPUs : curthread[d] # x
  BY <1>1, <1>5, <1>6 DEF LocInv, Ready, Waiting, Running
<1>a. PlaceTypes'
  BY <1>1, <1>2, <1>3, <1>4, <1>5, <1>6, <1>7, <1>8, <1>9
     DEF LocInv, PlaceTypes, OnlyOn
<1>b. RunQueue'
  BY <1>1, <1>2, <1>3, <1>4, <1>5, <1>6, <1>7, <1>8, <1>9, SameQueue DEF LocInv
<1>c. Handlers'
  BY <1>1, <1>2, <1>3, <1>4, <1>5, <1>6, <1>7, <1>8, <1>9
     DEF LocInv, Handlers
<1>d. Running'
  BY <1>1, <1>2, <1>3, <1>4, <1>5, <1>6, <1>7, <1>8, <1>9
     DEF LocInv, Running, OnlyOn
<1>e. Ready'
  BY <1>1, <1>2, <1>3, <1>4, <1>5, <1>6, <1>7, <1>8, <1>9
     DEF LocInv, Ready, InQueue, Waits, OnlyOn
<1>f. Waiting'
  BY <1>1, <1>2, <1>3, <1>4, <1>5, <1>6, <1>7, <1>8, <1>9
     DEF LocInv, Waiting, Waits, WaitLabels, OnlyOn
<1>g. Claiming'
  <2>1. ASSUME NEW u \in Threads  PROVE ClaimOf(u)'
    BY <1>1, <1>2, <1>3, <1>4, <1>5, <1>6, <1>7, <1>8, <1>9
       DEF LocInv, PlaceTypes, Claiming, ClaimOf, PostLabels, OnlyOn
  <2>2. \A u, v \in Threads : target'[u] = target'[v] /\ target'[u] # NULL => u = v
    BY <1>1, <1>2, <1>3, <1>4, <1>5, <1>6, <1>7, <1>8, <1>9
       DEF LocInv, PlaceTypes, Claiming, ClaimOf, PostLabels, OnlyOn
  <2> QED  BY <2>1, <2>2 DEF Claiming
<1>h. Locking'
  BY <1>1, <1>2, <1>3, <1>4, <1>5, <1>6, <1>7, <1>8, <1>9
     DEF LocInv, Locking, Interruptible, OnlyOn
<1>i. Pending'
  <2>0. \A k, l \in callouts' : k.td = l.td => k = l
    BY <1>1, <1>2, <1>3, <1>4, <1>5, <1>6, <1>7, <1>8, <1>9, CalloutFields
       DEF LocInv, Pending, OnlyOn
  <2>1. ASSUME NEW k \in callouts', k.kind = "quantum"  PROVE QuantumOf(k)'
    BY <1>1, <1>2, <1>3, <1>4, <1>5, <1>6, <1>7, <1>8, <1>9, <2>1, CalloutFields
       DEF LocInv, Pending, QuantumOf, OnlyOn
  <2>2. ASSUME NEW k \in callouts', k.kind = "sem"  PROVE TimeoutOf(k)'
    BY <1>1, <1>2, <1>3, <1>4, <1>5, <1>6, <1>7, <1>8, <1>9, <2>2, CalloutFields
       DEF LocInv, Pending, TimeoutOf, Timed, Waits, OnlyOn
  <2>3. ASSUME NEW k \in callouts', k.kind = "sleep"  PROVE SleepOf(k)'
    BY <1>1, <1>2, <1>3, <1>4, <1>5, <1>6, <1>7, <1>8, <1>9, <2>3, CalloutFields
       DEF LocInv, Pending, SleepOf, Waits, OnlyOn
  <2>4. ASSUME NEW d \in CPUs, hpc'[d] = "sem_cb"  PROVE SemCbOf(d)'
    <3>1. PICK y \in Threads : /\ y = cbtd[d] /\ y = cbtd'[d] /\ Timed(y)
                               /\ td_c_cpu[y] = d /\ td_state[y] \in {"ACK", "SEM_UNLOCK"}
                               /\ \A k \in callouts : k.td # y
      BY <1>1, <1>2, <1>3, <1>4, <1>5, <1>6, <1>7, <1>8, <1>9, <2>4
         DEF LocInv, PlaceTypes, Handlers, Pending, SemCbOf
    <3>2. Timed(y)'
      BY <1>1, <1>2, <1>3, <1>4, <1>5, <1>6, <1>7, <1>8, <1>9, <3>1
         DEF LocInv, Timed, Waits, OnlyOn
    <3> QED
      BY <1>1, <1>2, <1>3, <1>4, <1>5, <1>6, <1>7, <1>8, <1>9, <3>1, <3>2
         DEF SemCbOf, OnlyOn
  <2> QED  BY <1>1, <1>2, <1>3, <1>4, <1>5, <1>6, <1>7, <1>8, <1>9, <2>0, <2>1,
              <2>2, <2>3, <2>4
              DEF Pending
<1>j. Located'
  <2>1. ASSUME NEW u \in alive'
        PROVE  (\E d \in CPUs : curthread'[d] = u) \/ InQueue(u)' \/ Parked(u)'
    BY <1>1, <1>2, <1>3, <1>4, <1>5, <1>6, <1>7, <1>8, <1>9
       DEF LocInv, Located, Parked, InQueue, Waits, OnlyOn
  <2>2. ASSUME NEW u \in CPUs
        PROVE  InQueue(u)' \/ \E d \in CPUs : curthread'[d] = u
    BY <1>1, <1>2, <1>3, <1>4, <1>5, <1>6, <1>7, <1>8, <1>9
       DEF LocInv, Located, Parked, InQueue, Waits, OnlyOn
  <2>3. ASSUME NEW u \in Threads
        PROVE  /\ td_state'[u] \in {"SEM_WAIT", "SLEEPING"} => Parked(u)'
               /\ td_state'[u] = "SEM_WAIT" => \E d \in CPUs : curthread'[d] = u
    BY <1>1, <1>2, <1>3, <1>4, <1>5, <1>6, <1>7, <1>8, <1>9
       DEF LocInv, Located, Parked, InQueue, Waits, OnlyOn
  <2> QED  BY <2>1, <2>2, <2>3 DEF Located
<1>k. Ended'
  BY <1>1, <1>2, <1>3, <1>4, <1>5, <1>6, <1>7, <1>8, <1>9
     DEF LocInv, Ended, WaitLabels, OnlyOn
<1>l. Available'
  BY <1>1, <1>2, <1>3, <1>4, <1>5, <1>6, <1>7, <1>8, <1>9
     DEF LocInv, Available, Idle, OnlyOn
<1> QED  BY <1>a, <1>b, <1>c, <1>d, <1>e, <1>f, <1>g, <1>h, <1>i, <1>j, <1>k, <1>l
         DEF LocInv

\* mdx_sem_post cancels the timeout of the thread.
LEMMA PostCancelStep ==
  ASSUME LocInv, NEW c \in CPUs, NEW t \in Threads, post_cancel(c, t)
  PROVE  LocInv'
<1>1. CPUs \cap Threads = {} /\ NULL \notin CPUs /\ NULL \notin Threads
      /\ AllThreads = Threads \cup CPUs
  BY Kinds
<1>2. tpc[t] = "post_cancel" /\ OnlyOn(c, t)
  BY AtRunning DEF post_cancel
<1>3. /\ runq' = runq /\ pcpu_list' = pcpu_list /\ pending_ipis' = pending_ipis
      /\ td_state' = td_state /\ alive' = alive /\ curthread' = curthread
      /\ hpc' = hpc /\ cbtd' = cbtd /\ td_c_cpu' = td_c_cpu
      /\ armed' = armed /\ td_list' = td_list /\ target' = target
      /\ sem_lock' = sem_lock /\ usec' = usec /\ timeout' = timeout
  BY DEF post_cancel, schedVars, threadVars, cpuVars, calloutVars, semVars,
     localVars, permitVars
<1>4. /\ tpc' \in [AllThreads -> ThreadLabels \cup {"boot", "idle"}]
      /\ tpc'[t] = "post_add"
      /\ \A u \in AllThreads : u # t => tpc'[u] = tpc[u]
      /\ \A u \in Threads : tpc'[u] \in ThreadLabels
      /\ \A d \in CPUs : tpc'[d] \in {"boot", "idle"}
  BY GotoStep DEF LocInv, ThreadLabels, PostLabels, post_cancel
<1>5. PICK x \in Threads : x = target[t] /\ x # t
  BY <1>2 DEF LocInv, PlaceTypes, Claiming, ClaimOf, PostLabels, OnlyOn
<1>6. /\ callouts' \subseteq callouts
      /\ \A k \in callouts : k.td # x => k \in callouts'
      /\ \A k \in callouts' : k.td # x
  BY <1>5, CalloutFields
     DEF LocInv, Pending, SleepOf, post_cancel, cancel_deadline, Deadlines
<1>7. \A d \in CPUs : cbtd[d] # x
  BY <1>5, Kinds
     DEF LocInv, Pending, SemCbOf, Handlers, post_cancel, cancel_deadline,
         CalloutLocked
<1>8. \A u \in Threads : target[u] = x => u = t
  BY <1>1, <1>5 DEF LocInv, Claiming, ClaimOf
<1>9. callouts' \subseteq CalloutTypes
  BY <1>6 DEF LocInv, PlaceTypes
<1>a. PlaceTypes'
  BY <1>1, <1>2, <1>3, <1>4, <1>5, <1>6, <1>7, <1>8, <1>9
     DEF LocInv, PlaceTypes, OnlyOn
<1>b. RunQueue'
  BY <1>1, <1>2, <1>3, <1>4, <1>5, <1>6, <1>7, <1>8, <1>9, SameQueue DEF LocInv
<1>c. Handlers'
  BY <1>1, <1>2, <1>3, <1>4, <1>5, <1>6, <1>7, <1>8, <1>9
     DEF LocInv, Handlers
<1>d. Running'
  BY <1>1, <1>2, <1>3, <1>4, <1>5, <1>6, <1>7, <1>8, <1>9
     DEF LocInv, Running, OnlyOn
<1>e. Ready'
  BY <1>1, <1>2, <1>3, <1>4, <1>5, <1>6, <1>7, <1>8, <1>9
     DEF LocInv, Ready, InQueue, Waits, OnlyOn
<1>f. Waiting'
  BY <1>1, <1>2, <1>3, <1>4, <1>5, <1>6, <1>7, <1>8, <1>9
     DEF LocInv, Waiting, Waits, WaitLabels, OnlyOn
<1>g. Claiming'
  <2>1. ASSUME NEW u \in Threads  PROVE ClaimOf(u)'
    BY <1>1, <1>2, <1>3, <1>4, <1>5, <1>6, <1>7, <1>8, <1>9
       DEF LocInv, PlaceTypes, Claiming, ClaimOf, PostLabels, OnlyOn
  <2>2. \A u, v \in Threads : target'[u] = target'[v] /\ target'[u] # NULL => u = v
    BY <1>1, <1>2, <1>3, <1>4, <1>5, <1>6, <1>7, <1>8, <1>9
       DEF LocInv, PlaceTypes, Claiming, ClaimOf, PostLabels, OnlyOn
  <2> QED  BY <2>1, <2>2 DEF Claiming
<1>h. Locking'
  BY <1>1, <1>2, <1>3, <1>4, <1>5, <1>6, <1>7, <1>8, <1>9
     DEF LocInv, Locking, Interruptible, OnlyOn
<1>i. Pending'
  <2>0. \A k, l \in callouts' : k.td = l.td => k = l
    BY <1>1, <1>2, <1>3, <1>4, <1>5, <1>6, <1>7, <1>8, <1>9, CalloutFields
       DEF LocInv, Pending, OnlyOn
  <2>1. ASSUME NEW k \in callouts', k.kind = "quantum"  PROVE QuantumOf(k)'
    BY <1>1, <1>2, <1>3, <1>4, <1>5, <1>6, <1>7, <1>8, <1>9, <2>1, CalloutFields
       DEF LocInv, Pending, QuantumOf, OnlyOn
  <2>2. ASSUME NEW k \in callouts', k.kind = "sem"  PROVE TimeoutOf(k)'
    BY <1>1, <1>2, <1>3, <1>4, <1>5, <1>6, <1>7, <1>8, <1>9, <2>2, CalloutFields
       DEF LocInv, Pending, TimeoutOf, Timed, Waits, OnlyOn
  <2>3. ASSUME NEW k \in callouts', k.kind = "sleep"  PROVE SleepOf(k)'
    BY <1>1, <1>2, <1>3, <1>4, <1>5, <1>6, <1>7, <1>8, <1>9, <2>3, CalloutFields
       DEF LocInv, Pending, SleepOf, Waits, OnlyOn
  <2>4. ASSUME NEW d \in CPUs, hpc'[d] = "sem_cb"  PROVE SemCbOf(d)'
    <3>1. PICK y \in Threads : /\ y = cbtd[d] /\ y = cbtd'[d] /\ Timed(y)
                               /\ td_c_cpu[y] = d /\ td_state[y] \in {"ACK", "SEM_UNLOCK"}
                               /\ \A k \in callouts : k.td # y
      BY <1>1, <1>2, <1>3, <1>4, <1>5, <1>6, <1>7, <1>8, <1>9, <2>4
         DEF LocInv, PlaceTypes, Handlers, Pending, SemCbOf
    <3>2. Timed(y)'
      BY <1>1, <1>2, <1>3, <1>4, <1>5, <1>6, <1>7, <1>8, <1>9, <3>1
         DEF LocInv, Timed, Waits, OnlyOn
    <3> QED
      BY <1>1, <1>2, <1>3, <1>4, <1>5, <1>6, <1>7, <1>8, <1>9, <3>1, <3>2
         DEF SemCbOf, OnlyOn
  <2> QED  BY <1>1, <1>2, <1>3, <1>4, <1>5, <1>6, <1>7, <1>8, <1>9, <2>0, <2>1,
              <2>2, <2>3, <2>4
              DEF Pending
<1>j. Located'
  <2>1. ASSUME NEW u \in alive'
        PROVE  (\E d \in CPUs : curthread'[d] = u) \/ InQueue(u)' \/ Parked(u)'
    BY <1>1, <1>2, <1>3, <1>4, <1>5, <1>6, <1>7, <1>8, <1>9
       DEF LocInv, Located, Parked, InQueue, Waits, OnlyOn
  <2>2. ASSUME NEW u \in CPUs
        PROVE  InQueue(u)' \/ \E d \in CPUs : curthread'[d] = u
    BY <1>1, <1>2, <1>3, <1>4, <1>5, <1>6, <1>7, <1>8, <1>9
       DEF LocInv, Located, Parked, InQueue, Waits, OnlyOn
  <2>3. ASSUME NEW u \in Threads
        PROVE  /\ td_state'[u] \in {"SEM_WAIT", "SLEEPING"} => Parked(u)'
               /\ td_state'[u] = "SEM_WAIT" => \E d \in CPUs : curthread'[d] = u
    BY <1>1, <1>2, <1>3, <1>4, <1>5, <1>6, <1>7, <1>8, <1>9
       DEF LocInv, Located, Parked, InQueue, Waits, OnlyOn
  <2> QED  BY <2>1, <2>2, <2>3 DEF Located
<1>k. Ended'
  BY <1>1, <1>2, <1>3, <1>4, <1>5, <1>6, <1>7, <1>8, <1>9
     DEF LocInv, Ended, WaitLabels, OnlyOn
<1>l. Available'
  BY <1>1, <1>2, <1>3, <1>4, <1>5, <1>6, <1>7, <1>8, <1>9
     DEF LocInv, Available, Idle, OnlyOn
<1> QED  BY <1>a, <1>b, <1>c, <1>d, <1>e, <1>f, <1>g, <1>h, <1>i, <1>j, <1>k, <1>l
         DEF LocInv

\* mdx_sem_post makes the thread ready.
LEMMA PostAddStep ==
  ASSUME LocInv, NEW c \in CPUs, NEW t \in Threads, post_add(c, t)
  PROVE  LocInv'
<1>1. CPUs \cap Threads = {} /\ NULL \notin CPUs /\ NULL \notin Threads
      /\ AllThreads = Threads \cup CPUs
  BY Kinds
<1>2. tpc[t] = "post_add" /\ OnlyOn(c, t)
  BY AtRunning DEF post_add
<1>3. /\ pcpu_list' = pcpu_list /\ alive' = alive /\ curthread' = curthread
      /\ hpc' = hpc /\ cbtd' = cbtd /\ callouts' = callouts
      /\ td_c_cpu' = td_c_cpu /\ armed' = armed /\ td_list' = td_list
      /\ sem_lock' = sem_lock /\ usec' = usec /\ timeout' = timeout
  BY DEF post_add, schedVars, threadVars, cpuVars, calloutVars, semVars, localVars,
     permitVars
<1>4. /\ tpc' \in [AllThreads -> ThreadLabels \cup {"boot", "idle"}]
      /\ tpc'[t] = "user"
      /\ \A u \in AllThreads : u # t => tpc'[u] = tpc[u]
      /\ \A u \in Threads : tpc'[u] \in ThreadLabels
      /\ \A d \in CPUs : tpc'[d] \in {"boot", "idle"}
  BY GotoStep DEF LocInv, ThreadLabels, post_add
<1>5. PICK x \in Threads : x = target[t] /\ x # t
  BY <1>2 DEF LocInv, PlaceTypes, Claiming, ClaimOf, PostLabels, OnlyOn
<1>6. /\ td_state' \in [AllThreads -> States]
      /\ td_state'[x] = "WAKEUP"
      /\ \A u \in AllThreads : u # x => td_state'[u] = td_state[u]
      /\ \A d \in CPUs : td_state'[d] = "READY"
  BY <1>5, StateStep DEF LocInv, post_add, States
<1>7. /\ x \in alive /\ td_state[x] \in {"SEM_UNLOCK", "SEM_UNLOCK_ACK"}
      /\ \A u \in Threads : target[u] = x => u = t
      /\ \A k \in callouts : k.td # x
      /\ \A d \in CPUs : cbtd[d] # x
  BY <1>1, <1>2, <1>5 DEF LocInv, Claiming, ClaimOf
<1>8. ~InQueue(x) /\ ~Waits(x) /\ \A d \in CPUs : curthread[d] # x
  BY <1>1, <1>5, <1>7 DEF LocInv, Ready, Waiting, Running
<1>9. /\ RunQueue' /\ pending_ipis' \subseteq CPUs
      /\ \A u \in AllThreads :
           On(runq'[PrioOf(u)], u) <=> On(runq[PrioOf(u)], u) \/ u = x
  BY <1>1, <1>5, <1>8, AddToQueue DEF LocInv, post_add
<1>10. /\ target' \in [Threads -> Threads \cup {NULL}] /\ target'[t] = NULL
       /\ \A u \in Threads : u # t => target'[u] = target[u]
  BY DEF LocInv, PlaceTypes, post_add
<1>a. PlaceTypes'
  BY <1>1, <1>2, <1>3, <1>4, <1>5, <1>6, <1>7, <1>8, <1>9, <1>10
     DEF LocInv, PlaceTypes, OnlyOn
<1>b. RunQueue'
  BY <1>9
<1>c. Handlers'
  BY <1>1, <1>2, <1>3, <1>4, <1>5, <1>6, <1>7, <1>8, <1>9, <1>10
     DEF LocInv, Handlers
<1>d. Running'
  BY <1>1, <1>2, <1>3, <1>4, <1>5, <1>6, <1>7, <1>8, <1>9, <1>10
     DEF LocInv, Running, OnlyOn
<1>e. Ready'
  BY <1>1, <1>2, <1>3, <1>4, <1>5, <1>6, <1>7, <1>8, <1>9, <1>10
     DEF LocInv, Ready, InQueue, Waits, OnlyOn
<1>f. Waiting'
  BY <1>1, <1>2, <1>3, <1>4, <1>5, <1>6, <1>7, <1>8, <1>9, <1>10
     DEF LocInv, Waiting, Waits, WaitLabels, OnlyOn
<1>g. Claiming'
  <2>1. ASSUME NEW u \in Threads  PROVE ClaimOf(u)'
    BY <1>1, <1>2, <1>3, <1>4, <1>5, <1>6, <1>7, <1>8, <1>9, <1>10
       DEF LocInv, PlaceTypes, Claiming, ClaimOf, PostLabels, OnlyOn
  <2>2. \A u, v \in Threads : target'[u] = target'[v] /\ target'[u] # NULL => u = v
    BY <1>1, <1>2, <1>3, <1>4, <1>5, <1>6, <1>7, <1>8, <1>9, <1>10
       DEF LocInv, PlaceTypes, Claiming, ClaimOf, PostLabels, OnlyOn
  <2> QED  BY <2>1, <2>2 DEF Claiming
<1>h. Locking'
  BY <1>1, <1>2, <1>3, <1>4, <1>5, <1>6, <1>7, <1>8, <1>9, <1>10
     DEF LocInv, Locking, Interruptible, OnlyOn
<1>i. Pending'
  <2>0. \A k, l \in callouts' : k.td = l.td => k = l
    BY <1>1, <1>2, <1>3, <1>4, <1>5, <1>6, <1>7, <1>8, <1>9, <1>10, CalloutFields
       DEF LocInv, Pending, OnlyOn
  <2>1. ASSUME NEW k \in callouts', k.kind = "quantum"  PROVE QuantumOf(k)'
    BY <1>1, <1>2, <1>3, <1>4, <1>5, <1>6, <1>7, <1>8, <1>9, <1>10, <2>1,
       CalloutFields
       DEF LocInv, Pending, QuantumOf, OnlyOn
  <2>2. ASSUME NEW k \in callouts', k.kind = "sem"  PROVE TimeoutOf(k)'
    BY <1>1, <1>2, <1>3, <1>4, <1>5, <1>6, <1>7, <1>8, <1>9, <1>10, <2>2,
       CalloutFields
       DEF LocInv, Pending, TimeoutOf, Timed, Waits, OnlyOn
  <2>3. ASSUME NEW k \in callouts', k.kind = "sleep"  PROVE SleepOf(k)'
    BY <1>1, <1>2, <1>3, <1>4, <1>5, <1>6, <1>7, <1>8, <1>9, <1>10, <2>3,
       CalloutFields
       DEF LocInv, Pending, SleepOf, Waits, OnlyOn
  <2>4. ASSUME NEW d \in CPUs, hpc'[d] = "sem_cb"  PROVE SemCbOf(d)'
    <3>1. PICK y \in Threads : /\ y = cbtd[d] /\ y = cbtd'[d] /\ Timed(y)
                               /\ td_c_cpu[y] = d /\ td_state[y] \in {"ACK", "SEM_UNLOCK"}
                               /\ \A k \in callouts : k.td # y
      BY <1>1, <1>2, <1>3, <1>4, <1>5, <1>6, <1>7, <1>8, <1>9, <1>10, <2>4
         DEF LocInv, PlaceTypes, Handlers, Pending, SemCbOf
    <3>2. Timed(y)'
      BY <1>1, <1>2, <1>3, <1>4, <1>5, <1>6, <1>7, <1>8, <1>9, <1>10, <3>1
         DEF LocInv, Timed, Waits, OnlyOn
    <3> QED
      BY <1>1, <1>2, <1>3, <1>4, <1>5, <1>6, <1>7, <1>8, <1>9, <1>10, <3>1, <3>2
         DEF SemCbOf, OnlyOn
  <2> QED  BY <1>1, <1>2, <1>3, <1>4, <1>5, <1>6, <1>7, <1>8, <1>9, <1>10, <2>0,
              <2>1, <2>2, <2>3, <2>4
              DEF Pending
<1>j. Located'
  <2>1. ASSUME NEW u \in alive'
        PROVE  (\E d \in CPUs : curthread'[d] = u) \/ InQueue(u)' \/ Parked(u)'
    <3>1. CASE u = x
      BY <1>1, <1>2, <1>3, <1>4, <1>5, <1>6, <1>7, <1>8, <1>9, <1>10, <3>1
         DEF LocInv, Parked, InQueue, Waits
    <3>2. CASE u # x
      <4>1. /\ u \in Threads /\ u \in AllThreads /\ u # NULL
            /\ \/ \E d \in CPUs : curthread[d] = u
               \/ InQueue(u) \/ Parked(u)
        BY <1>1, <1>2, <1>3, <1>4, <1>5, <1>6, <1>7, <1>8, <1>9, <1>10, <3>2
           DEF LocInv, PlaceTypes, Located
      <4>2. CASE \E v \in Threads : target[v] = u
        <5>1. PICK v \in Threads : target[v] = u  BY <4>2
        <5>2. target'[v] = u
          BY <1>1, <1>2, <1>3, <1>4, <1>5, <1>6, <1>7, <1>8, <1>9, <1>10, <3>2,
             <4>1, <5>1
        <5> QED  BY <5>2 DEF Parked
      <4> QED  BY <1>1, <1>2, <1>3, <1>4, <1>5, <1>6, <1>7, <1>8, <1>9, <1>10, <3>2,
                  <4>1, <4>2
            DEF Parked, InQueue, Waits, OnlyOn
    <3> QED  BY <3>1, <3>2
  <2>2. ASSUME NEW u \in CPUs
        PROVE  InQueue(u)' \/ \E d \in CPUs : curthread'[d] = u
    BY <1>1, <1>2, <1>3, <1>4, <1>5, <1>6, <1>7, <1>8, <1>9, <1>10
       DEF LocInv, Located, Parked, InQueue, Waits, OnlyOn
  <2>3. ASSUME NEW u \in Threads
        PROVE  /\ td_state'[u] \in {"SEM_WAIT", "SLEEPING"} => Parked(u)'
               /\ td_state'[u] = "SEM_WAIT" => \E d \in CPUs : curthread'[d] = u
    BY <1>1, <1>2, <1>3, <1>4, <1>5, <1>6, <1>7, <1>8, <1>9, <1>10
       DEF LocInv, Located, Parked, InQueue, Waits, OnlyOn
  <2> QED  BY <2>1, <2>2, <2>3 DEF Located
<1>k. Ended'
  BY <1>1, <1>2, <1>3, <1>4, <1>5, <1>6, <1>7, <1>8, <1>9, <1>10
     DEF LocInv, Ended, WaitLabels, OnlyOn
<1>l. Available'
  BY <1>1, <1>2, <1>3, <1>4, <1>5, <1>6, <1>7, <1>8, <1>9, <1>10
     DEF LocInv, Available, Idle, OnlyOn
<1> QED  BY <1>a, <1>b, <1>c, <1>d, <1>e, <1>f, <1>g, <1>h, <1>i, <1>j, <1>k, <1>l
         DEF LocInv

\* mdx_tsleep.
LEMMA SleepStep ==
  ASSUME LocInv, NEW c \in CPUs, NEW t \in Threads, mdx_tsleep(c, t)
  PROVE  LocInv'
<1>1. CPUs \cap Threads = {} /\ NULL \notin CPUs /\ NULL \notin Threads
      /\ AllThreads = Threads \cup CPUs
  BY Kinds
<1>2. tpc[t] = "user" /\ OnlyOn(c, t)
  BY AtRunning DEF mdx_tsleep
<1>3. /\ runq' = runq /\ pcpu_list' = pcpu_list /\ pending_ipis' = pending_ipis
      /\ alive' = alive /\ curthread' = curthread /\ hpc' = hpc
      /\ cbtd' = cbtd /\ td_c_cpu' = td_c_cpu /\ td_list' = td_list
      /\ target' = target /\ sem_lock' = sem_lock /\ usec' = usec
      /\ timeout' = timeout
  BY DEF mdx_tsleep, schedVars, threadVars, cpuVars, calloutVars, semVars,
     localVars, permitVars
<1>4. /\ tpc' \in [AllThreads -> ThreadLabels \cup {"boot", "idle"}]
      /\ tpc'[t] = "sleep_yield"
      /\ \A u \in AllThreads : u # t => tpc'[u] = tpc[u]
      /\ \A u \in Threads : tpc'[u] \in ThreadLabels
      /\ \A d \in CPUs : tpc'[d] \in {"boot", "idle"}
  BY GotoStep DEF LocInv, ThreadLabels, mdx_tsleep
<1>5. /\ td_state' \in [AllThreads -> States]
      /\ td_state'[t] = "SLEEPING"
      /\ \A u \in AllThreads : u # t => td_state'[u] = td_state[u]
      /\ \A d \in CPUs : td_state'[d] = "READY"
  BY StateStep DEF LocInv, mdx_tsleep, States
<1>6. PICK s \in CalloutTypes :
      s = Callout(t, "sleep", c) /\ s.td = t /\ s.kind = "sleep" /\ s.cpu = c
  <2>1. /\ Callout(t, "sleep", c) \in CalloutTypes
        /\ Callout(t, "sleep", c).td = t
        /\ Callout(t, "sleep", c).kind = "sleep" /\ Callout(t, "sleep", c).cpu = c
    BY DEF Callout, CalloutTypes
  <2> QED  BY <2>1
<1>7. /\ callouts' \subseteq CalloutTypes /\ s \in callouts'
      /\ \A k \in callouts : k.td # t => k \in callouts'
      /\ \A k \in callouts' : (k \in callouts /\ k.td # t) \/ k = s
      /\ armed' \subseteq CPUs
  <2>1. \A k \in callouts : k \in Deadlines(t) <=> k.td = t
    BY <1>2 DEF Deadlines, OnlyOn
  <2> QED  BY <1>6, <2>1 DEF LocInv, PlaceTypes, mdx_tsleep
<1>a. PlaceTypes'
  BY <1>1, <1>2, <1>3, <1>4, <1>5, <1>6, <1>7
     DEF LocInv, PlaceTypes, OnlyOn
<1>b. RunQueue'
  BY <1>1, <1>2, <1>3, <1>4, <1>5, <1>6, <1>7, SameQueue DEF LocInv
<1>c. Handlers'
  BY <1>1, <1>2, <1>3, <1>4, <1>5, <1>6, <1>7
     DEF LocInv, Handlers
<1>d. Running'
  BY <1>1, <1>2, <1>3, <1>4, <1>5, <1>6, <1>7
     DEF LocInv, Running, OnlyOn
<1>e. Ready'
  BY <1>1, <1>2, <1>3, <1>4, <1>5, <1>6, <1>7
     DEF LocInv, Ready, InQueue, Waits, OnlyOn
<1>f. Waiting'
  BY <1>1, <1>2, <1>3, <1>4, <1>5, <1>6, <1>7
     DEF LocInv, Waiting, Waits, WaitLabels, OnlyOn
<1>g. Claiming'
  <2>1. ASSUME NEW u \in Threads  PROVE ClaimOf(u)'
    BY <1>1, <1>2, <1>3, <1>4, <1>5, <1>6, <1>7
       DEF LocInv, PlaceTypes, Claiming, ClaimOf, PostLabels, OnlyOn
  <2>2. \A u, v \in Threads : target'[u] = target'[v] /\ target'[u] # NULL => u = v
    BY <1>1, <1>2, <1>3, <1>4, <1>5, <1>6, <1>7
       DEF LocInv, PlaceTypes, Claiming, ClaimOf, PostLabels, OnlyOn
  <2> QED  BY <2>1, <2>2 DEF Claiming
<1>h. Locking'
  BY <1>1, <1>2, <1>3, <1>4, <1>5, <1>6, <1>7
     DEF LocInv, Locking, Interruptible, OnlyOn
<1>i. Pending'
  <2>0. \A k, l \in callouts' : k.td = l.td => k = l
    BY <1>1, <1>2, <1>3, <1>4, <1>5, <1>6, <1>7, CalloutFields
       DEF LocInv, Pending, OnlyOn
  <2>1. ASSUME NEW k \in callouts', k.kind = "quantum"  PROVE QuantumOf(k)'
    BY <1>1, <1>2, <1>3, <1>4, <1>5, <1>6, <1>7, <2>1, CalloutFields
       DEF LocInv, Pending, QuantumOf, OnlyOn
  <2>2. ASSUME NEW k \in callouts', k.kind = "sem"  PROVE TimeoutOf(k)'
    BY <1>1, <1>2, <1>3, <1>4, <1>5, <1>6, <1>7, <2>2, CalloutFields
       DEF LocInv, Pending, TimeoutOf, Timed, Waits, OnlyOn
  <2>3. ASSUME NEW k \in callouts', k.kind = "sleep"  PROVE SleepOf(k)'
    BY <1>1, <1>2, <1>3, <1>4, <1>5, <1>6, <1>7, <2>3, CalloutFields
       DEF LocInv, Pending, SleepOf, Waits, OnlyOn
  <2>4. ASSUME NEW d \in CPUs, hpc'[d] = "sem_cb"  PROVE SemCbOf(d)'
    <3>1. PICK y \in Threads : /\ y = cbtd[d] /\ y = cbtd'[d] /\ Timed(y)
                               /\ td_c_cpu[y] = d /\ td_state[y] \in {"ACK", "SEM_UNLOCK"}
                               /\ \A k \in callouts : k.td # y
      BY <1>1, <1>2, <1>3, <1>4, <1>5, <1>6, <1>7, <2>4
         DEF LocInv, PlaceTypes, Handlers, Pending, SemCbOf
    <3>2. Timed(y)'
      BY <1>1, <1>2, <1>3, <1>4, <1>5, <1>6, <1>7, <3>1
         DEF LocInv, Timed, Waits, OnlyOn
    <3> QED
      BY <1>1, <1>2, <1>3, <1>4, <1>5, <1>6, <1>7, <3>1, <3>2 DEF SemCbOf, OnlyOn
  <2> QED  BY <1>1, <1>2, <1>3, <1>4, <1>5, <1>6, <1>7, <2>0, <2>1, <2>2, <2>3, <2>4
              DEF Pending
<1>j. Located'
  <2>1. ASSUME NEW u \in alive'
        PROVE  (\E d \in CPUs : curthread'[d] = u) \/ InQueue(u)' \/ Parked(u)'
    BY <1>1, <1>2, <1>3, <1>4, <1>5, <1>6, <1>7
       DEF LocInv, Located, Parked, InQueue, Waits, OnlyOn
  <2>2. ASSUME NEW u \in CPUs
        PROVE  InQueue(u)' \/ \E d \in CPUs : curthread'[d] = u
    BY <1>1, <1>2, <1>3, <1>4, <1>5, <1>6, <1>7
       DEF LocInv, Located, Parked, InQueue, Waits, OnlyOn
  <2>3. ASSUME NEW u \in Threads
        PROVE  /\ td_state'[u] \in {"SEM_WAIT", "SLEEPING"} => Parked(u)'
               /\ td_state'[u] = "SEM_WAIT" => \E d \in CPUs : curthread'[d] = u
    BY <1>1, <1>2, <1>3, <1>4, <1>5, <1>6, <1>7
       DEF LocInv, Located, Parked, InQueue, Waits, OnlyOn
  <2> QED  BY <2>1, <2>2, <2>3 DEF Located
<1>k. Ended'
  BY <1>1, <1>2, <1>3, <1>4, <1>5, <1>6, <1>7
     DEF LocInv, Ended, WaitLabels, OnlyOn
<1>l. Available'
  BY <1>1, <1>2, <1>3, <1>4, <1>5, <1>6, <1>7
     DEF LocInv, Available, Idle, OnlyOn
<1> QED  BY <1>a, <1>b, <1>c, <1>d, <1>e, <1>f, <1>g, <1>h, <1>i, <1>j, <1>k, <1>l
         DEF LocInv

\* mdx_thread_terminate.
LEMMA TerminateStep ==
  ASSUME LocInv, NEW c \in CPUs, NEW t \in Threads, mdx_thread_terminate(c, t)
  PROVE  LocInv'
<1>1. CPUs \cap Threads = {} /\ NULL \notin CPUs /\ NULL \notin Threads
      /\ AllThreads = Threads \cup CPUs
  BY Kinds
<1>2. tpc[t] = "user" /\ OnlyOn(c, t)
  BY AtRunning DEF mdx_thread_terminate
<1>3. /\ runq' = runq /\ pcpu_list' = pcpu_list /\ pending_ipis' = pending_ipis
      /\ alive' = alive /\ curthread' = curthread /\ hpc' = hpc
      /\ cbtd' = cbtd /\ td_c_cpu' = td_c_cpu /\ armed' = armed
      /\ td_list' = td_list /\ target' = target /\ sem_lock' = sem_lock
      /\ usec' = usec /\ timeout' = timeout
  BY DEF mdx_thread_terminate, schedVars, threadVars, cpuVars, calloutVars, semVars,
     localVars, permitVars
<1>4. /\ tpc' \in [AllThreads -> ThreadLabels \cup {"boot", "idle"}]
      /\ tpc'[t] = "exit_yield"
      /\ \A u \in AllThreads : u # t => tpc'[u] = tpc[u]
      /\ \A u \in Threads : tpc'[u] \in ThreadLabels
      /\ \A d \in CPUs : tpc'[d] \in {"boot", "idle"}
  BY GotoStep DEF LocInv, ThreadLabels, mdx_thread_terminate
<1>5. /\ td_state' \in [AllThreads -> States]
      /\ td_state'[t] = "TERMINATING"
      /\ \A u \in AllThreads : u # t => td_state'[u] = td_state[u]
      /\ \A d \in CPUs : td_state'[d] = "READY"
  BY StateStep DEF LocInv, mdx_thread_terminate, States
<1>6. /\ callouts' \subseteq CalloutTypes /\ callouts' \subseteq callouts
      /\ \A k \in callouts : k.td # t => k \in callouts'
      /\ \A k \in callouts' : k.td # t
  <2>1. \A k \in callouts : k \in Deadlines(t) <=> k.td = t
    BY <1>2 DEF Deadlines, OnlyOn
  <2> QED  BY <2>1 DEF LocInv, PlaceTypes, mdx_thread_terminate, cancel_deadline
<1>a. PlaceTypes'
  BY <1>1, <1>2, <1>3, <1>4, <1>5, <1>6
     DEF LocInv, PlaceTypes, OnlyOn
<1>b. RunQueue'
  BY <1>1, <1>2, <1>3, <1>4, <1>5, <1>6, SameQueue DEF LocInv
<1>c. Handlers'
  BY <1>1, <1>2, <1>3, <1>4, <1>5, <1>6
     DEF LocInv, Handlers
<1>d. Running'
  BY <1>1, <1>2, <1>3, <1>4, <1>5, <1>6
     DEF LocInv, Running, OnlyOn
<1>e. Ready'
  BY <1>1, <1>2, <1>3, <1>4, <1>5, <1>6
     DEF LocInv, Ready, InQueue, Waits, OnlyOn
<1>f. Waiting'
  BY <1>1, <1>2, <1>3, <1>4, <1>5, <1>6
     DEF LocInv, Waiting, Waits, WaitLabels, OnlyOn
<1>g. Claiming'
  <2>1. ASSUME NEW u \in Threads  PROVE ClaimOf(u)'
    BY <1>1, <1>2, <1>3, <1>4, <1>5, <1>6
       DEF LocInv, PlaceTypes, Claiming, ClaimOf, PostLabels, OnlyOn
  <2>2. \A u, v \in Threads : target'[u] = target'[v] /\ target'[u] # NULL => u = v
    BY <1>1, <1>2, <1>3, <1>4, <1>5, <1>6
       DEF LocInv, PlaceTypes, Claiming, ClaimOf, PostLabels, OnlyOn
  <2> QED  BY <2>1, <2>2 DEF Claiming
<1>h. Locking'
  BY <1>1, <1>2, <1>3, <1>4, <1>5, <1>6
     DEF LocInv, Locking, Interruptible, OnlyOn
<1>i. Pending'
  <2>0. \A k, l \in callouts' : k.td = l.td => k = l
    BY <1>1, <1>2, <1>3, <1>4, <1>5, <1>6, CalloutFields
       DEF LocInv, Pending, OnlyOn
  <2>1. ASSUME NEW k \in callouts', k.kind = "quantum"  PROVE QuantumOf(k)'
    BY <1>1, <1>2, <1>3, <1>4, <1>5, <1>6, <2>1, CalloutFields
       DEF LocInv, Pending, QuantumOf, OnlyOn
  <2>2. ASSUME NEW k \in callouts', k.kind = "sem"  PROVE TimeoutOf(k)'
    BY <1>1, <1>2, <1>3, <1>4, <1>5, <1>6, <2>2, CalloutFields
       DEF LocInv, Pending, TimeoutOf, Timed, Waits, OnlyOn
  <2>3. ASSUME NEW k \in callouts', k.kind = "sleep"  PROVE SleepOf(k)'
    BY <1>1, <1>2, <1>3, <1>4, <1>5, <1>6, <2>3, CalloutFields
       DEF LocInv, Pending, SleepOf, Waits, OnlyOn
  <2>4. ASSUME NEW d \in CPUs, hpc'[d] = "sem_cb"  PROVE SemCbOf(d)'
    <3>1. PICK y \in Threads : /\ y = cbtd[d] /\ y = cbtd'[d] /\ Timed(y)
                               /\ td_c_cpu[y] = d /\ td_state[y] \in {"ACK", "SEM_UNLOCK"}
                               /\ \A k \in callouts : k.td # y
      BY <1>1, <1>2, <1>3, <1>4, <1>5, <1>6, <2>4
         DEF LocInv, PlaceTypes, Handlers, Pending, SemCbOf
    <3>2. Timed(y)'
      BY <1>1, <1>2, <1>3, <1>4, <1>5, <1>6, <3>1 DEF LocInv, Timed, Waits, OnlyOn
    <3> QED
      BY <1>1, <1>2, <1>3, <1>4, <1>5, <1>6, <3>1, <3>2 DEF SemCbOf, OnlyOn
  <2> QED  BY <1>1, <1>2, <1>3, <1>4, <1>5, <1>6, <2>0, <2>1, <2>2, <2>3, <2>4
              DEF Pending
<1>j. Located'
  <2>1. ASSUME NEW u \in alive'
        PROVE  (\E d \in CPUs : curthread'[d] = u) \/ InQueue(u)' \/ Parked(u)'
    BY <1>1, <1>2, <1>3, <1>4, <1>5, <1>6
       DEF LocInv, Located, Parked, InQueue, Waits, OnlyOn
  <2>2. ASSUME NEW u \in CPUs
        PROVE  InQueue(u)' \/ \E d \in CPUs : curthread'[d] = u
    BY <1>1, <1>2, <1>3, <1>4, <1>5, <1>6
       DEF LocInv, Located, Parked, InQueue, Waits, OnlyOn
  <2>3. ASSUME NEW u \in Threads
        PROVE  /\ td_state'[u] \in {"SEM_WAIT", "SLEEPING"} => Parked(u)'
               /\ td_state'[u] = "SEM_WAIT" => \E d \in CPUs : curthread'[d] = u
    BY <1>1, <1>2, <1>3, <1>4, <1>5, <1>6
       DEF LocInv, Located, Parked, InQueue, Waits, OnlyOn
  <2> QED  BY <2>1, <2>2, <2>3 DEF Located
<1>k. Ended'
  BY <1>1, <1>2, <1>3, <1>4, <1>5, <1>6
     DEF LocInv, Ended, WaitLabels, OnlyOn
<1>l. Available'
  BY <1>1, <1>2, <1>3, <1>4, <1>5, <1>6
     DEF LocInv, Available, Idle, OnlyOn
<1> QED  BY <1>a, <1>b, <1>c, <1>d, <1>e, <1>f, <1>g, <1>h, <1>i, <1>j, <1>k, <1>l
         DEF LocInv

\* mdx_thread_yield of a cooperative thread, which has no quantum.
LEMMA YieldStep ==
  ASSUME LocInv, NEW c \in CPUs, NEW t \in Threads, mdx_thread_yield(c, t),
         "yield_any" \notin Ops
  PROVE  LocInv'
<1>1. CPUs \cap Threads = {} /\ NULL \notin CPUs /\ NULL \notin Threads
      /\ AllThreads = Threads \cup CPUs
  BY Kinds
<1>2. tpc[t] = "user" /\ OnlyOn(c, t) /\ t \notin Preemptive
  BY AtRunning DEF mdx_thread_yield
<1>3. /\ runq' = runq /\ pcpu_list' = pcpu_list /\ pending_ipis' = pending_ipis
      /\ alive' = alive /\ curthread' = curthread /\ hpc' = hpc
      /\ cbtd' = cbtd /\ callouts' = callouts /\ td_c_cpu' = td_c_cpu
      /\ armed' = armed /\ td_list' = td_list /\ target' = target
      /\ sem_lock' = sem_lock /\ usec' = usec /\ timeout' = timeout
  BY DEF mdx_thread_yield, schedVars, threadVars, cpuVars, calloutVars, semVars,
     localVars, permitVars
<1>4. /\ tpc' \in [AllThreads -> ThreadLabels \cup {"boot", "idle"}]
      /\ tpc'[t] = "yield"
      /\ \A u \in AllThreads : u # t => tpc'[u] = tpc[u]
      /\ \A u \in Threads : tpc'[u] \in ThreadLabels
      /\ \A d \in CPUs : tpc'[d] \in {"boot", "idle"}
  BY GotoStep DEF LocInv, ThreadLabels, mdx_thread_yield
<1>5. /\ td_state' \in [AllThreads -> States]
      /\ td_state'[t] = "YIELDING"
      /\ \A u \in AllThreads : u # t => td_state'[u] = td_state[u]
      /\ \A d \in CPUs : td_state'[d] = "READY"
  BY StateStep DEF LocInv, mdx_thread_yield, States
<1>6. \A k \in callouts : k.td # t
  BY <1>2 DEF OnlyOn
<1>a. PlaceTypes'
  BY <1>1, <1>2, <1>3, <1>4, <1>5, <1>6
     DEF LocInv, PlaceTypes, OnlyOn
<1>b. RunQueue'
  BY <1>1, <1>2, <1>3, <1>4, <1>5, <1>6, SameQueue DEF LocInv
<1>c. Handlers'
  BY <1>1, <1>2, <1>3, <1>4, <1>5, <1>6
     DEF LocInv, Handlers
<1>d. Running'
  BY <1>1, <1>2, <1>3, <1>4, <1>5, <1>6
     DEF LocInv, Running, OnlyOn
<1>e. Ready'
  BY <1>1, <1>2, <1>3, <1>4, <1>5, <1>6
     DEF LocInv, Ready, InQueue, Waits, OnlyOn
<1>f. Waiting'
  BY <1>1, <1>2, <1>3, <1>4, <1>5, <1>6
     DEF LocInv, Waiting, Waits, WaitLabels, OnlyOn
<1>g. Claiming'
  <2>1. ASSUME NEW u \in Threads  PROVE ClaimOf(u)'
    BY <1>1, <1>2, <1>3, <1>4, <1>5, <1>6
       DEF LocInv, PlaceTypes, Claiming, ClaimOf, PostLabels, OnlyOn
  <2>2. \A u, v \in Threads : target'[u] = target'[v] /\ target'[u] # NULL => u = v
    BY <1>1, <1>2, <1>3, <1>4, <1>5, <1>6
       DEF LocInv, PlaceTypes, Claiming, ClaimOf, PostLabels, OnlyOn
  <2> QED  BY <2>1, <2>2 DEF Claiming
<1>h. Locking'
  BY <1>1, <1>2, <1>3, <1>4, <1>5, <1>6
     DEF LocInv, Locking, Interruptible, OnlyOn
<1>i. Pending'
  <2>0. \A k, l \in callouts' : k.td = l.td => k = l
    BY <1>1, <1>2, <1>3, <1>4, <1>5, <1>6, CalloutFields
       DEF LocInv, Pending, OnlyOn
  <2>1. ASSUME NEW k \in callouts', k.kind = "quantum"  PROVE QuantumOf(k)'
    BY <1>1, <1>2, <1>3, <1>4, <1>5, <1>6, <2>1, CalloutFields
       DEF LocInv, Pending, QuantumOf, OnlyOn
  <2>2. ASSUME NEW k \in callouts', k.kind = "sem"  PROVE TimeoutOf(k)'
    BY <1>1, <1>2, <1>3, <1>4, <1>5, <1>6, <2>2, CalloutFields
       DEF LocInv, Pending, TimeoutOf, Timed, Waits, OnlyOn
  <2>3. ASSUME NEW k \in callouts', k.kind = "sleep"  PROVE SleepOf(k)'
    BY <1>1, <1>2, <1>3, <1>4, <1>5, <1>6, <2>3, CalloutFields
       DEF LocInv, Pending, SleepOf, Waits, OnlyOn
  <2>4. ASSUME NEW d \in CPUs, hpc'[d] = "sem_cb"  PROVE SemCbOf(d)'
    <3>1. PICK y \in Threads : /\ y = cbtd[d] /\ y = cbtd'[d] /\ Timed(y)
                               /\ td_c_cpu[y] = d /\ td_state[y] \in {"ACK", "SEM_UNLOCK"}
                               /\ \A k \in callouts : k.td # y
      BY <1>1, <1>2, <1>3, <1>4, <1>5, <1>6, <2>4
         DEF LocInv, PlaceTypes, Handlers, Pending, SemCbOf
    <3>2. Timed(y)'
      BY <1>1, <1>2, <1>3, <1>4, <1>5, <1>6, <3>1 DEF LocInv, Timed, Waits, OnlyOn
    <3> QED
      BY <1>1, <1>2, <1>3, <1>4, <1>5, <1>6, <3>1, <3>2 DEF SemCbOf, OnlyOn
  <2> QED  BY <1>1, <1>2, <1>3, <1>4, <1>5, <1>6, <2>0, <2>1, <2>2, <2>3, <2>4
              DEF Pending
<1>j. Located'
  <2>1. ASSUME NEW u \in alive'
        PROVE  (\E d \in CPUs : curthread'[d] = u) \/ InQueue(u)' \/ Parked(u)'
    BY <1>1, <1>2, <1>3, <1>4, <1>5, <1>6
       DEF LocInv, Located, Parked, InQueue, Waits, OnlyOn
  <2>2. ASSUME NEW u \in CPUs
        PROVE  InQueue(u)' \/ \E d \in CPUs : curthread'[d] = u
    BY <1>1, <1>2, <1>3, <1>4, <1>5, <1>6
       DEF LocInv, Located, Parked, InQueue, Waits, OnlyOn
  <2>3. ASSUME NEW u \in Threads
        PROVE  /\ td_state'[u] \in {"SEM_WAIT", "SLEEPING"} => Parked(u)'
               /\ td_state'[u] = "SEM_WAIT" => \E d \in CPUs : curthread'[d] = u
    BY <1>1, <1>2, <1>3, <1>4, <1>5, <1>6
       DEF LocInv, Located, Parked, InQueue, Waits, OnlyOn
  <2> QED  BY <2>1, <2>2, <2>3 DEF Located
<1>k. Ended'
  BY <1>1, <1>2, <1>3, <1>4, <1>5, <1>6
     DEF LocInv, Ended, WaitLabels, OnlyOn
<1>l. Available'
  BY <1>1, <1>2, <1>3, <1>4, <1>5, <1>6
     DEF LocInv, Available, Idle, OnlyOn
<1> QED  BY <1>a, <1>b, <1>c, <1>d, <1>e, <1>f, <1>g, <1>h, <1>i, <1>j, <1>k, <1>l
         DEF LocInv

\* mdx_thread_create.
LEMMA CreateStep ==
  ASSUME LocInv, NEW c \in CPUs, NEW t \in Threads, NEW n \in Threads,
         mdx_thread_create(c, t, n)
  PROVE  LocInv'
<1>1. CPUs \cap Threads = {} /\ NULL \notin CPUs /\ NULL \notin Threads
      /\ AllThreads = Threads \cup CPUs
  BY Kinds
<1>2. n \in Threads /\ n \notin alive
  BY DEF mdx_thread_create
<1>3. /\ pcpu_list' = pcpu_list /\ curthread' = curthread /\ hpc' = hpc
      /\ cbtd' = cbtd /\ callouts' = callouts /\ armed' = armed
      /\ td_list' = td_list /\ target' = target /\ sem_lock' = sem_lock
      /\ usec' = usec /\ timeout' = timeout
  BY DEF mdx_thread_create, schedVars, threadVars, cpuVars, calloutVars, semVars,
     localVars, permitVars
<1>4. /\ tpc' \in [AllThreads -> ThreadLabels \cup {"boot", "idle"}]
      /\ tpc'[n] = "user"
      /\ \A u \in AllThreads : u # n => tpc'[u] = tpc[u]
      /\ \A u \in Threads : tpc'[u] \in ThreadLabels
      /\ \A d \in CPUs : tpc'[d] \in {"boot", "idle"}
  BY GotoStep DEF LocInv, ThreadLabels, mdx_thread_create, mdx_thread_setup
<1>5. /\ td_state' \in [AllThreads -> States]
      /\ td_state'[n] = "READY"
      /\ \A u \in AllThreads : u # n => td_state'[u] = td_state[u]
      /\ \A d \in CPUs : td_state'[d] = "READY"
  BY StateStep DEF LocInv, mdx_thread_create, mdx_thread_setup, States
<1>6. /\ alive' = alive \cup {n}
      /\ td_c_cpu' \in [Threads -> CPUs]
      /\ \A u \in Threads : u # n => td_c_cpu'[u] = td_c_cpu[u]
  BY SchedAssumption DEF LocInv, PlaceTypes, mdx_thread_create, mdx_thread_setup
<1>7. /\ ~InQueue(n) /\ ~Waits(n)
      /\ \A u \in Threads : target[u] # n
      /\ \A d \in CPUs : curthread[d] # n /\ cbtd[d] # n
      /\ \A k \in callouts : k.td # n
      /\ tpc[n] \in {"user", "exit_yield", "not_reached"}
  <2>1. /\ ~InQueue(n) /\ ~Waits(n)
        /\ \A u \in Threads : target[u] # n
        /\ \A d \in CPUs : curthread[d] # n
        /\ tpc[n] \in {"user", "exit_yield", "not_reached"}
    BY <1>1, <1>2 DEF LocInv, Ready, Waiting, Claiming, ClaimOf, Running, Ended
  <2>2. \A k \in callouts : k.td # n
    BY <1>2, <2>1, CalloutFields
       DEF LocInv, Pending, QuantumOf, TimeoutOf, Timed, SleepOf
  <2>3. \A d \in CPUs : cbtd[d] # n
    BY <1>1, <1>2 DEF LocInv, Handlers, Pending, SemCbOf, Timed
  <2> QED  BY <2>1, <2>2, <2>3
<1>8. /\ RunQueue' /\ pending_ipis' \subseteq CPUs
      /\ \A u \in AllThreads :
           On(runq'[PrioOf(u)], u) <=> On(runq[PrioOf(u)], u) \/ u = n
  BY <1>1, <1>7, AddToQueue DEF LocInv, mdx_thread_create
<1>a. PlaceTypes'
  BY <1>1, <1>2, <1>3, <1>4, <1>5, <1>6, <1>7, <1>8
     DEF LocInv, PlaceTypes, OnlyOn
<1>b. RunQueue'
  BY <1>8
<1>c. Handlers'
  BY <1>1, <1>2, <1>3, <1>4, <1>5, <1>6, <1>7, <1>8
     DEF LocInv, Handlers
<1>d. Running'
  BY <1>1, <1>2, <1>3, <1>4, <1>5, <1>6, <1>7, <1>8
     DEF LocInv, Running, OnlyOn
<1>e. Ready'
  BY <1>1, <1>2, <1>3, <1>4, <1>5, <1>6, <1>7, <1>8
     DEF LocInv, Ready, InQueue, Waits, OnlyOn
<1>f. Waiting'
  BY <1>1, <1>2, <1>3, <1>4, <1>5, <1>6, <1>7, <1>8
     DEF LocInv, Waiting, Waits, WaitLabels, OnlyOn
<1>g. Claiming'
  <2>1. ASSUME NEW u \in Threads  PROVE ClaimOf(u)'
    BY <1>1, <1>2, <1>3, <1>4, <1>5, <1>6, <1>7, <1>8
       DEF LocInv, PlaceTypes, Claiming, ClaimOf, PostLabels, OnlyOn
  <2>2. \A u, v \in Threads : target'[u] = target'[v] /\ target'[u] # NULL => u = v
    BY <1>1, <1>2, <1>3, <1>4, <1>5, <1>6, <1>7, <1>8
       DEF LocInv, PlaceTypes, Claiming, ClaimOf, PostLabels, OnlyOn
  <2> QED  BY <2>1, <2>2 DEF Claiming
<1>h. Locking'
  BY <1>1, <1>2, <1>3, <1>4, <1>5, <1>6, <1>7, <1>8
     DEF LocInv, Locking, Interruptible, PostLabels
<1>i. Pending'
  <2>0. \A k, l \in callouts' : k.td = l.td => k = l
    BY <1>1, <1>2, <1>3, <1>4, <1>5, <1>6, <1>7, <1>8, CalloutFields
       DEF LocInv, Pending, OnlyOn
  <2>1. ASSUME NEW k \in callouts', k.kind = "quantum"  PROVE QuantumOf(k)'
    BY <1>1, <1>2, <1>3, <1>4, <1>5, <1>6, <1>7, <1>8, <2>1, CalloutFields
       DEF LocInv, Pending, QuantumOf, OnlyOn
  <2>2. ASSUME NEW k \in callouts', k.kind = "sem"  PROVE TimeoutOf(k)'
    BY <1>1, <1>2, <1>3, <1>4, <1>5, <1>6, <1>7, <1>8, <2>2, CalloutFields
       DEF LocInv, Pending, TimeoutOf, Timed, Waits, OnlyOn
  <2>3. ASSUME NEW k \in callouts', k.kind = "sleep"  PROVE SleepOf(k)'
    BY <1>1, <1>2, <1>3, <1>4, <1>5, <1>6, <1>7, <1>8, <2>3, CalloutFields
       DEF LocInv, Pending, SleepOf, Waits, OnlyOn
  <2>4. ASSUME NEW d \in CPUs, hpc'[d] = "sem_cb"  PROVE SemCbOf(d)'
    <3>1. PICK y \in Threads : /\ y = cbtd[d] /\ y = cbtd'[d] /\ Timed(y)
                               /\ td_c_cpu[y] = d /\ td_state[y] \in {"ACK", "SEM_UNLOCK"}
                               /\ \A k \in callouts : k.td # y
      BY <1>1, <1>2, <1>3, <1>4, <1>5, <1>6, <1>7, <1>8, <2>4
         DEF LocInv, PlaceTypes, Handlers, Pending, SemCbOf
    <3>2. Timed(y)'
      BY <1>1, <1>2, <1>3, <1>4, <1>5, <1>6, <1>7, <1>8, <3>1
         DEF LocInv, Timed, Waits, OnlyOn
    <3> QED
      BY <1>1, <1>2, <1>3, <1>4, <1>5, <1>6, <1>7, <1>8, <3>1, <3>2
         DEF SemCbOf, OnlyOn
  <2> QED  BY <1>1, <1>2, <1>3, <1>4, <1>5, <1>6, <1>7, <1>8, <2>0, <2>1, <2>2,
              <2>3, <2>4
              DEF Pending
<1>j. Located'
  <2>1. ASSUME NEW u \in alive'
        PROVE  (\E d \in CPUs : curthread'[d] = u) \/ InQueue(u)' \/ Parked(u)'
    <3>1. CASE u = n
      BY <1>1, <1>2, <1>3, <1>4, <1>5, <1>6, <1>7, <1>8, <3>1
         DEF LocInv, Parked, InQueue, Waits
    <3>2. CASE u # n
      <4>1. /\ u \in Threads /\ u \in AllThreads /\ u # NULL
            /\ \/ \E d \in CPUs : curthread[d] = u
               \/ InQueue(u) \/ Parked(u)
        BY <1>1, <1>2, <1>3, <1>4, <1>5, <1>6, <1>7, <1>8, <3>2
           DEF LocInv, PlaceTypes, Located
      <4>2. CASE \E v \in Threads : target[v] = u
        <5>1. PICK v \in Threads : target[v] = u  BY <4>2
        <5>2. target'[v] = u
          BY <1>1, <1>2, <1>3, <1>4, <1>5, <1>6, <1>7, <1>8, <3>2, <4>1, <5>1
        <5> QED  BY <5>2 DEF Parked
      <4> QED  BY <1>1, <1>2, <1>3, <1>4, <1>5, <1>6, <1>7, <1>8, <3>2, <4>1, <4>2
            DEF Parked, InQueue, Waits, OnlyOn
    <3> QED  BY <3>1, <3>2
  <2>2. ASSUME NEW u \in CPUs
        PROVE  InQueue(u)' \/ \E d \in CPUs : curthread'[d] = u
    BY <1>1, <1>2, <1>3, <1>4, <1>5, <1>6, <1>7, <1>8
       DEF LocInv, Located, Parked, InQueue, Waits, OnlyOn
  <2>3. ASSUME NEW u \in Threads
        PROVE  /\ td_state'[u] \in {"SEM_WAIT", "SLEEPING"} => Parked(u)'
               /\ td_state'[u] = "SEM_WAIT" => \E d \in CPUs : curthread'[d] = u
    BY <1>1, <1>2, <1>3, <1>4, <1>5, <1>6, <1>7, <1>8
       DEF LocInv, Located, Parked, InQueue, Waits, OnlyOn
  <2> QED  BY <2>1, <2>2, <2>3 DEF Located
<1>k. Ended'
  BY <1>1, <1>2, <1>3, <1>4, <1>5, <1>6, <1>7, <1>8
     DEF LocInv, Ended, WaitLabels, OnlyOn
<1>l. Available'
  BY <1>1, <1>2, <1>3, <1>4, <1>5, <1>6, <1>7, <1>8
     DEF LocInv, Available, Idle, OnlyOn
<1> QED  BY <1>a, <1>b, <1>c, <1>d, <1>e, <1>f, <1>g, <1>h, <1>i, <1>j, <1>k, <1>l
         DEF LocInv

\* mdx_sched_cb.
LEMMA FireQuantumStep ==
  ASSUME LocInv, NEW c \in CPUs, NEW fired \in callouts, callout_fire(c, fired),
         fired.kind = "quantum"
  PROVE  LocInv'
<1>1. CPUs \cap Threads = {} /\ NULL \notin CPUs /\ NULL \notin Threads
      /\ AllThreads = Threads \cup CPUs
  BY Kinds
<1>2. PICK t \in Threads : t = fired.td
  BY CalloutFields DEF LocInv
<1>3. hpc[c] = "callback" /\ fired.cpu = c
  BY DEF callout_fire
<1>4. curthread[c] = t /\ td_state[t] = "RUNNING" /\ t \in alive
  BY <1>2, <1>3 DEF LocInv, Pending, QuantumOf, Running
<1>5. /\ runq' = runq /\ pcpu_list' = pcpu_list /\ pending_ipis' = pending_ipis
      /\ alive' = alive /\ curthread' = curthread /\ hpc' = hpc
      /\ cbtd' = cbtd /\ td_c_cpu' = td_c_cpu /\ armed' = armed
      /\ td_list' = td_list /\ target' = target /\ sem_lock' = sem_lock
      /\ usec' = usec /\ timeout' = timeout
  BY DEF callout_fire, schedVars, threadVars, cpuVars, calloutVars, semVars,
     localVars, permitVars
<1>6. tpc' = tpc
  BY DEF callout_fire
<1>7. /\ td_state' \in [AllThreads -> States]
      /\ td_state'[t] = "READY"
      /\ \A u \in AllThreads : u # t => td_state'[u] = td_state[u]
      /\ \A d \in CPUs : td_state'[d] = "READY"
  BY <1>2, StateStep DEF LocInv, callout_fire, mdx_sched_cb, States
<1>8. callouts' = callouts \ {fired} /\ \A j \in callouts' : j.td # t
  BY <1>2 DEF LocInv, Pending, callout_fire
<1>9. /\ ~InQueue(t) /\ ~Waits(t)
      /\ \A u \in Threads : target[u] # t
      /\ \A d \in CPUs : curthread[d] = t => d = c
      /\ \A d \in CPUs : cbtd[d] # t
  BY <1>1, <1>4
     DEF LocInv, Ready, Waiting, Claiming, ClaimOf, PostLabels, Handlers, Pending,
         SemCbOf
<1>a. PlaceTypes'
  BY <1>1, <1>2, <1>3, <1>4, <1>5, <1>6, <1>7, <1>8, <1>9
     DEF LocInv, PlaceTypes
<1>b. RunQueue'
  BY <1>1, <1>2, <1>3, <1>4, <1>5, <1>6, <1>7, <1>8, <1>9, SameQueue DEF LocInv
<1>c. Handlers'
  BY <1>1, <1>2, <1>3, <1>4, <1>5, <1>6, <1>7, <1>8, <1>9
     DEF LocInv, Handlers
<1>d. Running'
  BY <1>1, <1>2, <1>3, <1>4, <1>5, <1>6, <1>7, <1>8, <1>9
     DEF LocInv, Running
<1>e. Ready'
  BY <1>1, <1>2, <1>3, <1>4, <1>5, <1>6, <1>7, <1>8, <1>9
     DEF LocInv, Ready, InQueue, Waits
<1>f. Waiting'
  BY <1>1, <1>2, <1>3, <1>4, <1>5, <1>6, <1>7, <1>8, <1>9
     DEF LocInv, Waiting, Waits, WaitLabels
<1>g. Claiming'
  <2>1. ASSUME NEW u \in Threads  PROVE ClaimOf(u)'
    BY <1>1, <1>2, <1>3, <1>4, <1>5, <1>6, <1>7, <1>8, <1>9
       DEF LocInv, PlaceTypes, Claiming, ClaimOf, PostLabels
  <2>2. \A u, v \in Threads : target'[u] = target'[v] /\ target'[u] # NULL => u = v
    BY <1>1, <1>2, <1>3, <1>4, <1>5, <1>6, <1>7, <1>8, <1>9
       DEF LocInv, PlaceTypes, Claiming, ClaimOf, PostLabels
  <2> QED  BY <2>1, <2>2 DEF Claiming
<1>h. Locking'
  BY <1>1, <1>2, <1>3, <1>4, <1>5, <1>6, <1>7, <1>8, <1>9
     DEF LocInv, Locking, Interruptible
<1>i. Pending'
  <2>0. \A k, l \in callouts' : k.td = l.td => k = l
    BY <1>1, <1>2, <1>3, <1>4, <1>5, <1>6, <1>7, <1>8, <1>9, CalloutFields
       DEF LocInv, Pending, OnlyOn
  <2>1. ASSUME NEW k \in callouts', k.kind = "quantum"  PROVE QuantumOf(k)'
    BY <1>1, <1>2, <1>3, <1>4, <1>5, <1>6, <1>7, <1>8, <1>9, <2>1, CalloutFields
       DEF LocInv, Pending, QuantumOf, OnlyOn
  <2>2. ASSUME NEW k \in callouts', k.kind = "sem"  PROVE TimeoutOf(k)'
    BY <1>1, <1>2, <1>3, <1>4, <1>5, <1>6, <1>7, <1>8, <1>9, <2>2, CalloutFields
       DEF LocInv, Pending, TimeoutOf, Timed, Waits, OnlyOn
  <2>3. ASSUME NEW k \in callouts', k.kind = "sleep"  PROVE SleepOf(k)'
    BY <1>1, <1>2, <1>3, <1>4, <1>5, <1>6, <1>7, <1>8, <1>9, <2>3, CalloutFields
       DEF LocInv, Pending, SleepOf, Waits, OnlyOn
  <2>4. ASSUME NEW d \in CPUs, hpc'[d] = "sem_cb"  PROVE SemCbOf(d)'
    <3>1. PICK y \in Threads : /\ y = cbtd[d] /\ y = cbtd'[d] /\ Timed(y)
                               /\ td_c_cpu[y] = d /\ td_state[y] \in {"ACK", "SEM_UNLOCK"}
                               /\ \A k \in callouts : k.td # y
      BY <1>1, <1>2, <1>3, <1>4, <1>5, <1>6, <1>7, <1>8, <1>9, <2>4
         DEF LocInv, PlaceTypes, Handlers, Pending, SemCbOf
    <3>2. Timed(y)'
      BY <1>1, <1>2, <1>3, <1>4, <1>5, <1>6, <1>7, <1>8, <1>9, <3>1
         DEF LocInv, Timed, Waits, OnlyOn
    <3> QED
      BY <1>1, <1>2, <1>3, <1>4, <1>5, <1>6, <1>7, <1>8, <1>9, <3>1, <3>2
         DEF SemCbOf, OnlyOn
  <2> QED  BY <1>1, <1>2, <1>3, <1>4, <1>5, <1>6, <1>7, <1>8, <1>9, <2>0, <2>1,
              <2>2, <2>3, <2>4
              DEF Pending
<1>j. Located'
  <2>1. ASSUME NEW u \in alive'
        PROVE  (\E d \in CPUs : curthread'[d] = u) \/ InQueue(u)' \/ Parked(u)'
    BY <1>1, <1>2, <1>3, <1>4, <1>5, <1>6, <1>7, <1>8, <1>9
       DEF LocInv, Located, Parked, InQueue, Waits
  <2>2. ASSUME NEW u \in CPUs
        PROVE  InQueue(u)' \/ \E d \in CPUs : curthread'[d] = u
    BY <1>1, <1>2, <1>3, <1>4, <1>5, <1>6, <1>7, <1>8, <1>9
       DEF LocInv, Located, Parked, InQueue, Waits
  <2>3. ASSUME NEW u \in Threads
        PROVE  /\ td_state'[u] \in {"SEM_WAIT", "SLEEPING"} => Parked(u)'
               /\ td_state'[u] = "SEM_WAIT" => \E d \in CPUs : curthread'[d] = u
    BY <1>1, <1>2, <1>3, <1>4, <1>5, <1>6, <1>7, <1>8, <1>9
       DEF LocInv, Located, Parked, InQueue, Waits
  <2> QED  BY <2>1, <2>2, <2>3 DEF Located
<1>k. Ended'
  BY <1>1, <1>2, <1>3, <1>4, <1>5, <1>6, <1>7, <1>8, <1>9
     DEF LocInv, Ended, WaitLabels
<1>l. Available'
  BY <1>1, <1>2, <1>3, <1>4, <1>5, <1>6, <1>7, <1>8, <1>9
     DEF LocInv, Available, Idle
<1> QED  BY <1>a, <1>b, <1>c, <1>d, <1>e, <1>f, <1>g, <1>h, <1>i, <1>j, <1>k, <1>l
         DEF LocInv

\* mdx_tsleep_cb.
LEMMA FireSleepStep ==
  ASSUME LocInv, NEW c \in CPUs, NEW fired \in callouts, callout_fire(c, fired),
         fired.kind = "sleep"
  PROVE  LocInv'
<1>1. CPUs \cap Threads = {} /\ NULL \notin CPUs /\ NULL \notin Threads
      /\ AllThreads = Threads \cup CPUs
  BY Kinds
<1>2. PICK t \in Threads : t = fired.td
  BY CalloutFields DEF LocInv
<1>3. hpc[c] = "callback" /\ fired.cpu = c
  BY DEF callout_fire
<1>4. /\ t \in alive /\ td_state[t] = "ACK"
      /\ ~Waits(t) /\ \A u \in Threads : target[u] # t
  BY <1>1, <1>2, <1>3 DEF LocInv, Pending, SleepOf, Running
<1>5. /\ pcpu_list' = pcpu_list /\ td_state' = td_state /\ alive' = alive
      /\ curthread' = curthread /\ hpc' = hpc /\ cbtd' = cbtd
      /\ td_c_cpu' = td_c_cpu /\ armed' = armed /\ td_list' = td_list
      /\ target' = target /\ sem_lock' = sem_lock /\ usec' = usec
      /\ timeout' = timeout
  BY DEF callout_fire, schedVars, threadVars, cpuVars, calloutVars, semVars,
     localVars, permitVars
<1>6. tpc' = tpc
  BY DEF callout_fire
<1>7. callouts' = callouts \ {fired} /\ \A j \in callouts' : j.td # t
  BY <1>2 DEF LocInv, Pending, callout_fire
<1>8. /\ ~InQueue(t)
      /\ \A d \in CPUs : curthread[d] # t
      /\ \A d \in CPUs : cbtd[d] # t
  BY <1>1, <1>2, <1>4 DEF LocInv, Ready, Running, Handlers, Pending, SemCbOf
<1>9. /\ RunQueue' /\ pending_ipis' \subseteq CPUs
      /\ \A u \in AllThreads :
           On(runq'[PrioOf(u)], u) <=> On(runq[PrioOf(u)], u) \/ u = t
  BY <1>1, <1>2, <1>8, AddToQueue DEF LocInv, callout_fire, mdx_tsleep_cb
<1>a. PlaceTypes'
  BY <1>1, <1>2, <1>3, <1>4, <1>5, <1>6, <1>7, <1>8, <1>9
     DEF LocInv, PlaceTypes
<1>b. RunQueue'
  BY <1>9
<1>c. Handlers'
  BY <1>1, <1>2, <1>3, <1>4, <1>5, <1>6, <1>7, <1>8, <1>9
     DEF LocInv, Handlers
<1>d. Running'
  BY <1>1, <1>2, <1>3, <1>4, <1>5, <1>6, <1>7, <1>8, <1>9
     DEF LocInv, Running
<1>e. Ready'
  BY <1>1, <1>2, <1>3, <1>4, <1>5, <1>6, <1>7, <1>8, <1>9
     DEF LocInv, Ready, InQueue, Waits
<1>f. Waiting'
  BY <1>1, <1>2, <1>3, <1>4, <1>5, <1>6, <1>7, <1>8, <1>9
     DEF LocInv, Waiting, Waits, WaitLabels
<1>g. Claiming'
  <2>1. ASSUME NEW u \in Threads  PROVE ClaimOf(u)'
    BY <1>1, <1>2, <1>3, <1>4, <1>5, <1>6, <1>7, <1>8, <1>9
       DEF LocInv, PlaceTypes, Claiming, ClaimOf, PostLabels
  <2>2. \A u, v \in Threads : target'[u] = target'[v] /\ target'[u] # NULL => u = v
    BY <1>1, <1>2, <1>3, <1>4, <1>5, <1>6, <1>7, <1>8, <1>9
       DEF LocInv, PlaceTypes, Claiming, ClaimOf, PostLabels
  <2> QED  BY <2>1, <2>2 DEF Claiming
<1>h. Locking'
  BY <1>1, <1>2, <1>3, <1>4, <1>5, <1>6, <1>7, <1>8, <1>9
     DEF LocInv, Locking, Interruptible
<1>i. Pending'
  <2>0. \A k, l \in callouts' : k.td = l.td => k = l
    BY <1>1, <1>2, <1>3, <1>4, <1>5, <1>6, <1>7, <1>8, <1>9, CalloutFields
       DEF LocInv, Pending, OnlyOn
  <2>1. ASSUME NEW k \in callouts', k.kind = "quantum"  PROVE QuantumOf(k)'
    BY <1>1, <1>2, <1>3, <1>4, <1>5, <1>6, <1>7, <1>8, <1>9, <2>1, CalloutFields
       DEF LocInv, Pending, QuantumOf, OnlyOn
  <2>2. ASSUME NEW k \in callouts', k.kind = "sem"  PROVE TimeoutOf(k)'
    BY <1>1, <1>2, <1>3, <1>4, <1>5, <1>6, <1>7, <1>8, <1>9, <2>2, CalloutFields
       DEF LocInv, Pending, TimeoutOf, Timed, Waits, OnlyOn
  <2>3. ASSUME NEW k \in callouts', k.kind = "sleep"  PROVE SleepOf(k)'
    BY <1>1, <1>2, <1>3, <1>4, <1>5, <1>6, <1>7, <1>8, <1>9, <2>3, CalloutFields
       DEF LocInv, Pending, SleepOf, Waits, OnlyOn
  <2>4. ASSUME NEW d \in CPUs, hpc'[d] = "sem_cb"  PROVE SemCbOf(d)'
    <3>1. PICK y \in Threads : /\ y = cbtd[d] /\ y = cbtd'[d] /\ Timed(y)
                               /\ td_c_cpu[y] = d /\ td_state[y] \in {"ACK", "SEM_UNLOCK"}
                               /\ \A k \in callouts : k.td # y
      BY <1>1, <1>2, <1>3, <1>4, <1>5, <1>6, <1>7, <1>8, <1>9, <2>4
         DEF LocInv, PlaceTypes, Handlers, Pending, SemCbOf
    <3>2. Timed(y)'
      BY <1>1, <1>2, <1>3, <1>4, <1>5, <1>6, <1>7, <1>8, <1>9, <3>1
         DEF LocInv, Timed, Waits, OnlyOn
    <3> QED
      BY <1>1, <1>2, <1>3, <1>4, <1>5, <1>6, <1>7, <1>8, <1>9, <3>1, <3>2
         DEF SemCbOf, OnlyOn
  <2> QED  BY <1>1, <1>2, <1>3, <1>4, <1>5, <1>6, <1>7, <1>8, <1>9, <2>0, <2>1,
              <2>2, <2>3, <2>4
              DEF Pending
<1>j. Located'
  <2>1. ASSUME NEW u \in alive'
        PROVE  (\E d \in CPUs : curthread'[d] = u) \/ InQueue(u)' \/ Parked(u)'
    <3>1. CASE u = t
      BY <1>1, <1>2, <1>3, <1>4, <1>5, <1>6, <1>7, <1>8, <1>9, <3>1
         DEF LocInv, Parked, InQueue, Waits
    <3>2. CASE u # t
      <4>1. /\ u \in Threads /\ u \in AllThreads /\ u # NULL
            /\ \/ \E d \in CPUs : curthread[d] = u
               \/ InQueue(u) \/ Parked(u)
        BY <1>1, <1>2, <1>3, <1>4, <1>5, <1>6, <1>7, <1>8, <1>9, <3>2
           DEF LocInv, PlaceTypes, Located
      <4>2. CASE \E v \in Threads : target[v] = u
        <5>1. PICK v \in Threads : target[v] = u  BY <4>2
        <5>2. target'[v] = u
          BY <1>1, <1>2, <1>3, <1>4, <1>5, <1>6, <1>7, <1>8, <1>9, <3>2, <4>1, <5>1
        <5> QED  BY <5>2 DEF Parked
      <4> QED  BY <1>1, <1>2, <1>3, <1>4, <1>5, <1>6, <1>7, <1>8, <1>9, <3>2, <4>1,
                  <4>2
            DEF Parked, InQueue, Waits
    <3> QED  BY <3>1, <3>2
  <2>2. ASSUME NEW u \in CPUs
        PROVE  InQueue(u)' \/ \E d \in CPUs : curthread'[d] = u
    BY <1>1, <1>2, <1>3, <1>4, <1>5, <1>6, <1>7, <1>8, <1>9
       DEF LocInv, Located, Parked, InQueue, Waits
  <2>3. ASSUME NEW u \in Threads
        PROVE  /\ td_state'[u] \in {"SEM_WAIT", "SLEEPING"} => Parked(u)'
               /\ td_state'[u] = "SEM_WAIT" => \E d \in CPUs : curthread'[d] = u
    BY <1>1, <1>2, <1>3, <1>4, <1>5, <1>6, <1>7, <1>8, <1>9
       DEF LocInv, Located, Parked, InQueue, Waits
  <2> QED  BY <2>1, <2>2, <2>3 DEF Located
<1>k. Ended'
  BY <1>1, <1>2, <1>3, <1>4, <1>5, <1>6, <1>7, <1>8, <1>9
     DEF LocInv, Ended, WaitLabels
<1>l. Available'
  BY <1>1, <1>2, <1>3, <1>4, <1>5, <1>6, <1>7, <1>8, <1>9
     DEF LocInv, Available, Idle
<1> QED  BY <1>a, <1>b, <1>c, <1>d, <1>e, <1>f, <1>g, <1>h, <1>i, <1>j, <1>k, <1>l
         DEF LocInv

\* The callback finds the timeout of a wait due.
LEMMA FireSemStep ==
  ASSUME LocInv, NEW c \in CPUs, NEW fired \in callouts, callout_fire(c, fired),
         fired.kind = "sem"
  PROVE  LocInv'
<1>1. CPUs \cap Threads = {} /\ NULL \notin CPUs /\ NULL \notin Threads
      /\ AllThreads = Threads \cup CPUs
  BY Kinds
<1>2. PICK t \in Threads : t = fired.td
  BY CalloutFields DEF LocInv
<1>3. hpc[c] = "callback" /\ fired.cpu = c
  BY DEF callout_fire
<1>4. /\ Timed(t) /\ td_c_cpu[t] = c
      /\ td_state[t] \in {"ACK", "SEM_UNLOCK"}
  BY <1>2, <1>3 DEF LocInv, Pending, TimeoutOf, Running
<1>5. /\ runq' = runq /\ pcpu_list' = pcpu_list /\ pending_ipis' = pending_ipis
      /\ td_state' = td_state /\ alive' = alive /\ curthread' = curthread
      /\ td_c_cpu' = td_c_cpu /\ armed' = armed /\ td_list' = td_list
      /\ target' = target /\ sem_lock' = sem_lock /\ usec' = usec
      /\ timeout' = timeout
  BY DEF callout_fire, schedVars, threadVars, cpuVars, calloutVars, semVars,
     localVars, permitVars
<1>6. tpc' = tpc
  BY DEF callout_fire
<1>7. callouts' = callouts \ {fired} /\ \A j \in callouts' : j.td # t
  BY <1>2 DEF LocInv, Pending, callout_fire
<1>8. /\ hpc' \in [CPUs -> HandlerLabels] /\ hpc'[c] = "sem_cb"
      /\ \A d \in CPUs : d # c => hpc'[d] = hpc[d]
  BY DEF LocInv, PlaceTypes, HandlerLabels, HGoto, callout_fire
<1>9. /\ cbtd' \in [CPUs -> Threads \cup {NULL}] /\ cbtd'[c] = t
      /\ \A d \in CPUs : d # c => cbtd'[d] = cbtd[d]
  BY <1>2 DEF LocInv, PlaceTypes, callout_fire
<1>10. \A u \in Threads : target[u] = t => tpc[u] # "post_add"
  BY <1>1, <1>2 DEF LocInv, Claiming, ClaimOf
<1>a. PlaceTypes'
  BY <1>1, <1>2, <1>3, <1>4, <1>5, <1>6, <1>7, <1>8, <1>9, <1>10
     DEF LocInv, PlaceTypes
<1>b. RunQueue'
  BY <1>1, <1>2, <1>3, <1>4, <1>5, <1>6, <1>7, <1>8, <1>9, <1>10, SameQueue DEF LocInv
<1>c. Handlers'
  BY <1>1, <1>2, <1>3, <1>4, <1>5, <1>6, <1>7, <1>8, <1>9, <1>10
     DEF LocInv, Handlers
<1>d. Running'
  BY <1>1, <1>2, <1>3, <1>4, <1>5, <1>6, <1>7, <1>8, <1>9, <1>10
     DEF LocInv, Running
<1>e. Ready'
  BY <1>1, <1>2, <1>3, <1>4, <1>5, <1>6, <1>7, <1>8, <1>9, <1>10
     DEF LocInv, Ready, InQueue, Waits
<1>f. Waiting'
  BY <1>1, <1>2, <1>3, <1>4, <1>5, <1>6, <1>7, <1>8, <1>9, <1>10
     DEF LocInv, Waiting, Waits, WaitLabels
<1>g. Claiming'
  <2>1. ASSUME NEW u \in Threads  PROVE ClaimOf(u)'
    BY <1>1, <1>2, <1>3, <1>4, <1>5, <1>6, <1>7, <1>8, <1>9, <1>10
       DEF LocInv, PlaceTypes, Claiming, ClaimOf, PostLabels
  <2>2. \A u, v \in Threads : target'[u] = target'[v] /\ target'[u] # NULL => u = v
    BY <1>1, <1>2, <1>3, <1>4, <1>5, <1>6, <1>7, <1>8, <1>9, <1>10
       DEF LocInv, PlaceTypes, Claiming, ClaimOf, PostLabels
  <2> QED  BY <2>1, <2>2 DEF Claiming
<1>h. Locking'
  BY <1>1, <1>2, <1>3, <1>4, <1>5, <1>6, <1>7, <1>8, <1>9, <1>10
     DEF LocInv, Locking, Interruptible
<1>i. Pending'
  <2>0. \A k, l \in callouts' : k.td = l.td => k = l
    BY <1>1, <1>2, <1>3, <1>4, <1>5, <1>6, <1>7, <1>8, <1>9, <1>10, CalloutFields
       DEF LocInv, Pending, OnlyOn
  <2>1. ASSUME NEW k \in callouts', k.kind = "quantum"  PROVE QuantumOf(k)'
    BY <1>1, <1>2, <1>3, <1>4, <1>5, <1>6, <1>7, <1>8, <1>9, <1>10, <2>1,
       CalloutFields
       DEF LocInv, Pending, QuantumOf, OnlyOn
  <2>2. ASSUME NEW k \in callouts', k.kind = "sem"  PROVE TimeoutOf(k)'
    BY <1>1, <1>2, <1>3, <1>4, <1>5, <1>6, <1>7, <1>8, <1>9, <1>10, <2>2,
       CalloutFields
       DEF LocInv, Pending, TimeoutOf, Timed, Waits, OnlyOn
  <2>3. ASSUME NEW k \in callouts', k.kind = "sleep"  PROVE SleepOf(k)'
    BY <1>1, <1>2, <1>3, <1>4, <1>5, <1>6, <1>7, <1>8, <1>9, <1>10, <2>3,
       CalloutFields
       DEF LocInv, Pending, SleepOf, Waits, OnlyOn
  <2>4. ASSUME NEW d \in CPUs, hpc'[d] = "sem_cb"  PROVE SemCbOf(d)'
    <3>1. CASE d = c
      BY <1>1, <1>2, <1>3, <1>4, <1>5, <1>6, <1>7, <1>8, <1>9, <1>10, <3>1
         DEF SemCbOf, Timed, Waits
    <3>2. CASE d # c
      BY <1>1, <1>2, <1>3, <1>4, <1>5, <1>6, <1>7, <1>8, <1>9, <1>10, <2>4, <3>2
         DEF LocInv, Pending, SemCbOf, Timed, Waits
    <3> QED  BY <3>1, <3>2
  <2> QED  BY <1>1, <1>2, <1>3, <1>4, <1>5, <1>6, <1>7, <1>8, <1>9, <1>10, <2>0,
              <2>1, <2>2, <2>3, <2>4
              DEF Pending
<1>j. Located'
  <2>1. ASSUME NEW u \in alive'
        PROVE  (\E d \in CPUs : curthread'[d] = u) \/ InQueue(u)' \/ Parked(u)'
    BY <1>1, <1>2, <1>3, <1>4, <1>5, <1>6, <1>7, <1>8, <1>9, <1>10
       DEF LocInv, Located, Parked, InQueue, Waits
  <2>2. ASSUME NEW u \in CPUs
        PROVE  InQueue(u)' \/ \E d \in CPUs : curthread'[d] = u
    BY <1>1, <1>2, <1>3, <1>4, <1>5, <1>6, <1>7, <1>8, <1>9, <1>10
       DEF LocInv, Located, Parked, InQueue, Waits
  <2>3. ASSUME NEW u \in Threads
        PROVE  /\ td_state'[u] \in {"SEM_WAIT", "SLEEPING"} => Parked(u)'
               /\ td_state'[u] = "SEM_WAIT" => \E d \in CPUs : curthread'[d] = u
    BY <1>1, <1>2, <1>3, <1>4, <1>5, <1>6, <1>7, <1>8, <1>9, <1>10
       DEF LocInv, Located, Parked, InQueue, Waits
  <2> QED  BY <2>1, <2>2, <2>3 DEF Located
<1>k. Ended'
  BY <1>1, <1>2, <1>3, <1>4, <1>5, <1>6, <1>7, <1>8, <1>9, <1>10
     DEF LocInv, Ended, WaitLabels
<1>l. Available'
  BY <1>1, <1>2, <1>3, <1>4, <1>5, <1>6, <1>7, <1>8, <1>9, <1>10
     DEF LocInv, Available, Idle
<1> QED  BY <1>a, <1>b, <1>c, <1>d, <1>e, <1>f, <1>g, <1>h, <1>i, <1>j, <1>k, <1>l
         DEF LocInv

\* mdx_sem_cb finds that mdx_sem_post was first.
LEMMA SemCbAckStep ==
  ASSUME LocInv, NEW c \in CPUs, mdx_sem_cb(c),
         td_state[cbtd[c]] = "SEM_UNLOCK"
  PROVE  LocInv'
<1>1. CPUs \cap Threads = {} /\ NULL \notin CPUs /\ NULL \notin Threads
      /\ AllThreads = Threads \cup CPUs
  BY Kinds
<1>2. PICK t \in Threads : t = cbtd[c]
  BY DEF LocInv, PlaceTypes, Handlers, mdx_sem_cb
<1>3. /\ hpc[c] = "sem_cb" /\ sem_lock = NULL
      /\ Timed(t) /\ td_c_cpu[t] = c /\ td_state[t] \in {"ACK", "SEM_UNLOCK"}
      /\ \A k \in callouts : k.td # t
  BY <1>2 DEF LocInv, Pending, SemCbOf, mdx_sem_cb
<1>4. \A d \in CPUs : curthread[d] # t /\ (d # c => cbtd[d] # t)
  BY <1>1, <1>2, <1>3 DEF LocInv, Running, Handlers, Pending, SemCbOf
<1>5. td_state[t] = "SEM_UNLOCK" /\ ~InQueue(t) /\ ~Waits(t)
  BY <1>1, <1>2 DEF LocInv, Ready, Waiting
<1>6. /\ runq' = runq /\ pcpu_list' = pcpu_list /\ pending_ipis' = pending_ipis
      /\ alive' = alive /\ curthread' = curthread /\ callouts' = callouts
      /\ td_c_cpu' = td_c_cpu /\ armed' = armed /\ td_list' = td_list
      /\ target' = target /\ sem_lock' = sem_lock /\ usec' = usec
      /\ timeout' = timeout
  BY DEF SemCbDone, mdx_sem_cb, schedVars, threadVars, cpuVars, calloutVars,
     semVars, localVars, permitVars
<1>7. tpc' = tpc
  BY DEF SemCbDone, mdx_sem_cb
<1>8. /\ hpc' \in [CPUs -> HandlerLabels] /\ hpc'[c] = "callback"
      /\ \A d \in CPUs : d # c => hpc'[d] = hpc[d]
  BY DEF LocInv, PlaceTypes, HandlerLabels, HGoto, SemCbDone, mdx_sem_cb
<1>9. /\ cbtd' \in [CPUs -> Threads \cup {NULL}] /\ cbtd'[c] = NULL
      /\ \A d \in CPUs : d # c => cbtd'[d] = cbtd[d]
  BY DEF LocInv, PlaceTypes, SemCbDone, mdx_sem_cb
<1>10. /\ td_state' \in [AllThreads -> States]
       /\ td_state'[t] = "SEM_UNLOCK_ACK"
       /\ \A u \in AllThreads : u # t => td_state'[u] = td_state[u]
       /\ \A d \in CPUs : td_state'[d] = "READY"
  BY <1>2, StateStep DEF LocInv, mdx_sem_cb, States
<1>a. PlaceTypes'
  BY <1>1, <1>2, <1>3, <1>4, <1>5, <1>6, <1>7, <1>8, <1>9, <1>10
     DEF LocInv, PlaceTypes
<1>b. RunQueue'
  BY <1>1, <1>2, <1>3, <1>4, <1>5, <1>6, <1>7, <1>8, <1>9, <1>10, SameQueue DEF LocInv
<1>c. Handlers'
  BY <1>1, <1>2, <1>3, <1>4, <1>5, <1>6, <1>7, <1>8, <1>9, <1>10
     DEF LocInv, Handlers
<1>d. Running'
  BY <1>1, <1>2, <1>3, <1>4, <1>5, <1>6, <1>7, <1>8, <1>9, <1>10
     DEF LocInv, Running
<1>e. Ready'
  BY <1>1, <1>2, <1>3, <1>4, <1>5, <1>6, <1>7, <1>8, <1>9, <1>10
     DEF LocInv, Ready, InQueue, Waits
<1>f. Waiting'
  BY <1>1, <1>2, <1>3, <1>4, <1>5, <1>6, <1>7, <1>8, <1>9, <1>10
     DEF LocInv, Waiting, Waits, WaitLabels
<1>g. Claiming'
  <2>1. ASSUME NEW u \in Threads  PROVE ClaimOf(u)'
    BY <1>1, <1>2, <1>3, <1>4, <1>5, <1>6, <1>7, <1>8, <1>9, <1>10
       DEF LocInv, PlaceTypes, Claiming, ClaimOf, PostLabels
  <2>2. \A u, v \in Threads : target'[u] = target'[v] /\ target'[u] # NULL => u = v
    BY <1>1, <1>2, <1>3, <1>4, <1>5, <1>6, <1>7, <1>8, <1>9, <1>10
       DEF LocInv, PlaceTypes, Claiming, ClaimOf, PostLabels
  <2> QED  BY <2>1, <2>2 DEF Claiming
<1>h. Locking'
  BY <1>1, <1>2, <1>3, <1>4, <1>5, <1>6, <1>7, <1>8, <1>9, <1>10
     DEF LocInv, Locking, Interruptible
<1>i. Pending'
  <2>0. \A k, l \in callouts' : k.td = l.td => k = l
    BY <1>1, <1>2, <1>3, <1>4, <1>5, <1>6, <1>7, <1>8, <1>9, <1>10, CalloutFields
       DEF LocInv, Pending, OnlyOn
  <2>1. ASSUME NEW k \in callouts', k.kind = "quantum"  PROVE QuantumOf(k)'
    BY <1>1, <1>2, <1>3, <1>4, <1>5, <1>6, <1>7, <1>8, <1>9, <1>10, <2>1,
       CalloutFields
       DEF LocInv, Pending, QuantumOf, OnlyOn
  <2>2. ASSUME NEW k \in callouts', k.kind = "sem"  PROVE TimeoutOf(k)'
    BY <1>1, <1>2, <1>3, <1>4, <1>5, <1>6, <1>7, <1>8, <1>9, <1>10, <2>2,
       CalloutFields
       DEF LocInv, Pending, TimeoutOf, Timed, Waits, OnlyOn
  <2>3. ASSUME NEW k \in callouts', k.kind = "sleep"  PROVE SleepOf(k)'
    BY <1>1, <1>2, <1>3, <1>4, <1>5, <1>6, <1>7, <1>8, <1>9, <1>10, <2>3,
       CalloutFields
       DEF LocInv, Pending, SleepOf, Waits, OnlyOn
  <2>4. ASSUME NEW d \in CPUs, hpc'[d] = "sem_cb"  PROVE SemCbOf(d)'
    <3>1. PICK y \in Threads : /\ y = cbtd[d] /\ y = cbtd'[d] /\ Timed(y)
                               /\ td_c_cpu[y] = d /\ td_state[y] \in {"ACK", "SEM_UNLOCK"}
                               /\ \A k \in callouts : k.td # y
      BY <1>1, <1>2, <1>3, <1>4, <1>5, <1>6, <1>7, <1>8, <1>9, <1>10, <2>4
         DEF LocInv, PlaceTypes, Handlers, Pending, SemCbOf
    <3>2. Timed(y)'
      BY <1>1, <1>2, <1>3, <1>4, <1>5, <1>6, <1>7, <1>8, <1>9, <1>10, <3>1
         DEF LocInv, Timed, Waits, OnlyOn
    <3> QED
      BY <1>1, <1>2, <1>3, <1>4, <1>5, <1>6, <1>7, <1>8, <1>9, <1>10, <3>1, <3>2
         DEF SemCbOf, OnlyOn
  <2> QED  BY <1>1, <1>2, <1>3, <1>4, <1>5, <1>6, <1>7, <1>8, <1>9, <1>10, <2>0,
              <2>1, <2>2, <2>3, <2>4
              DEF Pending
<1>j. Located'
  <2>1. ASSUME NEW u \in alive'
        PROVE  (\E d \in CPUs : curthread'[d] = u) \/ InQueue(u)' \/ Parked(u)'
    BY <1>1, <1>2, <1>3, <1>4, <1>5, <1>6, <1>7, <1>8, <1>9, <1>10
       DEF LocInv, Located, Parked, InQueue, Waits
  <2>2. ASSUME NEW u \in CPUs
        PROVE  InQueue(u)' \/ \E d \in CPUs : curthread'[d] = u
    BY <1>1, <1>2, <1>3, <1>4, <1>5, <1>6, <1>7, <1>8, <1>9, <1>10
       DEF LocInv, Located, Parked, InQueue, Waits
  <2>3. ASSUME NEW u \in Threads
        PROVE  /\ td_state'[u] \in {"SEM_WAIT", "SLEEPING"} => Parked(u)'
               /\ td_state'[u] = "SEM_WAIT" => \E d \in CPUs : curthread'[d] = u
    BY <1>1, <1>2, <1>3, <1>4, <1>5, <1>6, <1>7, <1>8, <1>9, <1>10
       DEF LocInv, Located, Parked, InQueue, Waits
  <2> QED  BY <2>1, <2>2, <2>3 DEF Located
<1>k. Ended'
  BY <1>1, <1>2, <1>3, <1>4, <1>5, <1>6, <1>7, <1>8, <1>9, <1>10
     DEF LocInv, Ended, WaitLabels
<1>l. Available'
  BY <1>1, <1>2, <1>3, <1>4, <1>5, <1>6, <1>7, <1>8, <1>9, <1>10
     DEF LocInv, Available, Idle
<1> QED  BY <1>a, <1>b, <1>c, <1>d, <1>e, <1>f, <1>g, <1>h, <1>i, <1>j, <1>k, <1>l
         DEF LocInv

\* mdx_sem_cb times the thread out.
LEMMA SemCbWakeStep ==
  ASSUME LocInv, NEW c \in CPUs, mdx_sem_cb(c),
         td_state[cbtd[c]] # "SEM_UNLOCK"
  PROVE  LocInv'
<1>1. CPUs \cap Threads = {} /\ NULL \notin CPUs /\ NULL \notin Threads
      /\ AllThreads = Threads \cup CPUs
  BY Kinds
<1>2. PICK t \in Threads : t = cbtd[c]
  BY DEF LocInv, PlaceTypes, Handlers, mdx_sem_cb
<1>3. /\ hpc[c] = "sem_cb" /\ sem_lock = NULL
      /\ Timed(t) /\ td_c_cpu[t] = c /\ td_state[t] \in {"ACK", "SEM_UNLOCK"}
      /\ \A k \in callouts : k.td # t
  BY <1>2 DEF LocInv, Pending, SemCbOf, mdx_sem_cb
<1>4. \A d \in CPUs : curthread[d] # t /\ (d # c => cbtd[d] # t)
  BY <1>1, <1>2, <1>3 DEF LocInv, Running, Handlers, Pending, SemCbOf
<1>5. td_state[t] = "ACK" /\ sem_cb_wake(t, RemoveFirst(td_list, t))
  BY <1>2, <1>3 DEF mdx_sem_cb
<1>6. Waits(t)
  BY <1>1, <1>2, <1>3, <1>5 DEF LocInv, Timed, Claiming, ClaimOf, Locking
<1>7. /\ ~InQueue(t) /\ \A u \in Threads : target[u] # t
      /\ t \in alive /\ tpc[t] \in WaitLabels /\ usec[t] = "timedwait"
  BY <1>1, <1>2, <1>3, <1>6 DEF LocInv, Ready, Waiting, Timed
<1>8. /\ pcpu_list' = pcpu_list /\ alive' = alive /\ curthread' = curthread
      /\ callouts' = callouts /\ td_c_cpu' = td_c_cpu /\ armed' = armed
      /\ target' = target /\ sem_lock' = sem_lock /\ usec' = usec
  BY DEF SemCbDone, mdx_sem_cb, schedVars, threadVars, cpuVars, calloutVars,
     semVars, localVars, permitVars
<1>9. tpc' = tpc
  BY DEF SemCbDone, mdx_sem_cb
<1>10. /\ hpc' \in [CPUs -> HandlerLabels] /\ hpc'[c] = "callback"
       /\ \A d \in CPUs : d # c => hpc'[d] = hpc[d]
  BY DEF LocInv, PlaceTypes, HandlerLabels, HGoto, SemCbDone, mdx_sem_cb
<1>11. /\ cbtd' \in [CPUs -> Threads \cup {NULL}] /\ cbtd'[c] = NULL
       /\ \A d \in CPUs : d # c => cbtd'[d] = cbtd[d]
  BY DEF LocInv, PlaceTypes, SemCbDone, mdx_sem_cb
<1>12. /\ td_state' \in [AllThreads -> States]
       /\ td_state'[t] = "WAKEUP"
       /\ \A u \in AllThreads : u # t => td_state'[u] = td_state[u]
       /\ \A d \in CPUs : td_state'[d] = "READY"
  BY <1>2, <1>5, StateStep DEF LocInv, sem_cb_wake, States
<1>13. /\ RunQueue' /\ pending_ipis' \subseteq CPUs
       /\ \A u \in AllThreads :
            On(runq'[PrioOf(u)], u) <=> On(runq[PrioOf(u)], u) \/ u = t
  BY <1>1, <1>2, <1>5, <1>7, AddToQueue DEF LocInv, sem_cb_wake
<1>14. /\ td_list' \in Seq(Threads) /\ Once(td_list')
       /\ \A u : On(td_list', u) <=> On(td_list, u) /\ u # t
  BY <1>5, RemoveFirstList DEF LocInv, PlaceTypes, Waiting, sem_cb_wake
<1>15. /\ timeout' \in [Threads -> BOOLEAN] /\ timeout'[t] = TRUE
       /\ \A u \in Threads : u # t => timeout'[u] = timeout[u]
  BY <1>2, <1>5 DEF LocInv, PlaceTypes, sem_cb_wake
<1>a. PlaceTypes'
  BY <1>1, <1>2, <1>3, <1>4, <1>5, <1>6, <1>7, <1>8, <1>9, <1>10, <1>11, <1>12,
     <1>13, <1>14, <1>15
     DEF LocInv, PlaceTypes
<1>b. RunQueue'
  BY <1>13
<1>c. Handlers'
  BY <1>1, <1>2, <1>3, <1>4, <1>5, <1>6, <1>7, <1>8, <1>9, <1>10, <1>11, <1>12,
     <1>13, <1>14, <1>15
     DEF LocInv, Handlers
<1>d. Running'
  BY <1>1, <1>2, <1>3, <1>4, <1>5, <1>6, <1>7, <1>8, <1>9, <1>10, <1>11, <1>12,
     <1>13, <1>14, <1>15
     DEF LocInv, Running
<1>e. Ready'
  BY <1>1, <1>2, <1>3, <1>4, <1>5, <1>6, <1>7, <1>8, <1>9, <1>10, <1>11, <1>12,
     <1>13, <1>14, <1>15
     DEF LocInv, Ready, InQueue, Waits
<1>f. Waiting'
  BY <1>1, <1>2, <1>3, <1>4, <1>5, <1>6, <1>7, <1>8, <1>9, <1>10, <1>11, <1>12,
     <1>13, <1>14, <1>15
     DEF LocInv, Waiting, Waits, WaitLabels
<1>g. Claiming'
  <2>1. ASSUME NEW u \in Threads  PROVE ClaimOf(u)'
    BY <1>1, <1>2, <1>3, <1>4, <1>5, <1>6, <1>7, <1>8, <1>9, <1>10, <1>11, <1>12,
       <1>13, <1>14, <1>15
       DEF LocInv, PlaceTypes, Claiming, ClaimOf, PostLabels
  <2>2. \A u, v \in Threads : target'[u] = target'[v] /\ target'[u] # NULL => u = v
    BY <1>1, <1>2, <1>3, <1>4, <1>5, <1>6, <1>7, <1>8, <1>9, <1>10, <1>11, <1>12,
       <1>13, <1>14, <1>15
       DEF LocInv, PlaceTypes, Claiming, ClaimOf, PostLabels
  <2> QED  BY <2>1, <2>2 DEF Claiming
<1>h. Locking'
  BY <1>1, <1>2, <1>3, <1>4, <1>5, <1>6, <1>7, <1>8, <1>9, <1>10, <1>11, <1>12,
     <1>13, <1>14, <1>15
     DEF LocInv, Locking, Interruptible
<1>i. Pending'
  <2>0. \A k, l \in callouts' : k.td = l.td => k = l
    BY <1>1, <1>2, <1>3, <1>4, <1>5, <1>6, <1>7, <1>8, <1>9, <1>10, <1>11, <1>12,
       <1>13, <1>14, <1>15, CalloutFields
       DEF LocInv, Pending, OnlyOn
  <2>1. ASSUME NEW k \in callouts', k.kind = "quantum"  PROVE QuantumOf(k)'
    BY <1>1, <1>2, <1>3, <1>4, <1>5, <1>6, <1>7, <1>8, <1>9, <1>10, <1>11, <1>12,
       <1>13, <1>14, <1>15, <2>1, CalloutFields
       DEF LocInv, Pending, QuantumOf, OnlyOn
  <2>2. ASSUME NEW k \in callouts', k.kind = "sem"  PROVE TimeoutOf(k)'
    BY <1>1, <1>2, <1>3, <1>4, <1>5, <1>6, <1>7, <1>8, <1>9, <1>10, <1>11, <1>12,
       <1>13, <1>14, <1>15, <2>2, CalloutFields
       DEF LocInv, Pending, TimeoutOf, Timed, Waits, OnlyOn
  <2>3. ASSUME NEW k \in callouts', k.kind = "sleep"  PROVE SleepOf(k)'
    BY <1>1, <1>2, <1>3, <1>4, <1>5, <1>6, <1>7, <1>8, <1>9, <1>10, <1>11, <1>12,
       <1>13, <1>14, <1>15, <2>3, CalloutFields
       DEF LocInv, Pending, SleepOf, Waits, OnlyOn
  <2>4. ASSUME NEW d \in CPUs, hpc'[d] = "sem_cb"  PROVE SemCbOf(d)'
    <3>1. PICK y \in Threads : /\ y = cbtd[d] /\ y = cbtd'[d] /\ Timed(y)
                               /\ td_c_cpu[y] = d /\ td_state[y] \in {"ACK", "SEM_UNLOCK"}
                               /\ \A k \in callouts : k.td # y
      BY <1>1, <1>2, <1>3, <1>4, <1>5, <1>6, <1>7, <1>8, <1>9, <1>10, <1>11, <1>12,
         <1>13, <1>14, <1>15, <2>4
         DEF LocInv, PlaceTypes, Handlers, Pending, SemCbOf
    <3>2. Timed(y)'
      BY <1>1, <1>2, <1>3, <1>4, <1>5, <1>6, <1>7, <1>8, <1>9, <1>10, <1>11, <1>12,
         <1>13, <1>14, <1>15, <3>1
         DEF LocInv, Timed, Waits, OnlyOn
    <3> QED
      BY <1>1, <1>2, <1>3, <1>4, <1>5, <1>6, <1>7, <1>8, <1>9, <1>10, <1>11, <1>12,
         <1>13, <1>14, <1>15, <3>1, <3>2
         DEF SemCbOf, OnlyOn
  <2> QED  BY <1>1, <1>2, <1>3, <1>4, <1>5, <1>6, <1>7, <1>8, <1>9, <1>10, <1>11,
              <1>12, <1>13, <1>14, <1>15, <2>0, <2>1, <2>2, <2>3, <2>4
              DEF Pending
<1>j. Located'
  <2>1. ASSUME NEW u \in alive'
        PROVE  (\E d \in CPUs : curthread'[d] = u) \/ InQueue(u)' \/ Parked(u)'
    <3>1. CASE u = t
      BY <1>1, <1>2, <1>3, <1>4, <1>5, <1>6, <1>7, <1>8, <1>9, <1>10, <1>11, <1>12,
         <1>13, <1>14, <1>15, <3>1
         DEF LocInv, Parked, InQueue, Waits
    <3>2. CASE u # t
      <4>1. /\ u \in Threads /\ u \in AllThreads /\ u # NULL
            /\ \/ \E d \in CPUs : curthread[d] = u
               \/ InQueue(u) \/ Parked(u)
        BY <1>1, <1>2, <1>3, <1>4, <1>5, <1>6, <1>7, <1>8, <1>9, <1>10, <1>11,
           <1>12, <1>13, <1>14, <1>15, <3>2
           DEF LocInv, PlaceTypes, Located
      <4>2. CASE \E v \in Threads : target[v] = u
        <5>1. PICK v \in Threads : target[v] = u  BY <4>2
        <5>2. target'[v] = u
          BY <1>1, <1>2, <1>3, <1>4, <1>5, <1>6, <1>7, <1>8, <1>9, <1>10, <1>11,
             <1>12, <1>13, <1>14, <1>15, <3>2, <4>1, <5>1
        <5> QED  BY <5>2 DEF Parked
      <4> QED  BY <1>1, <1>2, <1>3, <1>4, <1>5, <1>6, <1>7, <1>8, <1>9, <1>10,
                  <1>11, <1>12, <1>13, <1>14, <1>15, <3>2, <4>1, <4>2
            DEF Parked, InQueue, Waits
    <3> QED  BY <3>1, <3>2
  <2>2. ASSUME NEW u \in CPUs
        PROVE  InQueue(u)' \/ \E d \in CPUs : curthread'[d] = u
    BY <1>1, <1>2, <1>3, <1>4, <1>5, <1>6, <1>7, <1>8, <1>9, <1>10, <1>11, <1>12,
       <1>13, <1>14, <1>15
       DEF LocInv, Located, Parked, InQueue, Waits
  <2>3. ASSUME NEW u \in Threads
        PROVE  /\ td_state'[u] \in {"SEM_WAIT", "SLEEPING"} => Parked(u)'
               /\ td_state'[u] = "SEM_WAIT" => \E d \in CPUs : curthread'[d] = u
    BY <1>1, <1>2, <1>3, <1>4, <1>5, <1>6, <1>7, <1>8, <1>9, <1>10, <1>11, <1>12,
       <1>13, <1>14, <1>15
       DEF LocInv, Located, Parked, InQueue, Waits
  <2> QED  BY <2>1, <2>2, <2>3 DEF Located
<1>k. Ended'
  BY <1>1, <1>2, <1>3, <1>4, <1>5, <1>6, <1>7, <1>8, <1>9, <1>10, <1>11, <1>12,
     <1>13, <1>14, <1>15
     DEF LocInv, Ended, WaitLabels
<1>l. Available'
  BY <1>1, <1>2, <1>3, <1>4, <1>5, <1>6, <1>7, <1>8, <1>9, <1>10, <1>11, <1>12,
     <1>13, <1>14, <1>15
     DEF LocInv, Available, Idle
<1> QED  BY <1>a, <1>b, <1>c, <1>d, <1>e, <1>f, <1>g, <1>h, <1>i, <1>j, <1>k, <1>l
         DEF LocInv

\* The handler has no thread to keep.
LEMMA ParkNullStep ==
  ASSUME LocInv, NEW c \in CPUs, mdx_sched_park(c),
         curthread[c] = NULL
  PROVE  LocInv'
<1>1. CPUs \cap Threads = {} /\ NULL \notin CPUs /\ NULL \notin Threads
      /\ AllThreads = Threads \cup CPUs
  BY Kinds
<1>2. hpc[c] \in {"callback", "park"}
  BY DEF mdx_sched_park
<1>3. /\ runq' = runq /\ pcpu_list' = pcpu_list /\ pending_ipis' = pending_ipis
      /\ td_state' = td_state /\ alive' = alive /\ curthread' = curthread
      /\ cbtd' = cbtd /\ callouts' = callouts /\ td_c_cpu' = td_c_cpu
      /\ td_list' = td_list /\ target' = target /\ sem_lock' = sem_lock
      /\ usec' = usec /\ timeout' = timeout
  BY DEF mdx_sched_park, schedVars, threadVars, cpuVars, calloutVars, semVars,
     localVars, permitVars
<1>4. tpc' = tpc
  BY DEF mdx_sched_park
<1>5. /\ hpc' \in [CPUs -> HandlerLabels] /\ hpc'[c] = "next"
      /\ \A d \in CPUs : d # c => hpc'[d] = hpc[d]
  BY DEF LocInv, PlaceTypes, HandlerLabels, HGoto, mdx_sched_park
<1>6. armed' \subseteq CPUs
  BY DEF LocInv, PlaceTypes, mdx_sched_park, callback_end
<1>a. PlaceTypes'
  BY <1>1, <1>2, <1>3, <1>4, <1>5, <1>6
     DEF LocInv, PlaceTypes
<1>b. RunQueue'
  BY <1>1, <1>2, <1>3, <1>4, <1>5, <1>6, SameQueue DEF LocInv
<1>c. Handlers'
  BY <1>1, <1>2, <1>3, <1>4, <1>5, <1>6
     DEF LocInv, Handlers
<1>d. Running'
  BY <1>1, <1>2, <1>3, <1>4, <1>5, <1>6
     DEF LocInv, Running
<1>e. Ready'
  BY <1>1, <1>2, <1>3, <1>4, <1>5, <1>6
     DEF LocInv, Ready, InQueue, Waits
<1>f. Waiting'
  BY <1>1, <1>2, <1>3, <1>4, <1>5, <1>6
     DEF LocInv, Waiting, Waits, WaitLabels
<1>g. Claiming'
  <2>1. ASSUME NEW u \in Threads  PROVE ClaimOf(u)'
    BY <1>1, <1>2, <1>3, <1>4, <1>5, <1>6
       DEF LocInv, PlaceTypes, Claiming, ClaimOf, PostLabels
  <2>2. \A u, v \in Threads : target'[u] = target'[v] /\ target'[u] # NULL => u = v
    BY <1>1, <1>2, <1>3, <1>4, <1>5, <1>6
       DEF LocInv, PlaceTypes, Claiming, ClaimOf, PostLabels
  <2> QED  BY <2>1, <2>2 DEF Claiming
<1>h. Locking'
  BY <1>1, <1>2, <1>3, <1>4, <1>5, <1>6
     DEF LocInv, Locking, Interruptible
<1>i. Pending'
  <2>0. \A k, l \in callouts' : k.td = l.td => k = l
    BY <1>1, <1>2, <1>3, <1>4, <1>5, <1>6, CalloutFields
       DEF LocInv, Pending, OnlyOn
  <2>1. ASSUME NEW k \in callouts', k.kind = "quantum"  PROVE QuantumOf(k)'
    BY <1>1, <1>2, <1>3, <1>4, <1>5, <1>6, <2>1, CalloutFields
       DEF LocInv, Pending, QuantumOf, OnlyOn
  <2>2. ASSUME NEW k \in callouts', k.kind = "sem"  PROVE TimeoutOf(k)'
    BY <1>1, <1>2, <1>3, <1>4, <1>5, <1>6, <2>2, CalloutFields
       DEF LocInv, Pending, TimeoutOf, Timed, Waits, OnlyOn
  <2>3. ASSUME NEW k \in callouts', k.kind = "sleep"  PROVE SleepOf(k)'
    BY <1>1, <1>2, <1>3, <1>4, <1>5, <1>6, <2>3, CalloutFields
       DEF LocInv, Pending, SleepOf, Waits, OnlyOn
  <2>4. ASSUME NEW d \in CPUs, hpc'[d] = "sem_cb"  PROVE SemCbOf(d)'
    <3>1. PICK y \in Threads : /\ y = cbtd[d] /\ y = cbtd'[d] /\ Timed(y)
                               /\ td_c_cpu[y] = d /\ td_state[y] \in {"ACK", "SEM_UNLOCK"}
                               /\ \A k \in callouts : k.td # y
      BY <1>1, <1>2, <1>3, <1>4, <1>5, <1>6, <2>4
         DEF LocInv, PlaceTypes, Handlers, Pending, SemCbOf
    <3>2. Timed(y)'
      BY <1>1, <1>2, <1>3, <1>4, <1>5, <1>6, <3>1 DEF LocInv, Timed, Waits, OnlyOn
    <3> QED
      BY <1>1, <1>2, <1>3, <1>4, <1>5, <1>6, <3>1, <3>2 DEF SemCbOf, OnlyOn
  <2> QED  BY <1>1, <1>2, <1>3, <1>4, <1>5, <1>6, <2>0, <2>1, <2>2, <2>3, <2>4
              DEF Pending
<1>j. Located'
  <2>1. ASSUME NEW u \in alive'
        PROVE  (\E d \in CPUs : curthread'[d] = u) \/ InQueue(u)' \/ Parked(u)'
    BY <1>1, <1>2, <1>3, <1>4, <1>5, <1>6
       DEF LocInv, Located, Parked, InQueue, Waits
  <2>2. ASSUME NEW u \in CPUs
        PROVE  InQueue(u)' \/ \E d \in CPUs : curthread'[d] = u
    BY <1>1, <1>2, <1>3, <1>4, <1>5, <1>6
       DEF LocInv, Located, Parked, InQueue, Waits
  <2>3. ASSUME NEW u \in Threads
        PROVE  /\ td_state'[u] \in {"SEM_WAIT", "SLEEPING"} => Parked(u)'
               /\ td_state'[u] = "SEM_WAIT" => \E d \in CPUs : curthread'[d] = u
    BY <1>1, <1>2, <1>3, <1>4, <1>5, <1>6
       DEF LocInv, Located, Parked, InQueue, Waits
  <2> QED  BY <2>1, <2>2, <2>3 DEF Located
<1>k. Ended'
  BY <1>1, <1>2, <1>3, <1>4, <1>5, <1>6
     DEF LocInv, Ended, WaitLabels
<1>l. Available'
  BY <1>1, <1>2, <1>3, <1>4, <1>5, <1>6
     DEF LocInv, Available, Idle
<1> QED  BY <1>a, <1>b, <1>c, <1>d, <1>e, <1>f, <1>g, <1>h, <1>i, <1>j, <1>k, <1>l
         DEF LocInv

\* The handler returns to the thread.
LEMMA ParkKeepStep ==
  ASSUME LocInv, NEW c \in CPUs, mdx_sched_park(c),
         curthread[c] # NULL, td_state[curthread[c]] = "RUNNING"
  PROVE  LocInv'
<1>1. CPUs \cap Threads = {} /\ NULL \notin CPUs /\ NULL \notin Threads
      /\ AllThreads = Threads \cup CPUs
  BY Kinds
<1>2. hpc[c] \in {"callback", "park"}
  BY DEF mdx_sched_park
<1>3. /\ runq' = runq /\ pcpu_list' = pcpu_list /\ pending_ipis' = pending_ipis
      /\ td_state' = td_state /\ alive' = alive /\ curthread' = curthread
      /\ cbtd' = cbtd /\ callouts' = callouts /\ td_c_cpu' = td_c_cpu
      /\ td_list' = td_list /\ target' = target /\ sem_lock' = sem_lock
      /\ usec' = usec /\ timeout' = timeout
  BY DEF mdx_sched_park, schedVars, threadVars, cpuVars, calloutVars, semVars,
     localVars, permitVars
<1>4. tpc' = tpc
  BY DEF mdx_sched_park
<1>5. /\ hpc' \in [CPUs -> HandlerLabels] /\ hpc'[c] = "none"
      /\ \A d \in CPUs : d # c => hpc'[d] = hpc[d]
  BY DEF LocInv, PlaceTypes, HandlerLabels, HGoto, mdx_sched_park
<1>6. armed' \subseteq CPUs
  BY DEF LocInv, PlaceTypes, mdx_sched_park, callback_end
<1>7. curthread[c] \in Threads
  BY <1>1 DEF LocInv, PlaceTypes
<1>a. PlaceTypes'
  BY <1>1, <1>2, <1>3, <1>4, <1>5, <1>6, <1>7
     DEF LocInv, PlaceTypes
<1>b. RunQueue'
  BY <1>1, <1>2, <1>3, <1>4, <1>5, <1>6, <1>7, SameQueue DEF LocInv
<1>c. Handlers'
  BY <1>1, <1>2, <1>3, <1>4, <1>5, <1>6, <1>7
     DEF LocInv, Handlers
<1>d. Running'
  BY <1>1, <1>2, <1>3, <1>4, <1>5, <1>6, <1>7
     DEF LocInv, Running
<1>e. Ready'
  BY <1>1, <1>2, <1>3, <1>4, <1>5, <1>6, <1>7
     DEF LocInv, Ready, InQueue, Waits
<1>f. Waiting'
  BY <1>1, <1>2, <1>3, <1>4, <1>5, <1>6, <1>7
     DEF LocInv, Waiting, Waits, WaitLabels
<1>g. Claiming'
  <2>1. ASSUME NEW u \in Threads  PROVE ClaimOf(u)'
    BY <1>1, <1>2, <1>3, <1>4, <1>5, <1>6, <1>7
       DEF LocInv, PlaceTypes, Claiming, ClaimOf, PostLabels
  <2>2. \A u, v \in Threads : target'[u] = target'[v] /\ target'[u] # NULL => u = v
    BY <1>1, <1>2, <1>3, <1>4, <1>5, <1>6, <1>7
       DEF LocInv, PlaceTypes, Claiming, ClaimOf, PostLabels
  <2> QED  BY <2>1, <2>2 DEF Claiming
<1>h. Locking'
  BY <1>1, <1>2, <1>3, <1>4, <1>5, <1>6, <1>7
     DEF LocInv, Locking, Interruptible
<1>i. Pending'
  <2>0. \A k, l \in callouts' : k.td = l.td => k = l
    BY <1>1, <1>2, <1>3, <1>4, <1>5, <1>6, <1>7, CalloutFields
       DEF LocInv, Pending, OnlyOn
  <2>1. ASSUME NEW k \in callouts', k.kind = "quantum"  PROVE QuantumOf(k)'
    BY <1>1, <1>2, <1>3, <1>4, <1>5, <1>6, <1>7, <2>1, CalloutFields
       DEF LocInv, Pending, QuantumOf, OnlyOn
  <2>2. ASSUME NEW k \in callouts', k.kind = "sem"  PROVE TimeoutOf(k)'
    BY <1>1, <1>2, <1>3, <1>4, <1>5, <1>6, <1>7, <2>2, CalloutFields
       DEF LocInv, Pending, TimeoutOf, Timed, Waits, OnlyOn
  <2>3. ASSUME NEW k \in callouts', k.kind = "sleep"  PROVE SleepOf(k)'
    BY <1>1, <1>2, <1>3, <1>4, <1>5, <1>6, <1>7, <2>3, CalloutFields
       DEF LocInv, Pending, SleepOf, Waits, OnlyOn
  <2>4. ASSUME NEW d \in CPUs, hpc'[d] = "sem_cb"  PROVE SemCbOf(d)'
    <3>1. PICK y \in Threads : /\ y = cbtd[d] /\ y = cbtd'[d] /\ Timed(y)
                               /\ td_c_cpu[y] = d /\ td_state[y] \in {"ACK", "SEM_UNLOCK"}
                               /\ \A k \in callouts : k.td # y
      BY <1>1, <1>2, <1>3, <1>4, <1>5, <1>6, <1>7, <2>4
         DEF LocInv, PlaceTypes, Handlers, Pending, SemCbOf
    <3>2. Timed(y)'
      BY <1>1, <1>2, <1>3, <1>4, <1>5, <1>6, <1>7, <3>1
         DEF LocInv, Timed, Waits, OnlyOn
    <3> QED
      BY <1>1, <1>2, <1>3, <1>4, <1>5, <1>6, <1>7, <3>1, <3>2 DEF SemCbOf, OnlyOn
  <2> QED  BY <1>1, <1>2, <1>3, <1>4, <1>5, <1>6, <1>7, <2>0, <2>1, <2>2, <2>3, <2>4
              DEF Pending
<1>j. Located'
  <2>1. ASSUME NEW u \in alive'
        PROVE  (\E d \in CPUs : curthread'[d] = u) \/ InQueue(u)' \/ Parked(u)'
    BY <1>1, <1>2, <1>3, <1>4, <1>5, <1>6, <1>7
       DEF LocInv, Located, Parked, InQueue, Waits
  <2>2. ASSUME NEW u \in CPUs
        PROVE  InQueue(u)' \/ \E d \in CPUs : curthread'[d] = u
    BY <1>1, <1>2, <1>3, <1>4, <1>5, <1>6, <1>7
       DEF LocInv, Located, Parked, InQueue, Waits
  <2>3. ASSUME NEW u \in Threads
        PROVE  /\ td_state'[u] \in {"SEM_WAIT", "SLEEPING"} => Parked(u)'
               /\ td_state'[u] = "SEM_WAIT" => \E d \in CPUs : curthread'[d] = u
    BY <1>1, <1>2, <1>3, <1>4, <1>5, <1>6, <1>7
       DEF LocInv, Located, Parked, InQueue, Waits
  <2> QED  BY <2>1, <2>2, <2>3 DEF Located
<1>k. Ended'
  BY <1>1, <1>2, <1>3, <1>4, <1>5, <1>6, <1>7
     DEF LocInv, Ended, WaitLabels
<1>l. Available'
  BY <1>1, <1>2, <1>3, <1>4, <1>5, <1>6, <1>7
     DEF LocInv, Available, Idle
<1> QED  BY <1>a, <1>b, <1>c, <1>d, <1>e, <1>f, <1>g, <1>h, <1>i, <1>j, <1>k, <1>l
         DEF LocInv

\* The handler puts the thread back on the run queue.
LEMMA ParkAddStep ==
  ASSUME LocInv, NEW c \in CPUs, mdx_sched_park(c),
         curthread[c] # NULL, td_state[curthread[c]] # "RUNNING"
  PROVE  LocInv'
<1>1. CPUs \cap Threads = {} /\ NULL \notin CPUs /\ NULL \notin Threads
      /\ AllThreads = Threads \cup CPUs
  BY Kinds
<1>2. hpc[c] \in {"callback", "park"}
  BY DEF mdx_sched_park
<1>3. /\ pcpu_list' = pcpu_list /\ td_state' = td_state /\ alive' = alive
      /\ cbtd' = cbtd /\ callouts' = callouts /\ td_c_cpu' = td_c_cpu
      /\ td_list' = td_list /\ target' = target /\ sem_lock' = sem_lock
      /\ usec' = usec /\ timeout' = timeout
  BY DEF mdx_sched_park, schedVars, threadVars, cpuVars, calloutVars, semVars,
     localVars, permitVars
<1>4. tpc' = tpc
  BY DEF mdx_sched_park
<1>5. /\ hpc' \in [CPUs -> HandlerLabels] /\ hpc'[c] = "next"
      /\ \A d \in CPUs : d # c => hpc'[d] = hpc[d]
  BY DEF LocInv, PlaceTypes, HandlerLabels, HGoto, mdx_sched_park
<1>6. armed' \subseteq CPUs
  BY DEF LocInv, PlaceTypes, mdx_sched_park, callback_end
<1>7. PICK t \in AllThreads : t = curthread[c]
  BY <1>1 DEF LocInv, PlaceTypes
<1>8. /\ td_state[t] \in {"YIELDING", "READY"}
      /\ t \in Threads => t \in alive
  BY <1>7 DEF mdx_sched_park, LocInv, Running
<1>9. /\ ~InQueue(t) /\ \A d \in CPUs : curthread[d] = t => d = c
  BY <1>1, <1>7 DEF LocInv, Ready, Handlers
<1>10. /\ ~On(td_list, t)
       /\ \A u \in Threads : target[u] # t
  <2>1. CASE t \in Threads
    BY <1>1, <1>8, <2>1 DEF LocInv, Waiting, Waits, Claiming, ClaimOf, PostLabels
  <2>2. CASE t \in CPUs
    <3>1. \A u \in Threads : target[u] # t  BY <1>1, <2>2 DEF LocInv, PlaceTypes
    <3>2. ~On(td_list, t)  BY <1>1, <2>2 DEF LocInv, PlaceTypes, On
    <3> QED  BY <3>1, <3>2
  <2> QED  BY <1>1, <2>1, <2>2
<1>11. \A k \in callouts : k.td # t
  <2>1. ASSUME NEW k \in callouts, k.td = t  PROVE FALSE
    <3>1. t \in Threads /\ k.kind \in {"quantum", "sem", "sleep"}
      BY <2>1, CalloutFields DEF LocInv
    <3> QED  BY <1>8, <2>1, <3>1 DEF LocInv, Pending, QuantumOf, TimeoutOf, SleepOf
  <2> QED  BY <2>1
<1>12. /\ curthread' \in [CPUs -> AllThreads \cup {NULL}] /\ curthread'[c] = NULL
       /\ \A d \in CPUs : d # c => curthread'[d] = curthread[d]
  BY <1>7, <1>8 DEF LocInv, PlaceTypes, mdx_sched_park
<1>13. /\ RunQueue' /\ pending_ipis' \subseteq CPUs
       /\ \A u \in AllThreads :
            On(runq'[PrioOf(u)], u) <=> On(runq[PrioOf(u)], u) \/ u = t
  BY <1>7, <1>8, <1>9, AddToQueue DEF LocInv, mdx_sched_park
<1>a. PlaceTypes'
  BY <1>1, <1>2, <1>3, <1>4, <1>5, <1>6, <1>7, <1>8, <1>9, <1>10, <1>11, <1>12, <1>13
     DEF LocInv, PlaceTypes
<1>b. RunQueue'
  BY <1>13
<1>c. Handlers'
  BY <1>1, <1>2, <1>3, <1>4, <1>5, <1>6, <1>7, <1>8, <1>9, <1>10, <1>11, <1>12, <1>13
     DEF LocInv, Handlers
<1>d. Running'
  BY <1>1, <1>2, <1>3, <1>4, <1>5, <1>6, <1>7, <1>8, <1>9, <1>10, <1>11, <1>12, <1>13
     DEF LocInv, Running
<1>e. Ready'
  BY <1>1, <1>2, <1>3, <1>4, <1>5, <1>6, <1>7, <1>8, <1>9, <1>10, <1>11, <1>12, <1>13
     DEF LocInv, Ready, InQueue, Waits
<1>f. Waiting'
  BY <1>1, <1>2, <1>3, <1>4, <1>5, <1>6, <1>7, <1>8, <1>9, <1>10, <1>11, <1>12, <1>13
     DEF LocInv, Waiting, Waits, WaitLabels
<1>g. Claiming'
  <2>1. ASSUME NEW u \in Threads  PROVE ClaimOf(u)'
    BY <1>1, <1>2, <1>3, <1>4, <1>5, <1>6, <1>7, <1>8, <1>9, <1>10, <1>11, <1>12,
       <1>13
       DEF LocInv, PlaceTypes, Claiming, ClaimOf, PostLabels
  <2>2. \A u, v \in Threads : target'[u] = target'[v] /\ target'[u] # NULL => u = v
    BY <1>1, <1>2, <1>3, <1>4, <1>5, <1>6, <1>7, <1>8, <1>9, <1>10, <1>11, <1>12,
       <1>13
       DEF LocInv, PlaceTypes, Claiming, ClaimOf, PostLabels
  <2> QED  BY <2>1, <2>2 DEF Claiming
<1>h. Locking'
  BY <1>1, <1>2, <1>3, <1>4, <1>5, <1>6, <1>7, <1>8, <1>9, <1>10, <1>11, <1>12, <1>13
     DEF LocInv, Locking, Interruptible
<1>i. Pending'
  <2>0. \A k, l \in callouts' : k.td = l.td => k = l
    BY <1>1, <1>2, <1>3, <1>4, <1>5, <1>6, <1>7, <1>8, <1>9, <1>10, <1>11, <1>12,
       <1>13, CalloutFields
       DEF LocInv, Pending, OnlyOn
  <2>1. ASSUME NEW k \in callouts', k.kind = "quantum"  PROVE QuantumOf(k)'
    BY <1>1, <1>2, <1>3, <1>4, <1>5, <1>6, <1>7, <1>8, <1>9, <1>10, <1>11, <1>12,
       <1>13, <2>1, CalloutFields
       DEF LocInv, Pending, QuantumOf, OnlyOn
  <2>2. ASSUME NEW k \in callouts', k.kind = "sem"  PROVE TimeoutOf(k)'
    BY <1>1, <1>2, <1>3, <1>4, <1>5, <1>6, <1>7, <1>8, <1>9, <1>10, <1>11, <1>12,
       <1>13, <2>2, CalloutFields
       DEF LocInv, Pending, TimeoutOf, Timed, Waits, OnlyOn
  <2>3. ASSUME NEW k \in callouts', k.kind = "sleep"  PROVE SleepOf(k)'
    BY <1>1, <1>2, <1>3, <1>4, <1>5, <1>6, <1>7, <1>8, <1>9, <1>10, <1>11, <1>12,
       <1>13, <2>3, CalloutFields
       DEF LocInv, Pending, SleepOf, Waits, OnlyOn
  <2>4. ASSUME NEW d \in CPUs, hpc'[d] = "sem_cb"  PROVE SemCbOf(d)'
    <3>1. PICK y \in Threads : /\ y = cbtd[d] /\ y = cbtd'[d] /\ Timed(y)
                               /\ td_c_cpu[y] = d /\ td_state[y] \in {"ACK", "SEM_UNLOCK"}
                               /\ \A k \in callouts : k.td # y
      BY <1>1, <1>2, <1>3, <1>4, <1>5, <1>6, <1>7, <1>8, <1>9, <1>10, <1>11, <1>12,
         <1>13, <2>4
         DEF LocInv, PlaceTypes, Handlers, Pending, SemCbOf
    <3>2. Timed(y)'
      BY <1>1, <1>2, <1>3, <1>4, <1>5, <1>6, <1>7, <1>8, <1>9, <1>10, <1>11, <1>12,
         <1>13, <3>1
         DEF LocInv, Timed, Waits, OnlyOn
    <3> QED
      BY <1>1, <1>2, <1>3, <1>4, <1>5, <1>6, <1>7, <1>8, <1>9, <1>10, <1>11, <1>12,
         <1>13, <3>1, <3>2
         DEF SemCbOf, OnlyOn
  <2> QED  BY <1>1, <1>2, <1>3, <1>4, <1>5, <1>6, <1>7, <1>8, <1>9, <1>10, <1>11,
              <1>12, <1>13, <2>0, <2>1, <2>2, <2>3, <2>4
              DEF Pending
<1>j. Located'
  <2>1. ASSUME NEW u \in alive'
        PROVE  (\E d \in CPUs : curthread'[d] = u) \/ InQueue(u)' \/ Parked(u)'
    <3>1. CASE u = t
      BY <1>1, <1>2, <1>3, <1>4, <1>5, <1>6, <1>7, <1>8, <1>9, <1>10, <1>11, <1>12,
         <1>13, <3>1
         DEF LocInv, Parked, InQueue, Waits
    <3>2. CASE u # t
      <4>1. /\ u \in Threads /\ u \in AllThreads /\ u # NULL
            /\ \/ \E d \in CPUs : curthread[d] = u
               \/ InQueue(u) \/ Parked(u)
        BY <1>1, <1>2, <1>3, <1>4, <1>5, <1>6, <1>7, <1>8, <1>9, <1>10, <1>11,
           <1>12, <1>13, <3>2
           DEF LocInv, PlaceTypes, Located
      <4>2. CASE \E v \in Threads : target[v] = u
        <5>1. PICK v \in Threads : target[v] = u  BY <4>2
        <5>2. target'[v] = u
          BY <1>1, <1>2, <1>3, <1>4, <1>5, <1>6, <1>7, <1>8, <1>9, <1>10, <1>11,
             <1>12, <1>13, <3>2, <4>1, <5>1
        <5> QED  BY <5>2 DEF Parked
      <4> QED  BY <1>1, <1>2, <1>3, <1>4, <1>5, <1>6, <1>7, <1>8, <1>9, <1>10,
                  <1>11, <1>12, <1>13, <3>2, <4>1, <4>2
            DEF Parked, InQueue, Waits
    <3> QED  BY <3>1, <3>2
  <2>2. ASSUME NEW u \in CPUs
        PROVE  InQueue(u)' \/ \E d \in CPUs : curthread'[d] = u
    BY <1>1, <1>2, <1>3, <1>4, <1>5, <1>6, <1>7, <1>8, <1>9, <1>10, <1>11, <1>12,
       <1>13
       DEF LocInv, Located, Parked, InQueue, Waits
  <2>3. ASSUME NEW u \in Threads
        PROVE  /\ td_state'[u] \in {"SEM_WAIT", "SLEEPING"} => Parked(u)'
               /\ td_state'[u] = "SEM_WAIT" => \E d \in CPUs : curthread'[d] = u
    BY <1>1, <1>2, <1>3, <1>4, <1>5, <1>6, <1>7, <1>8, <1>9, <1>10, <1>11, <1>12,
       <1>13
       DEF LocInv, Located, Parked, InQueue, Waits
  <2> QED  BY <2>1, <2>2, <2>3 DEF Located
<1>k. Ended'
  BY <1>1, <1>2, <1>3, <1>4, <1>5, <1>6, <1>7, <1>8, <1>9, <1>10, <1>11, <1>12, <1>13
     DEF LocInv, Ended, WaitLabels
<1>l. Available'
  BY <1>1, <1>2, <1>3, <1>4, <1>5, <1>6, <1>7, <1>8, <1>9, <1>10, <1>11, <1>12, <1>13
     DEF LocInv, Available, Idle
<1> QED  BY <1>a, <1>b, <1>c, <1>d, <1>e, <1>f, <1>g, <1>h, <1>i, <1>j, <1>k, <1>l
         DEF LocInv

\* The run queue is not empty when the handler picks a thread: there are as
\* many idle threads as CPUs, none of them ever waits, and this CPU has none.
LEMMA QueueNotEmpty ==
  ASSUME LocInv, NEW c \in CPUs, hpc[c] = "next"
  PROVE  \E p \in 0 .. NPrio - 1 : runq[p] # <<>>
<1> SUFFICES ASSUME \A p \in 0 .. NPrio - 1 : runq[p] = <<>>
             PROVE  FALSE
  OBVIOUS
<1>1. curthread[c] = NULL
  BY DEF LocInv, Handlers
<1>2. ASSUME NEW d \in CPUs
      PROVE  \E e \in CPUs \ {c} : curthread[e] = d
  <2>1. ~InQueue(d)
    BY Kinds, PrioRange, EmptyList DEF InQueue
  <2>2. PICK e \in CPUs : curthread[e] = d
    BY <2>1 DEF LocInv, Located
  <2> QED  BY <1>1, <2>2, Kinds
<1> DEFINE f == [d \in CPUs |-> CHOOSE e \in CPUs \ {c} : curthread[e] = d]
<1>3. \A d \in CPUs : f[d] \in CPUs \ {c} /\ curthread[f[d]] = d
  BY <1>2
<1>4. f \in [CPUs -> CPUs \ {c}]
  BY <1>3
<1>5. /\ IsFiniteSet(CPUs) /\ Cardinality(CPUs) \in Nat
      /\ IsFiniteSet(CPUs \ {c}) /\ Cardinality(CPUs \ {c}) = Cardinality(CPUs) - 1
  BY SchedAssumption, FS_CardinalityType, FS_RemoveElement
<1>6. Cardinality(CPUs \ {c}) < Cardinality(CPUs)
  BY <1>5
<1> HIDE DEF f
<1>7. \E x, y \in CPUs : x # y /\ f[x] = f[y]
  BY <1>4, <1>5, <1>6, FS_PigeonHole
<1> QED  BY <1>3, <1>7

\* TopPrio is the priority of a queue that is not empty, and the highest.
LEMMA TopPrioReady ==
  ASSUME \E p \in 0 .. NPrio - 1 : runq[p] # <<>>
  PROVE  /\ TopPrio \in 0 .. NPrio - 1 /\ runq[TopPrio] # <<>>
         /\ \A q \in TopPrio + 1 .. NPrio - 1 : runq[q] = <<>>
<1> DEFINE T == {q \in 0 .. NPrio - 1 : runq[NPrio - 1 - q] # <<>>}
<1>0. NPrio \in Nat
  BY SchedAssumption
<1>1. PICK p \in 0 .. NPrio - 1 : runq[p] # <<>>
  OBVIOUS
<1>2. NPrio - 1 - p \in 0 .. NPrio - 1 /\ NPrio - 1 - (NPrio - 1 - p) = p
  BY <1>0
<1>3. T \in SUBSET Nat /\ NPrio - 1 - p \in T
  BY <1>0, <1>1, <1>2
<1>4. PICK x \in T : \A y \in T : x <= y
  BY <1>3, LeastNat
<1> DEFINE z == NPrio - 1 - x
<1>5. z \in 0 .. NPrio - 1 /\ runq[z] # <<>> /\ x \in 0 .. NPrio - 1
  BY <1>0, <1>4
<1>6. ASSUME NEW q \in z + 1 .. NPrio - 1, runq[q] # <<>>
      PROVE  FALSE
  <2>1. /\ NPrio - 1 - q \in 0 .. NPrio - 1 /\ NPrio - 1 - (NPrio - 1 - q) = q
        /\ NPrio - 1 - q < x
    BY <1>0, <1>5
  <2>2. NPrio - 1 - q \in T
    BY <1>6, <2>1
  <2>3. x <= NPrio - 1 - q
    BY <1>4, <2>2
  <2> HIDE DEF T
  <2> QED  BY <1>0, <1>5, <2>1, <2>3
<1> HIDE DEF z
<1> QED  BY <1>5, <1>6 DEF TopPrio

\* mdx_sched_next finds the first thread of a queue.
LEMMA NextThread ==
  ASSUME LocInv, NEW c \in CPUs, hpc[c] = "next"
  PROVE  /\ TopPrio \in 0 .. NPrio - 1 /\ runq[TopPrio] # <<>>
         /\ Head(runq[TopPrio]) \in AllThreads
         /\ PrioOf(Head(runq[TopPrio])) = TopPrio
         /\ InQueue(Head(runq[TopPrio]))
<1>1. TopPrio \in 0 .. NPrio - 1 /\ runq[TopPrio] # <<>>
  BY QueueNotEmpty, TopPrioReady
<1>2. runq[TopPrio] \in Seq(AllThreads)
  BY <1>1 DEF LocInv, RunQueue
<1>3. Head(runq[TopPrio]) \in AllThreads /\ On(runq[TopPrio], Head(runq[TopPrio]))
  BY <1>1, <1>2, HeadTailList
<1>4. PrioOf(Head(runq[TopPrio])) = TopPrio
  BY <1>1, <1>3 DEF LocInv, RunQueue
<1> QED  BY <1>1, <1>3, <1>4 DEF InQueue

\* What taking the first thread does to the run queue.
LEMMA TakeFromQueue ==
  ASSUME LocInv, NEW c \in CPUs, hpc[c] = "next",
         runq' = [runq EXCEPT ![TopPrio] = Tail(@)]
  PROVE  /\ RunQueue'
         /\ \A u \in AllThreads :
              On(runq'[PrioOf(u)], u) <=>
                On(runq[PrioOf(u)], u) /\ u # Head(runq[TopPrio])
<1> DEFINE P == 0 .. NPrio - 1
<1>1. PICK z \in P : z = TopPrio
  BY NextThread
<1>2. PICK t \in AllThreads : t = Head(runq[z])
  BY <1>1, NextThread
<1>3. /\ runq \in [P -> Seq(AllThreads)] /\ runq[z] \in Seq(AllThreads)
      /\ runq[z] # <<>> /\ PrioOf(t) = z
      /\ \A p \in P : Once(runq[p])
  BY <1>1, <1>2, NextThread DEF LocInv, RunQueue
<1>4. runq' = [runq EXCEPT ![z] = Tail(runq[z])]
  BY <1>1
<1>5. /\ Tail(runq[z]) \in Seq(AllThreads) /\ Once(Tail(runq[z]))
      /\ \A u : On(Tail(runq[z]), u) <=> On(runq[z], u) /\ u # t
  BY <1>2, <1>3, HeadTailList
<1> HIDE DEF P
<1>6. /\ runq' \in [P -> Seq(AllThreads)] /\ runq'[z] = Tail(runq[z])
      /\ \A p \in P : p # z => runq'[p] = runq[p]
  BY <1>3, <1>4, <1>5
<1>7. ASSUME NEW p \in P, NEW u \in AllThreads
      PROVE  On(runq'[p], u) <=> On(runq[p], u) /\ ~(u = t /\ p = z)
  BY <1>5, <1>6
<1>8. \A p \in P : Once(runq'[p])
  BY <1>3, <1>5, <1>6
<1>9. \A p \in P : \A u \in AllThreads : On(runq'[p], u) => PrioOf(u) = p
  BY <1>7 DEF LocInv, RunQueue, P
<1>10. \A u \in AllThreads : PrioOf(u) \in P
  BY PrioRange DEF P
<1>11. \A u \in AllThreads :
         On(runq'[PrioOf(u)], u) <=> On(runq[PrioOf(u)], u) /\ u # t
  BY <1>3, <1>7, <1>10
<1> QED  BY <1>1, <1>2, <1>6, <1>8, <1>9, <1>11 DEF RunQueue, P

\* mdx_sched_next gives the CPU to the first thread of a queue.
LEMMA NextStep ==
  ASSUME LocInv, NEW c \in CPUs, mdx_sched_next(c)
  PROVE  LocInv'
<1>1. CPUs \cap Threads = {} /\ NULL \notin CPUs /\ NULL \notin Threads
      /\ AllThreads = Threads \cup CPUs
  BY Kinds
<1>2. hpc[c] = "next" /\ curthread[c] = NULL
  BY DEF mdx_sched_next, LocInv, Handlers
<1>3. PICK t \in AllThreads : t = Head(runq[TopPrio]) /\ InQueue(t)
  BY <1>2, NextThread
<1>4. /\ RunQueue'
      /\ \A u \in AllThreads :
           On(runq'[PrioOf(u)], u) <=> On(runq[PrioOf(u)], u) /\ u # t
  BY <1>2, <1>3, TakeFromQueue DEF mdx_sched_next
<1>5. /\ pending_ipis' = pending_ipis /\ alive' = alive /\ cbtd' = cbtd
      /\ td_list' = td_list /\ target' = target /\ sem_lock' = sem_lock
      /\ usec' = usec /\ timeout' = timeout
  BY DEF mdx_sched_next, schedVars, threadVars, cpuVars, calloutVars, semVars,
     localVars, permitVars
<1>6. tpc' = tpc
  BY DEF mdx_sched_next
<1>7. /\ hpc' \in [CPUs -> HandlerLabels] /\ hpc'[c] = "none"
      /\ \A d \in CPUs : d # c => hpc'[d] = hpc[d]
  BY DEF LocInv, PlaceTypes, HandlerLabels, HGoto, mdx_sched_next
<1>8. /\ curthread' \in [CPUs -> AllThreads \cup {NULL}] /\ curthread'[c] = t
      /\ \A d \in CPUs : d # c => curthread'[d] = curthread[d]
  BY <1>3 DEF LocInv, PlaceTypes, mdx_sched_next
<1>9. /\ \A d \in CPUs : curthread[d] # t /\ cbtd[d] # t
      /\ \A k \in callouts : k.td # t
      /\ ~On(td_list, t) /\ \A u \in Threads : target[u] # t
      /\ t \in Threads => t \in alive
  <2>1. \A d \in CPUs : curthread[d] # t
    BY <1>3 DEF LocInv, Ready
  <2>2. CASE t \in Threads
    <3>1. \A d \in CPUs : cbtd[d] # t
      BY <1>1, <1>3, <2>2 DEF LocInv, Ready, Handlers, Pending, SemCbOf, Timed
    <3> QED  BY <1>3, <2>1, <2>2, <3>1 DEF LocInv, Ready, Waits
  <2>3. CASE t \in CPUs
    <3>1. \A d \in CPUs : cbtd[d] # t
      BY <1>1, <2>3 DEF LocInv, PlaceTypes
    <3>2. \A u \in Threads : target[u] # t
      BY <1>1, <2>3 DEF LocInv, PlaceTypes
    <3>3. \A k \in callouts : k.td # t
      BY <1>1, <2>3, CalloutFields DEF LocInv
    <3>4. ~On(td_list, t)
      BY <1>1, <2>3 DEF LocInv, PlaceTypes, On
    <3> QED  BY <1>1, <2>1, <2>3, <3>1, <3>2, <3>3, <3>4
  <2> QED  BY <1>1, <2>2, <2>3
<1>10. /\ td_state' \in [AllThreads -> States]
       /\ t \in Threads => td_state'[t] = "RUNNING"
       /\ \A u \in AllThreads : u # t => td_state'[u] = td_state[u]
       /\ \A d \in CPUs : td_state'[d] = "READY"
  <2>1. CASE t \in CPUs
    BY <1>1, <1>3, <2>1 DEF LocInv, PlaceTypes, mdx_sched_next, Idle
  <2>2. CASE t \in Threads
    <3>1. td_state' = [td_state EXCEPT ![t] = "RUNNING"]
      BY <1>1, <1>3, <2>2 DEF mdx_sched_next, Idle
    <3> QED  BY <2>2, <3>1, StateStep DEF LocInv, States
  <2> QED  BY <1>1, <2>1, <2>2
<1>11. /\ pcpu_list' \in Seq(CPUs) /\ Once(pcpu_list')
       /\ \A d \in CPUs : d # c => (On(pcpu_list', d) <=> On(pcpu_list, d))
       /\ On(pcpu_list', c) <=> t \in CPUs
  <2>1. pcpu_list \in Seq(CPUs) /\ Once(pcpu_list) /\ ~On(pcpu_list, c)
    BY <1>2 DEF LocInv, PlaceTypes, Available
  <2>2. CASE t \in CPUs
    <3>1. pcpu_list' = Append(pcpu_list, c)
      BY <1>3, <2>2 DEF mdx_sched_next, mdx_sched_cpu_avail, Idle
    <3> QED  BY <2>1, <2>2, <3>1, AppendList
  <2>3. CASE t \notin CPUs
    <3>1. pcpu_list' = pcpu_list
      BY <1>3, <2>3 DEF mdx_sched_next, Idle
    <3> QED  BY <2>1, <2>3, <3>1
  <2> QED  BY <2>2, <2>3
<1>12. PICK q : q = Callout(t, "quantum", c)
  OBVIOUS
<1>13. /\ callouts' \subseteq CalloutTypes
       /\ td_c_cpu' \in [Threads -> CPUs] /\ armed' \subseteq CPUs
       /\ \A u \in Threads : u # t => td_c_cpu'[u] = td_c_cpu[u]
       /\ t \in Preemptive => td_c_cpu'[t] = c
       /\ \A k \in callouts : k \in callouts'
       /\ \A k \in callouts' : k \in callouts \/
            (/\ t \in Preemptive /\ k = q
             /\ k.kind = "quantum" /\ k.td = t /\ k.cpu = c)
  <2>1. start_quantum(c, t)
    BY <1>3 DEF mdx_sched_next
  <2>2. CASE t \in Preemptive
    <3>1. /\ callouts' = callouts \cup {Callout(t, "quantum", c)}
          /\ td_c_cpu' = [td_c_cpu EXCEPT ![t] = c] /\ armed' = armed \cup {c}
      BY <2>1, <2>2 DEF start_quantum
    <3>2. t \in Threads  BY <2>2, SchedAssumption
    <3>3. /\ Callout(t, "quantum", c) \in CalloutTypes
          /\ Callout(t, "quantum", c).td = t /\ Callout(t, "quantum", c).cpu = c
          /\ Callout(t, "quantum", c).kind = "quantum"
      BY <3>2 DEF Callout, CalloutTypes
    <3> QED  BY <1>12, <2>2, <3>1, <3>2, <3>3 DEF LocInv, PlaceTypes
  <2>3. CASE t \notin Preemptive
    BY <2>1, <2>3 DEF start_quantum, calloutVars, LocInv, PlaceTypes
  <2> QED  BY <2>2, <2>3
<1>14. t \in AllThreads /\ InQueue(t) /\ (t \in Preemptive => t \in Threads)
  BY <1>3, SchedAssumption
<1>a. PlaceTypes'
  BY <1>1, <1>2, <1>4, <1>5, <1>6, <1>7, <1>8, <1>9, <1>10, <1>11, <1>13, <1>14
     DEF LocInv, PlaceTypes
<1>b. RunQueue'
  BY <1>4
<1>c. Handlers'
  BY <1>1, <1>2, <1>4, <1>5, <1>6, <1>7, <1>8, <1>9, <1>10, <1>11, <1>13, <1>14
     DEF LocInv, Handlers
<1>d. Running'
  BY <1>1, <1>2, <1>4, <1>5, <1>6, <1>7, <1>8, <1>9, <1>10, <1>11, <1>13, <1>14
     DEF LocInv, Running
<1>e. Ready'
  BY <1>1, <1>2, <1>4, <1>5, <1>6, <1>7, <1>8, <1>9, <1>10, <1>11, <1>13, <1>14
     DEF LocInv, Ready, InQueue, Waits
<1>f. Waiting'
  BY <1>1, <1>2, <1>4, <1>5, <1>6, <1>7, <1>8, <1>9, <1>10, <1>11, <1>13, <1>14
     DEF LocInv, Waiting, Waits, WaitLabels
<1>g. Claiming'
  <2>1. ASSUME NEW u \in Threads  PROVE ClaimOf(u)'
    BY <1>1, <1>2, <1>4, <1>5, <1>6, <1>7, <1>8, <1>9, <1>10, <1>11, <1>13, <1>14
       DEF LocInv, PlaceTypes, Claiming, ClaimOf, PostLabels
  <2>2. \A u, v \in Threads : target'[u] = target'[v] /\ target'[u] # NULL => u = v
    BY <1>1, <1>2, <1>4, <1>5, <1>6, <1>7, <1>8, <1>9, <1>10, <1>11, <1>13, <1>14
       DEF LocInv, PlaceTypes, Claiming, ClaimOf, PostLabels
  <2> QED  BY <2>1, <2>2 DEF Claiming
<1>h. Locking'
  BY <1>1, <1>2, <1>4, <1>5, <1>6, <1>7, <1>8, <1>9, <1>10, <1>11, <1>13, <1>14
     DEF LocInv, Locking, Interruptible
<1>i. Pending'
  <2>0. \A k, l \in callouts' : k.td = l.td => k = l
    BY <1>1, <1>2, <1>4, <1>5, <1>6, <1>7, <1>8, <1>9, <1>10, <1>11, <1>13, <1>14,
       CalloutFields
       DEF LocInv, Pending, OnlyOn
  <2>1. ASSUME NEW k \in callouts', k.kind = "quantum"  PROVE QuantumOf(k)'
    BY <1>1, <1>2, <1>4, <1>5, <1>6, <1>7, <1>8, <1>9, <1>10, <1>11, <1>13, <1>14,
       <2>1, CalloutFields
       DEF LocInv, Pending, QuantumOf, OnlyOn
  <2>2. ASSUME NEW k \in callouts', k.kind = "sem"  PROVE TimeoutOf(k)'
    BY <1>1, <1>2, <1>4, <1>5, <1>6, <1>7, <1>8, <1>9, <1>10, <1>11, <1>13, <1>14,
       <2>2, CalloutFields
       DEF LocInv, Pending, TimeoutOf, Timed, Waits, OnlyOn
  <2>3. ASSUME NEW k \in callouts', k.kind = "sleep"  PROVE SleepOf(k)'
    BY <1>1, <1>2, <1>4, <1>5, <1>6, <1>7, <1>8, <1>9, <1>10, <1>11, <1>13, <1>14,
       <2>3, CalloutFields
       DEF LocInv, Pending, SleepOf, Waits, OnlyOn
  <2>4. ASSUME NEW d \in CPUs, hpc'[d] = "sem_cb"  PROVE SemCbOf(d)'
    <3>1. PICK y \in Threads : /\ y = cbtd[d] /\ y = cbtd'[d] /\ Timed(y)
                               /\ td_c_cpu[y] = d /\ td_state[y] \in {"ACK", "SEM_UNLOCK"}
                               /\ \A k \in callouts : k.td # y
      BY <1>1, <1>2, <1>4, <1>5, <1>6, <1>7, <1>8, <1>9, <1>10, <1>11, <1>13, <1>14,
         <2>4
         DEF LocInv, PlaceTypes, Handlers, Pending, SemCbOf
    <3>2. Timed(y)'
      BY <1>1, <1>2, <1>4, <1>5, <1>6, <1>7, <1>8, <1>9, <1>10, <1>11, <1>13, <1>14,
         <3>1
         DEF LocInv, Timed, Waits, OnlyOn
    <3> QED
      BY <1>1, <1>2, <1>4, <1>5, <1>6, <1>7, <1>8, <1>9, <1>10, <1>11, <1>13, <1>14,
         <3>1, <3>2
         DEF SemCbOf, OnlyOn
  <2> QED  BY <1>1, <1>2, <1>4, <1>5, <1>6, <1>7, <1>8, <1>9, <1>10, <1>11, <1>13,
              <1>14, <2>0, <2>1, <2>2, <2>3, <2>4
              DEF Pending
<1>j. Located'
  <2>1. ASSUME NEW u \in alive'
        PROVE  (\E d \in CPUs : curthread'[d] = u) \/ InQueue(u)' \/ Parked(u)'
    <3>1. CASE u = t
      BY <1>1, <1>2, <1>4, <1>5, <1>6, <1>7, <1>8, <1>9, <1>10, <1>11, <1>13, <1>14,
         <3>1
         DEF LocInv, Parked, InQueue, Waits
    <3>2. CASE u # t
      <4>1. /\ u \in Threads /\ u \in AllThreads /\ u # NULL
            /\ \/ \E d \in CPUs : curthread[d] = u
               \/ InQueue(u) \/ Parked(u)
        BY <1>1, <1>2, <1>4, <1>5, <1>6, <1>7, <1>8, <1>9, <1>10, <1>11, <1>13,
           <1>14, <3>2
           DEF LocInv, PlaceTypes, Located
      <4>2. CASE \E v \in Threads : target[v] = u
        <5>1. PICK v \in Threads : target[v] = u  BY <4>2
        <5>2. target'[v] = u
          BY <1>1, <1>2, <1>4, <1>5, <1>6, <1>7, <1>8, <1>9, <1>10, <1>11, <1>13,
             <1>14, <3>2, <4>1, <5>1
        <5> QED  BY <5>2 DEF Parked
      <4> QED  BY <1>1, <1>2, <1>4, <1>5, <1>6, <1>7, <1>8, <1>9, <1>10, <1>11,
                  <1>13, <1>14, <3>2, <4>1, <4>2
            DEF Parked, InQueue, Waits
    <3> QED  BY <3>1, <3>2
  <2>2. ASSUME NEW u \in CPUs
        PROVE  InQueue(u)' \/ \E d \in CPUs : curthread'[d] = u
    BY <1>1, <1>2, <1>4, <1>5, <1>6, <1>7, <1>8, <1>9, <1>10, <1>11, <1>13, <1>14
       DEF LocInv, Located, Parked, InQueue, Waits
  <2>3. ASSUME NEW u \in Threads
        PROVE  /\ td_state'[u] \in {"SEM_WAIT", "SLEEPING"} => Parked(u)'
               /\ td_state'[u] = "SEM_WAIT" => \E d \in CPUs : curthread'[d] = u
    BY <1>1, <1>2, <1>4, <1>5, <1>6, <1>7, <1>8, <1>9, <1>10, <1>11, <1>13, <1>14
       DEF LocInv, Located, Parked, InQueue, Waits
  <2> QED  BY <2>1, <2>2, <2>3 DEF Located
<1>k. Ended'
  BY <1>1, <1>2, <1>4, <1>5, <1>6, <1>7, <1>8, <1>9, <1>10, <1>11, <1>13, <1>14
     DEF LocInv, Ended, WaitLabels
<1>l. Available'
  BY <1>1, <1>2, <1>4, <1>5, <1>6, <1>7, <1>8, <1>9, <1>10, <1>11, <1>13, <1>14
     DEF LocInv, Available, Idle
<1> QED  BY <1>a, <1>b, <1>c, <1>d, <1>e, <1>f, <1>g, <1>h, <1>i, <1>j, <1>k, <1>l
         DEF LocInv

\* The handler is entered; mdx_sched_ack takes the thread off the CPU if it
\* went to sleep or has ended.
LEMMA ExceptionStep ==
  ASSUME LocInv, NEW c \in CPUs, NEW why \in {"ecall", "timer", "ipi"}, exception(c, why)
  PROVE  LocInv'
<1>1. CPUs \cap Threads = {} /\ NULL \notin CPUs /\ NULL \notin Threads
      /\ AllThreads = Threads \cup CPUs
  BY Kinds
<1>2. hpc[c] = "none" /\ curthread[c] # NULL
  BY DEF exception, LocInv, Handlers
<1>3. PICK t \in AllThreads : t = curthread[c]
  BY <1>2 DEF LocInv, PlaceTypes
<1>4. /\ runq' = runq /\ cbtd' = cbtd /\ callouts' = callouts
      /\ td_c_cpu' = td_c_cpu /\ armed' = armed /\ td_list' = td_list
      /\ target' = target /\ sem_lock' = sem_lock /\ usec' = usec
      /\ timeout' = timeout
  BY DEF exception, schedVars, threadVars, cpuVars, calloutVars, semVars, localVars,
     permitVars
<1>5. /\ hpc' \in [CPUs -> HandlerLabels] /\ hpc'[c] \in {"callback", "park"}
      /\ \A d \in CPUs : d # c => hpc'[d] = hpc[d]
  BY DEF LocInv, PlaceTypes, HandlerLabels, HGoto, exception
<1>6. pending_ipis' \subseteq CPUs
  BY DEF LocInv, PlaceTypes, exception, ipi_handler
<1>7. /\ \A d \in CPUs : curthread[d] = t => d = c
      /\ t \in Threads => t \in alive
  BY <1>1, <1>2, <1>3 DEF LocInv, Handlers, Running
<1>8. /\ tpc' \in [AllThreads -> ThreadLabels \cup {"boot", "idle"}]
      /\ \A u \in AllThreads : u # t => tpc'[u] = tpc[u]
      /\ tpc[t] \in Interruptible
      /\ tpc'[t] # tpc[t] =>
           \/ tpc[t] = "boot" /\ tpc'[t] = "idle"
           \/ tpc[t] = "wait_yield" /\ tpc'[t] = "wait_ret"
           \/ tpc[t] \in {"sleep_yield", "yield"} /\ tpc'[t] = "user"
           \/ tpc[t] = "exit_yield" /\ tpc'[t] = "not_reached"
  <2>1. tpc \in [AllThreads -> ThreadLabels \cup {"boot", "idle"}]
    BY DEF LocInv, PlaceTypes
  <2>2. CASE tpc[t] \in Yielding /\ Goto(t, AfterYield(tpc[t]))
    <3>1. \/ tpc[t] = "boot" /\ AfterYield(tpc[t]) = "idle"
          \/ tpc[t] = "wait_yield" /\ AfterYield(tpc[t]) = "wait_ret"
          \/ tpc[t] \in {"sleep_yield", "yield"} /\ AfterYield(tpc[t]) = "user"
          \/ tpc[t] = "exit_yield" /\ AfterYield(tpc[t]) = "not_reached"
      BY <2>2 DEF Yielding, AfterYield
    <3>2. tpc' = [tpc EXCEPT ![t] = AfterYield(tpc[t])]
      BY <2>2 DEF Goto
    <3>3. AfterYield(tpc[t]) \in ThreadLabels \cup {"boot", "idle"}
      BY <3>1 DEF ThreadLabels, WaitLabels
    <3>4. tpc[t] \in Interruptible  BY <2>2 DEF Yielding, Interruptible
    <3>5. tpc'[t] = AfterYield(tpc[t])  BY <2>1, <3>2
    <3>6. /\ tpc' \in [AllThreads -> ThreadLabels \cup {"boot", "idle"}]
          /\ \A u \in AllThreads : u # t => tpc'[u] = tpc[u]
      BY <2>1, <3>2, <3>3
    <3> QED  BY <3>1, <3>4, <3>5, <3>6
  <2>3. CASE tpc[t] \in Interruptible /\ UNCHANGED tpc
    BY <2>1, <2>3
  <2> QED  BY <1>3, <2>2, <2>3 DEF exception
<1>9. /\ pcpu_list' \in Seq(CPUs) /\ Once(pcpu_list')
      /\ \A d \in CPUs : d # c => (On(pcpu_list', d) <=> On(pcpu_list, d))
      /\ ~On(pcpu_list', c)
  <2>1. /\ pcpu_list \in Seq(CPUs) /\ Once(pcpu_list)
        /\ On(pcpu_list, c) => t \in CPUs
    BY <1>3 DEF LocInv, PlaceTypes, Available, Idle
  <2>2. CASE t \in CPUs
    <3>1. pcpu_list' = RemoveFirst(pcpu_list, c)
      BY <1>3, <2>2 DEF exception, mdx_sched_cpu_avail, Idle
    <3> QED  BY <2>1, <2>2, <3>1, RemoveFirstList
  <2>3. CASE t \notin CPUs
    <3>1. pcpu_list' = pcpu_list
      BY <1>3, <2>3 DEF exception, Idle
    <3> QED  BY <2>1, <2>3, <3>1
  <2> QED  BY <2>2, <2>3
<1>10. mdx_sched_ack(c, t)
  BY <1>3 DEF exception
<1>11. /\ alive' = IF td_state[t] = "TERMINATING" THEN alive \ {t} ELSE alive
       /\ td_state' \in [AllThreads -> States]
       /\ td_state'[t] = IF td_state[t] \in {"SEM_WAIT", "SLEEPING"} THEN "ACK" ELSE td_state[t]
       /\ \A u \in AllThreads : u # t => td_state'[u] = td_state[u]
  BY <1>3, <1>10
     DEF LocInv, PlaceTypes, mdx_sched_ack, mdx_thread_terminate_cleanup, States
<1>12. /\ curthread' \in [CPUs -> AllThreads \cup {NULL}]
       /\ \A d \in CPUs : d # c => curthread'[d] = curthread[d]
       /\ curthread'[c] = IF td_state[t] \in {"TERMINATING", "SEM_WAIT", "SLEEPING"} THEN NULL ELSE t
  <2>1. curthread \in [CPUs -> AllThreads \cup {NULL}]
    BY DEF LocInv, PlaceTypes
  <2>2. curthread' = IF td_state[t] \in {"TERMINATING", "SEM_WAIT", "SLEEPING"}
                     THEN [curthread EXCEPT ![c] = NULL] ELSE curthread
    BY <1>10 DEF mdx_sched_ack
  <2> QED  BY <1>3, <2>1, <2>2
<1>13. /\ t \in Threads =>
            /\ td_state[t] \in {"RUNNING", "SEM_WAIT", "SLEEPING", "YIELDING", "TERMINATING"}
            /\ td_state[t] = "SEM_WAIT" => tpc[t] = "wait_yield"
            /\ td_state[t] = "SLEEPING" => tpc[t] = "sleep_yield"
            /\ td_state[t] = "TERMINATING" => tpc[t] = "exit_yield"
       /\ t \in CPUs => td_state[t] = "READY"
       /\ ~InQueue(t)
  <2>1. t \in Threads =>
          /\ td_state[t] \in {"RUNNING", "SEM_WAIT", "SLEEPING", "YIELDING", "TERMINATING"}
          /\ td_state[t] = "SEM_WAIT" => tpc[t] = "wait_yield"
          /\ td_state[t] = "SLEEPING" => tpc[t] = "sleep_yield"
          /\ td_state[t] = "TERMINATING" => tpc[t] = "exit_yield"
    BY <1>2, <1>3 DEF LocInv, Running
  <2>2. t \in CPUs => td_state[t] = "READY"
    BY DEF LocInv, PlaceTypes
  <2>3. ~InQueue(t)
    BY <1>3 DEF LocInv, Ready
  <2> QED  BY <2>1, <2>2, <2>3
<1>14. td_state[t] \in {"SEM_WAIT", "SLEEPING"} => Parked(t)
  BY <1>1, <1>13 DEF LocInv, Located
<1>15. /\ td_state[t] = "TERMINATING" =>
            /\ ~On(td_list, t) /\ \A u \in Threads : target[u] # t
            /\ \A k \in callouts : k.td # t
            /\ \A d \in CPUs : cbtd[d] # t
  <2> SUFFICES ASSUME td_state[t] = "TERMINATING"
               PROVE  /\ ~On(td_list, t) /\ \A u \in Threads : target[u] # t
                      /\ \A k \in callouts : k.td # t
                      /\ \A d \in CPUs : cbtd[d] # t
    OBVIOUS
  <2>1. t \in Threads
    BY <1>1, <1>13
  <2>2. ~On(td_list, t) /\ \A u \in Threads : target[u] # t
    BY <1>1, <2>1 DEF LocInv, Waiting, Waits, Claiming, ClaimOf, PostLabels
  <2>3. \A k \in callouts : k.td # t
    BY CalloutFields DEF LocInv, Pending, QuantumOf, TimeoutOf, SleepOf
  <2>4. \A d \in CPUs : cbtd[d] # t
    BY <1>1, <2>1 DEF LocInv, Handlers, Pending, SemCbOf
  <2> QED  BY <2>2, <2>3, <2>4
<1>a. PlaceTypes'
  <2>1. \A u \in Threads : tpc'[u] \in ThreadLabels
    BY <1>1, <1>8 DEF LocInv, PlaceTypes, ThreadLabels, WaitLabels, PostLabels
  <2>2. \A d \in CPUs : tpc'[d] \in {"boot", "idle"}
    BY <1>1, <1>8 DEF LocInv, PlaceTypes
  <2>3. \A d \in CPUs : td_state'[d] = "READY"
    BY <1>1, <1>3, <1>11, <1>13 DEF LocInv, PlaceTypes
  <2> QED  BY <1>1, <1>2, <1>3, <1>4, <1>5, <1>6, <1>7, <1>8, <1>9, <1>11, <1>12,
              <1>13, <1>14, <1>15, <2>1, <2>2, <2>3
        DEF LocInv, PlaceTypes
<1>b. RunQueue'
  BY <1>1, <1>2, <1>3, <1>4, <1>5, <1>6, <1>7, <1>8, <1>9, <1>11, <1>12, <1>13,
     <1>14, <1>15, SameQueue
     DEF LocInv
<1>c. Handlers'
  BY <1>1, <1>2, <1>3, <1>4, <1>5, <1>6, <1>7, <1>8, <1>9, <1>11, <1>12, <1>13,
     <1>14, <1>15
     DEF LocInv, Handlers
<1>d. Running'
  <2> SUFFICES ASSUME NEW d \in CPUs, NEW u \in Threads, curthread'[d] = u
               PROVE  /\ u \in alive'
                      /\ hpc'[d] = "none" =>
                           \/ td_state'[u] = "RUNNING"
                           \/ td_state'[u] = "SEM_WAIT" /\ tpc'[u] = "wait_yield"
                           \/ td_state'[u] = "SLEEPING" /\ tpc'[u] = "sleep_yield"
                           \/ td_state'[u] = "YIELDING" /\ tpc'[u] = "yield"
                           \/ td_state'[u] = "TERMINATING" /\ tpc'[u] = "exit_yield"
                      /\ hpc'[d] # "none" => td_state'[u] \in {"RUNNING", "READY", "YIELDING"}
                      /\ u \in Preemptive => td_c_cpu'[u] = d
    BY DEF Running
  <2>1. CASE d = c
    BY <1>1, <1>2, <1>3, <1>4, <1>5, <1>6, <1>7, <1>8, <1>9, <1>11, <1>12, <1>13,
       <1>14, <1>15, <2>1
       DEF LocInv, Running
  <2>2. CASE d # c
    <3>1. u # t /\ curthread[d] = u  BY <1>7, <1>12, <2>2
    <3> QED  BY <1>1, <1>4, <1>5, <1>8, <1>11, <2>2, <3>1 DEF LocInv, Running
  <2> QED  BY <2>1, <2>2
<1>e. Ready'
  BY <1>1, <1>2, <1>3, <1>4, <1>5, <1>6, <1>7, <1>8, <1>9, <1>11, <1>12, <1>13,
     <1>14, <1>15
     DEF LocInv, Ready, InQueue, Waits
<1>f. Waiting'
  BY <1>1, <1>2, <1>3, <1>4, <1>5, <1>6, <1>7, <1>8, <1>9, <1>11, <1>12, <1>13,
     <1>14, <1>15
     DEF LocInv, Waiting, Waits, WaitLabels
<1>g. Claiming'
  <2>1. ASSUME NEW u \in Threads  PROVE ClaimOf(u)'
    BY <1>1, <1>2, <1>3, <1>4, <1>5, <1>6, <1>7, <1>8, <1>9, <1>11, <1>12, <1>13,
       <1>14, <1>15
       DEF LocInv, PlaceTypes, Claiming, ClaimOf, PostLabels, Interruptible
  <2>2. \A u, v \in Threads : target'[u] = target'[v] /\ target'[u] # NULL => u = v
    BY <1>1, <1>2, <1>3, <1>4, <1>5, <1>6, <1>7, <1>8, <1>9, <1>11, <1>12, <1>13,
       <1>14, <1>15
       DEF LocInv, PlaceTypes, Claiming, ClaimOf, PostLabels, Interruptible
  <2> QED  BY <2>1, <2>2 DEF Claiming
<1>h. Locking'
  BY <1>1, <1>2, <1>3, <1>4, <1>5, <1>6, <1>7, <1>8, <1>9, <1>11, <1>12, <1>13,
     <1>14, <1>15
     DEF LocInv, Locking, Interruptible
<1>i. Pending'
  <2>0. \A k, l \in callouts' : k.td = l.td => k = l
    BY <1>1, <1>2, <1>3, <1>4, <1>5, <1>6, <1>7, <1>8, <1>9, <1>11, <1>12, <1>13,
       <1>14, <1>15, CalloutFields
       DEF LocInv, Pending, OnlyOn
  <2>1. ASSUME NEW k \in callouts', k.kind = "quantum"  PROVE QuantumOf(k)'
    BY <1>1, <1>2, <1>3, <1>4, <1>5, <1>6, <1>7, <1>8, <1>9, <1>11, <1>12, <1>13,
       <1>14, <1>15, <2>1, CalloutFields
       DEF LocInv, Pending, QuantumOf, OnlyOn
  <2>2. ASSUME NEW k \in callouts', k.kind = "sem"  PROVE TimeoutOf(k)'
    BY <1>1, <1>2, <1>3, <1>4, <1>5, <1>6, <1>7, <1>8, <1>9, <1>11, <1>12, <1>13,
       <1>14, <1>15, <2>2, CalloutFields
       DEF LocInv, Pending, TimeoutOf, Timed, Waits, OnlyOn, Interruptible
  <2>3. ASSUME NEW k \in callouts', k.kind = "sleep"  PROVE SleepOf(k)'
    BY <1>1, <1>2, <1>3, <1>4, <1>5, <1>6, <1>7, <1>8, <1>9, <1>11, <1>12, <1>13,
       <1>14, <1>15, <2>3, CalloutFields
       DEF LocInv, Pending, SleepOf, Waits, OnlyOn
  <2>4. ASSUME NEW d \in CPUs, hpc'[d] = "sem_cb"  PROVE SemCbOf(d)'
    <3>1. PICK y \in Threads : /\ y = cbtd[d] /\ y = cbtd'[d] /\ Timed(y)
                               /\ td_c_cpu[y] = d /\ td_state[y] \in {"ACK", "SEM_UNLOCK"}
                               /\ \A k \in callouts : k.td # y
      BY <1>1, <1>2, <1>3, <1>4, <1>5, <1>6, <1>7, <1>8, <1>9, <1>11, <1>12, <1>13,
         <1>14, <1>15, <2>4
         DEF LocInv, PlaceTypes, Handlers, Pending, SemCbOf
    <3>2. Timed(y)'
      BY <1>1, <1>2, <1>3, <1>4, <1>5, <1>6, <1>7, <1>8, <1>9, <1>11, <1>12, <1>13,
         <1>14, <1>15, <3>1
         DEF LocInv, Timed, Waits, OnlyOn, Interruptible
    <3> QED
      BY <1>1, <1>2, <1>3, <1>4, <1>5, <1>6, <1>7, <1>8, <1>9, <1>11, <1>12, <1>13,
         <1>14, <1>15, <3>1, <3>2
         DEF SemCbOf, OnlyOn
  <2> QED  BY <1>1, <1>2, <1>3, <1>4, <1>5, <1>6, <1>7, <1>8, <1>9, <1>11, <1>12,
              <1>13, <1>14, <1>15, <2>0, <2>1, <2>2, <2>3, <2>4
              DEF Pending
<1>j. Located'
  <2>1. ASSUME NEW u \in alive'
        PROVE  (\E d \in CPUs : curthread'[d] = u) \/ InQueue(u)' \/ Parked(u)'
    <3>1. CASE u = t
      BY <1>1, <1>2, <1>3, <1>4, <1>5, <1>6, <1>7, <1>8, <1>9, <1>11, <1>12, <1>13,
         <1>14, <1>15, <3>1
         DEF LocInv, Parked, InQueue, Waits
    <3>2. CASE u # t
      <4>1. /\ u \in Threads /\ u \in AllThreads /\ u # NULL
            /\ \/ \E d \in CPUs : curthread[d] = u
               \/ InQueue(u) \/ Parked(u)
        BY <1>1, <1>2, <1>3, <1>4, <1>5, <1>6, <1>7, <1>8, <1>9, <1>11, <1>12,
           <1>13, <1>14, <1>15, <3>2
           DEF LocInv, PlaceTypes, Located
      <4>2. CASE \E v \in Threads : target[v] = u
        <5>1. PICK v \in Threads : target[v] = u  BY <4>2
        <5>2. target'[v] = u
          BY <1>1, <1>2, <1>3, <1>4, <1>5, <1>6, <1>7, <1>8, <1>9, <1>11, <1>12,
             <1>13, <1>14, <1>15, <3>2, <4>1, <5>1
        <5> QED  BY <5>2 DEF Parked
      <4> QED  BY <1>1, <1>2, <1>3, <1>4, <1>5, <1>6, <1>7, <1>8, <1>9, <1>11,
                  <1>12, <1>13, <1>14, <1>15, <3>2, <4>1, <4>2
            DEF Parked, InQueue, Waits
    <3> QED  BY <3>1, <3>2
  <2>2. ASSUME NEW u \in CPUs
        PROVE  InQueue(u)' \/ \E d \in CPUs : curthread'[d] = u
    BY <1>1, <1>2, <1>3, <1>4, <1>5, <1>6, <1>7, <1>8, <1>9, <1>11, <1>12, <1>13,
       <1>14, <1>15
       DEF LocInv, Located, Parked, InQueue, Waits
  <2>3. ASSUME NEW u \in Threads
        PROVE  /\ td_state'[u] \in {"SEM_WAIT", "SLEEPING"} => Parked(u)'
               /\ td_state'[u] = "SEM_WAIT" => \E d \in CPUs : curthread'[d] = u
    BY <1>1, <1>2, <1>3, <1>4, <1>5, <1>6, <1>7, <1>8, <1>9, <1>11, <1>12, <1>13,
       <1>14, <1>15
       DEF LocInv, Located, Parked, InQueue, Waits
  <2> QED  BY <2>1, <2>2, <2>3 DEF Located
<1>k. Ended'
  <2>1. ASSUME NEW u \in Threads, u # t
        PROVE  /\ u \notin alive' => tpc'[u] \in {"user", "exit_yield", "not_reached"}
               /\ timeout'[u] => usec'[u] = "timedwait" /\ tpc'[u] \in WaitLabels
    BY <1>1, <1>4, <1>8, <1>11, <2>1 DEF LocInv, Ended
  <2>2. ASSUME t \in Threads
        PROVE  /\ t \notin alive' => tpc'[t] \in {"user", "exit_yield", "not_reached"}
               /\ timeout'[t] => usec'[t] = "timedwait" /\ tpc'[t] \in WaitLabels
    <3>1. CASE td_state[t] = "TERMINATING"
      <4>1. tpc[t] = "exit_yield"
        BY <1>13, <2>2, <3>1
      <4>2. ~timeout[t]
        BY <2>2, <4>1 DEF LocInv, Ended, WaitLabels
      <4> QED  BY <1>4, <1>8, <4>1, <4>2
    <3>2. CASE td_state[t] # "TERMINATING"
      <4>1. t \in alive'  BY <1>7, <1>11, <2>2, <3>2
      <4>2. timeout[t] => usec[t] = "timedwait" /\ tpc[t] \in WaitLabels
        BY <2>2 DEF LocInv, Ended
      <4>3. tpc[t] \in WaitLabels => tpc'[t] \in WaitLabels
        BY <1>8 DEF WaitLabels
      <4> QED  BY <1>4, <4>1, <4>2, <4>3
    <3> QED  BY <3>1, <3>2
  <2> QED  BY <2>1, <2>2 DEF Ended
<1>l. Available'
  BY <1>1, <1>2, <1>3, <1>4, <1>5, <1>6, <1>7, <1>8, <1>9, <1>11, <1>12, <1>13,
     <1>14, <1>15
     DEF LocInv, Available, Idle
<1> QED  BY <1>a, <1>b, <1>c, <1>d, <1>e, <1>f, <1>g, <1>h, <1>i, <1>j, <1>k, <1>l
         DEF LocInv

\* The plain steps of thread code.
LEMMA PlainSteps ==
  ASSUME LocInv, NEW c \in CPUs, NEW t \in Threads,
         \/ wait_call(c, t) \/ wait_lock(c, t) \/ wait_return(c, t)
         \/ mutex_own(c, t) \/ mdx_sem_trywait(c, t) \/ post_call(c, t)
         \/ post_lock(c, t) /\ td_list = <<>>
  PROVE  LocInv'
<1>1. /\ usec \in [Threads -> Times] /\ timeout \in [Threads -> BOOLEAN]
  BY DEF LocInv, PlaceTypes
<1>2. ASSUME NEW l \in PlainLabels, At(c, t, l), l # "wait_ret"
      PROVE  ~timeout[t]
  BY <1>2 DEF LocInv, Ended, At, PlainLabels, WaitLabels
<1>3. CASE wait_call(c, t)
  <2>1. PICK u \in {"wait", "timedwait", "shortwait"} : usec' = [usec EXCEPT ![t] = u]
    BY <1>3 DEF wait_call
  <2>2. /\ usec' \in [Threads -> Times]
        /\ \A v \in Threads : v # t => usec'[v] = usec[v]
    BY <1>1, <2>1 DEF Times
  <2>3. UNCHANGED placeVars /\ timeout' = timeout /\ sem_lock' = sem_lock
    BY <1>3
       DEF wait_call, placeVars, schedVars, threadVars, cpuVars, calloutVars,
           semVars
  <2>4. At(c, t, "user") /\ Goto(t, "wait_lock") /\ "user" \in PlainLabels
    BY <1>3 DEF wait_call, PlainLabels
  <2> QED  BY <1>1, <1>2, <2>2, <2>3, <2>4, PlainStep
<1>4. CASE wait_lock(c, t)
  <2>1. /\ UNCHANGED placeVars /\ timeout' = timeout /\ usec' = usec
        /\ At(c, t, "wait_lock") /\ "wait_lock" \in PlainLabels
    BY <1>4 DEF wait_lock, placeVars, schedVars, threadVars, cpuVars, calloutVars,
                localVars, PlainLabels
  <2>2. ~timeout[t]  BY <1>2, <2>1
  <2>3. CASE sem_count > 0
    <3>1. \E m \in {"user", "own"} : Goto(t, m)
      BY <1>4, <2>3 DEF wait_lock, Acquired
    <3>2. sem_lock' = sem_lock  BY <1>4, <2>3 DEF wait_lock
    <3> QED  BY <1>1, <2>1, <2>2, <3>1, <3>2, PlainStep
  <2>4. CASE ~(sem_count > 0)
    <3>1. Goto(t, "wait_block") /\ sem_lock = NULL /\ sem_lock' = t
      BY <1>4, <2>4 DEF wait_lock
    <3> QED  BY <1>1, <2>1, <2>2, <3>1, PlainStep
  <2> QED  BY <2>3, <2>4
<1>5. CASE wait_return(c, t)
  <2>1. /\ UNCHANGED placeVars /\ sem_lock' = sem_lock
        /\ At(c, t, "wait_ret") /\ "wait_ret" \in PlainLabels
    BY <1>5 DEF wait_return, placeVars, schedVars, threadVars, cpuVars, calloutVars,
                semVars, PlainLabels
  <2>2. /\ usec' \in [Threads -> Times] /\ timeout' \in [Threads -> BOOLEAN]
        /\ ~timeout'[t]
        /\ \A u \in Threads : u # t => usec'[u] = usec[u] /\ timeout'[u] = timeout[u]
    BY <1>1, <1>5 DEF wait_return, Times
  <2>3. \E m \in {"user", "own"} : Goto(t, m)
    BY <1>5 DEF wait_return, Acquired
  <2> QED  BY <2>1, <2>2, <2>3, PlainStep
<1>6. CASE mutex_own(c, t)
  <2>1. /\ UNCHANGED placeVars /\ sem_lock' = sem_lock /\ timeout' = timeout /\ usec' = usec
        /\ At(c, t, "own") /\ "own" \in PlainLabels /\ Goto(t, "user")
    BY <1>6 DEF mutex_own, placeVars, schedVars, threadVars, cpuVars, calloutVars,
                semVars, localVars, PlainLabels
  <2> QED  BY <1>1, <1>2, <2>1, PlainStep
<1>7. CASE mdx_sem_trywait(c, t)
  <2>1. /\ UNCHANGED placeVars /\ sem_lock' = sem_lock /\ timeout' = timeout /\ usec' = usec
        /\ At(c, t, "user") /\ "user" \in PlainLabels
    BY <1>7
       DEF mdx_sem_trywait, placeVars, schedVars, threadVars, cpuVars, calloutVars,
                localVars, PlainLabels
  <2>2. \E m \in {"user", "own"} : Goto(t, m)
    BY <1>7 DEF mdx_sem_trywait, Acquired
  <2> QED  BY <1>1, <1>2, <2>1, <2>2, PlainStep
<1>8. CASE post_call(c, t)
  <2>1. /\ UNCHANGED placeVars /\ sem_lock' = sem_lock /\ timeout' = timeout /\ usec' = usec
        /\ At(c, t, "user") /\ "user" \in PlainLabels /\ Goto(t, "post_lock")
    BY <1>8 DEF post_call, placeVars, schedVars, threadVars, cpuVars, calloutVars,
                semVars, localVars, PlainLabels
  <2> QED  BY <1>1, <1>2, <2>1, PlainStep
<1>9. CASE post_lock(c, t) /\ td_list = <<>>
  <2>1. /\ UNCHANGED placeVars /\ sem_lock' = sem_lock /\ timeout' = timeout /\ usec' = usec
        /\ At(c, t, "post_lock") /\ "post_lock" \in PlainLabels /\ Goto(t, "user")
    BY <1>9
       DEF post_lock, placeVars, schedVars, threadVars, cpuVars, calloutVars,
           PlainLabels
  <2> QED  BY <1>1, <1>2, <2>1, PlainStep
<1> QED  BY <1>3, <1>4, <1>5, <1>6, <1>7, <1>8, <1>9

\* A step that changes nothing of the places.
LEMMA LocSame ==
  ASSUME LocInv, UNCHANGED placeVars,
         UNCHANGED <<tpc, sem_lock, usec, timeout>>
  PROVE  LocInv'
<1>1. /\ UNCHANGED placeVars /\ tpc' = tpc /\ sem_lock' = sem_lock
      /\ usec' = usec /\ timeout' = timeout
  OBVIOUS
<1>2. PlaceTypes' /\ RunQueue' /\ Handlers' /\ Running'
  BY <1>1 DEF LocInv, placeVars, PlaceTypes, RunQueue, Handlers, Running
<1>3. Ready' /\ Waiting' /\ Claiming' /\ Locking'
  BY <1>1
     DEF LocInv, placeVars, Ready, Waiting, Claiming, ClaimOf, Locking, InQueue,
         Waits
<1>4. Pending'
  BY <1>1
     DEF LocInv, placeVars, Pending, QuantumOf, TimeoutOf, SleepOf, SemCbOf, Timed,
         Waits
<1>5. Located' /\ Ended' /\ Available'
  BY <1>1 DEF LocInv, placeVars, Located, Parked, Ended, Available, InQueue, Waits
<1> QED  BY <1>2, <1>3, <1>4, <1>5 DEF LocInv

\* A step that changes nothing.
LEMMA LocStutter ==
  ASSUME LocInv, UNCHANGED vars
  PROVE  LocInv'
<1>1. UNCHANGED placeVars /\ UNCHANGED <<tpc, sem_lock, usec, timeout>>
  BY DEF vars, placeVars, schedVars, threadVars, cpuVars, calloutVars, semVars, localVars
<1> QED  BY <1>1, LocSame

\* Every step but mdx_thread_yield keeps the threads where they belong.
LEMMA LocStep ==
  ASSUME LocInv, NEW c \in CPUs,
         \/ \E why \in {"ecall", "timer", "ipi"} : exception(c, why)
         \/ HandlerStep(c)
         \/ \E t \in Threads :
              \/ OpStep(c, t) \/ wait_call(c, t) \/ mdx_sem_trywait(c, t) \/ post_call(c, t)
              \/ mdx_tsleep(c, t) \/ mdx_thread_terminate(c, t)
              \/ \E n \in Threads : mdx_thread_create(c, t, n)
  PROVE  LocInv'
<1>1. ASSUME NEW why \in {"ecall", "timer", "ipi"}, exception(c, why)
      PROVE  LocInv'
  BY <1>1, ExceptionStep
<1>2. CASE HandlerStep(c)
  <2>0. CASE switch_intr_thread(c)
    <3>1. UNCHANGED placeVars /\ UNCHANGED <<tpc, sem_lock, usec, timeout>>
      BY <2>0
         DEF switch_intr_thread, placeVars, schedVars, threadVars, calloutVars, semVars,
             localVars
    <3> QED  BY <3>1, LocSame
  <2>1. CASE mdx_sem_cb(c)
    BY <2>1, SemCbAckStep, SemCbWakeStep
  <2>2. CASE mdx_sched_park(c)
    BY <2>2, ParkNullStep, ParkKeepStep, ParkAddStep
  <2>3. CASE mdx_sched_next(c)
    BY <2>3, NextStep
  <2>4. ASSUME NEW k \in callouts, callout_fire(c, k)
        PROVE  LocInv'
    <3>1. k.kind \in {"quantum", "sem", "sleep"}
      BY CalloutFields DEF LocInv
    <3> QED  BY <2>4, <3>1, FireQuantumStep, FireSleepStep, FireSemStep
  <2> QED  BY <1>2, <2>0, <2>1, <2>2, <2>3, <2>4 DEF HandlerStep
<1>3. ASSUME NEW t \in Threads, OpStep(c, t)
      PROVE  LocInv'
  BY <1>3, PlainSteps, WaitBlockStep, PostPopStep, PostSpinStep, PostCancelStep,
     PostAddStep DEF OpStep
<1>4. ASSUME NEW t \in Threads,
             \/ wait_call(c, t) \/ mdx_sem_trywait(c, t) \/ post_call(c, t)
             \/ mdx_tsleep(c, t) \/ mdx_thread_terminate(c, t)
             \/ \E n \in Threads : mdx_thread_create(c, t, n)
      PROVE  LocInv'
  BY <1>4, PlainSteps, SleepStep, TerminateStep, CreateStep
<1> QED  BY <1>1, <1>2, <1>3, <1>4

\* So does that of a cooperative thread.
LEMMA LocNext ==
  ASSUME "yield_any" \notin Ops, LocInv, [Next]_vars
  PROVE  LocInv'
<1>1. CASE UNCHANGED vars
  BY <1>1, LocStutter
<1>2. ASSUME NEW c \in CPUs, NEW t \in Threads, mdx_thread_yield(c, t)
      PROVE  LocInv'
  BY <1>2, YieldStep
<1>3. CASE Next
  BY <1>2, <1>3, LocStep DEF Next, CallStep
<1> QED  BY <1>1, <1>3

\* It is so when the scheduler starts.
LEMMA LocInit ==
  ASSUME Init
  PROVE  LocInv
<1>1. /\ runq = [p \in 0 .. NPrio - 1 |-> IF p = Prio[Main] THEN <<Main>> ELSE <<>>]
      /\ td_state = [t \in AllThreads |-> "READY"] /\ alive = {Main}
      /\ curthread = [c \in CPUs |-> c] /\ hpc = [c \in CPUs |-> "none"]
      /\ cbtd = [c \in CPUs |-> NULL] /\ callouts = {} /\ armed = {}
      /\ td_c_cpu = [t \in Threads |-> BootCPU]
      /\ tpc = [t \in AllThreads |-> IF Idle(t) THEN "boot" ELSE "user"]
      /\ td_list = <<>> /\ sem_lock = NULL
      /\ usec = [t \in Threads |-> "none"] /\ timeout = [t \in Threads |-> FALSE]
      /\ target = [t \in Threads |-> NULL]
  BY DEF Init
<1>2. /\ Main \in Threads /\ Main \in AllThreads /\ Main \notin CPUs
      /\ PrioOf(Main) = Prio[Main] /\ Prio[Main] \in 1 .. NPrio - 1
      /\ BootCPU \in CPUs /\ NPrio \in Nat
  BY Kinds, SchedAssumption DEF PrioOf, Idle
<1>3. /\ \A t \in Threads : /\ t \in AllThreads /\ td_state[t] = "READY" /\ tpc[t] = "user"
                            /\ td_c_cpu[t] = BootCPU /\ usec[t] = "none"
                            /\ timeout[t] = FALSE /\ target[t] = NULL
      /\ \A c \in CPUs : /\ c \in AllThreads /\ td_state[c] = "READY" /\ tpc[c] = "boot"
                         /\ curthread[c] = c /\ hpc[c] = "none" /\ cbtd[c] = NULL
  BY <1>1, Kinds DEF Idle
<1>4. /\ pcpu_list \in Seq(CPUs) /\ Once(pcpu_list)
      /\ pending_ipis \subseteq CPUs
  <2> DEFINE D == 1 .. Cardinality(CPUs \ {BootCPU})
  <2>1. Cardinality(CPUs \ {BootCPU}) \in Nat
    BY SchedAssumption, FS_CardinalityType, FS_RemoveElement
  <2>2. /\ pcpu_list \in [D -> CPUs \ {BootCPU}]
        /\ \A i, j \in D : i # j => pcpu_list[i] # pcpu_list[j]
    BY DEF Init, SetToSeqs
  <2>3. pcpu_list \in Seq(CPUs) /\ Len(pcpu_list) = Cardinality(CPUs \ {BootCPU})
    <3>1. PICK n \in Nat : n = Cardinality(CPUs \ {BootCPU})  BY <2>1
    <3>2. pcpu_list \in [1 .. n -> CPUs]  BY <2>2, <3>1
    <3>3. pcpu_list \in Seq(CPUs)  BY <3>2, SeqDef
    <3>4. DOMAIN pcpu_list = 1 .. n  BY <3>2
    <3>5. Len(pcpu_list) = n  BY <3>3, <3>4
    <3> QED  BY <3>1, <3>3, <3>5
  <2>4. Once(pcpu_list)
    BY <2>2, <2>3 DEF Once
  <2>5. pending_ipis = {} \/ \E i \in DOMAIN pcpu_list : pending_ipis = {pcpu_list[1]}
    BY DEF Init
  <2>6. ASSUME NEW i \in DOMAIN pcpu_list  PROVE pcpu_list[1] \in CPUs
    <3>1. i \in 1 .. Len(pcpu_list) /\ Len(pcpu_list) \in Nat  BY <2>3, <2>6
    <3>2. 1 \in 1 .. Len(pcpu_list)  BY <3>1
    <3> QED  BY <2>3, <3>2
  <2> QED  BY <2>3, <2>4, <2>5, <2>6
<1>5. /\ <<Main>> \in Seq(AllThreads) /\ <<>> \in Seq(AllThreads)
      /\ Once(<<Main>>) /\ Once(<<>>)
      /\ \A t : On(<<Main>>, t) <=> t = Main
      /\ \A t : ~On(<<>>, t)
  BY <1>2, EmptyList DEF On, Once
<1>6. \A p \in 0 .. NPrio - 1 : runq[p] = IF p = Prio[Main] THEN <<Main>> ELSE <<>>
  BY <1>1
<1>7. \A t \in AllThreads : InQueue(t) <=> t = Main
  BY <1>2, <1>5, <1>6, PrioRange DEF InQueue
<1>a. PlaceTypes
  BY <1>1, <1>2, <1>3, <1>4, <1>5, Kinds
     DEF PlaceTypes, HandlerLabels, ThreadLabels, Times, States, CalloutTypes
<1>b. RunQueue
  BY <1>1, <1>2, <1>5, <1>6 DEF RunQueue
<1>c. Handlers
  BY <1>3, Kinds DEF Handlers
<1>d. Running
  BY <1>3, Kinds DEF Running
<1>e. Ready
  BY <1>1, <1>2, <1>3, <1>5, <1>7, Kinds DEF Ready, Waits
<1>f. Waiting
  BY <1>1, <1>5 DEF Waiting, Waits
<1>g. Claiming
  BY <1>3 DEF Claiming, ClaimOf, PostLabels
<1>h. Locking
  BY <1>1, <1>3, Kinds DEF Locking, Interruptible
<1>i. Pending
  BY <1>1, <1>3 DEF Pending
<1>j. Located
  <2>1. \A t \in alive : InQueue(t)  BY <1>1, <1>2, <1>7
  <2>2. \A c \in CPUs : curthread[c] = c  BY <1>3
  <2> QED  BY <1>3, <2>1, <2>2 DEF Located
<1>k. Ended
  BY <1>3 DEF Ended
<1>l. Available
  BY <1>3, <1>4 DEF Available, Idle
<1> QED  BY <1>a, <1>b, <1>c, <1>d, <1>e, <1>f, <1>g, <1>h, <1>i, <1>j, <1>k, <1>l
         DEF LocInv

-----------------------------------------------------------------------------
(***************************************************************************)
(* Permits.                                                                *)
(***************************************************************************)

\* Once on a list is one occurrence.
LEMMA OccurrencesOnce ==
  ASSUME NEW S, NEW s \in Seq(S), Once(s), NEW e
  PROVE  Occurrences(s, e) = IF On(s, e) THEN 1 ELSE 0
BY PlacesOnce DEF Occurrences

\* t has been handed a permit.
HandedTo(t) == tpc[t] \in WaitLabels /\ ~timeout[t] /\ ~Waits(t)

\* Handed and Giving, in this state and the next.
LEMMA HandedSet ==
  ASSUME LocInv
  PROVE  /\ Handed = {t \in Threads : HandedTo(t)}
         /\ IsFiniteSet(Handed) /\ Cardinality(Handed) \in Nat
         /\ IsFiniteSet(Giving) /\ Cardinality(Giving) \in Nat
<1>1. \A t \in Threads : Occurrences(td_list, t) = IF Waits(t) THEN 1 ELSE 0
  BY OccurrencesOnce DEF LocInv, PlaceTypes, Waiting, Waits
<1>2. Handed = {t \in Threads : HandedTo(t)}
  BY <1>1 DEF Handed, HandedTo, WaitLabels
<1>3. Handed \in SUBSET Threads /\ Giving \in SUBSET Threads
  BY DEF Handed, Giving
<1>4. IsFiniteSet(Handed) /\ IsFiniteSet(Giving)
  BY <1>3, SchedAssumption, FS_Subset
<1> QED  BY <1>2, <1>4, FS_CardinalityType

LEMMA HandedSetNext ==
  ASSUME LocInv'
  PROVE  /\ Handed' = {t \in Threads : HandedTo(t)'}
         /\ IsFiniteSet(Handed') /\ Cardinality(Handed') \in Nat
         /\ IsFiniteSet(Giving') /\ Cardinality(Giving') \in Nat
<1>1. \A t \in Threads : Occurrences(td_list', t) = IF On(td_list', t) THEN 1 ELSE 0
  BY OccurrencesOnce DEF LocInv, PlaceTypes, Waiting
<1>2. Handed' = {t \in Threads : HandedTo(t)'}
  BY <1>1 DEF Handed, HandedTo, WaitLabels, Waits
<1>3. Handed' \in SUBSET Threads /\ Giving' \in SUBSET Threads
  BY DEF Handed, Giving
<1>4. IsFiniteSet(Handed') /\ IsFiniteSet(Giving')
  BY <1>3, SchedAssumption, FS_Subset
<1> QED  BY <1>2, <1>4, FS_CardinalityType

\* There are finitely many permits in the hands of threads, at least as many
\* as one thread holds, and two if two threads hold one.
LEMMA HeldCount ==
  ASSUME Numbers
  PROVE  /\ IsFiniteSet(HeldPermits) /\ Cardinality(HeldPermits) \in Nat
         /\ \A t \in Threads : holding[t] <= Cardinality(HeldPermits)
         /\ \A t, u \in Threads : t # u /\ holding[t] > 0 /\ holding[u] > 0 =>
              Cardinality(HeldPermits) >= 2
<1>0. MaxIssued \in Nat /\ IsFiniteSet(Threads)
  BY SchedAssumption
<1>1. IsFiniteSet(Threads \X (1 .. MaxIssued))
  <2>1. IsFiniteSet(1 .. MaxIssued)  BY <1>0, FS_Interval
  <2> QED  BY <1>0, <2>1, FS_Product
<1>2. IsFiniteSet(HeldPermits) /\ Cardinality(HeldPermits) \in Nat
  <2>1. HeldPermits \in SUBSET (Threads \X (1 .. MaxIssued))  BY DEF HeldPermits
  <2> QED  BY <1>1, <2>1, FS_Subset, FS_CardinalityType
<1>3. ASSUME NEW t \in Threads
      PROVE  holding[t] <= Cardinality(HeldPermits)
  <2>1. PICK n \in 0 .. MaxIssued : n = holding[t]  BY DEF Numbers
  <2> DEFINE f == [i \in 1 .. n |-> <<t, i>>]
  <2>2. ASSUME NEW i \in 1 .. n  PROVE <<t, i>> \in HeldPermits
    BY <1>0, <2>1 DEF HeldPermits
  <2>3. f \in Injection(1 .. n, HeldPermits)
    <3>1. f \in [1 .. n -> HeldPermits]  BY <2>2
    <3>2. \A i, j \in 1 .. n : f[i] = f[j] => i = j  OBVIOUS
    <3> QED  BY <3>1, <3>2 DEF Injection, IsInjective
  <2> HIDE DEF f
  <2>4. Cardinality(1 .. n) <= Cardinality(HeldPermits)
    BY <1>2, <2>3, FS_Injection
  <2>5. Cardinality(1 .. n) = n
    BY <1>0, FS_Interval
  <2> QED  BY <2>1, <2>4, <2>5
<1>4. ASSUME NEW t \in Threads, NEW u \in Threads, t # u, holding[t] > 0, holding[u] > 0
      PROVE  Cardinality(HeldPermits) >= 2
  <2>1. holding[t] \in 0 .. MaxIssued /\ holding[u] \in 0 .. MaxIssued  BY DEF Numbers
  <2>2. <<t, 1>> \in HeldPermits /\ <<u, 1>> \in HeldPermits /\ <<t, 1>> # <<u, 1>>
    BY <1>0, <1>4, <2>1 DEF HeldPermits
  <2>3. PICK a, b \in HeldPermits : a # b
    BY <2>2
  <2>4. IsFiniteSet({a}) /\ Cardinality({a}) = 1 /\ b \notin {a}
    BY <2>3, FS_Singleton
  <2>5. Cardinality({a} \cup {b}) = 2
    BY <2>4, FS_AddElement
  <2>6. Cardinality({a} \cup {b}) <= Cardinality(HeldPermits)
    <3>1. {a} \cup {b} \in SUBSET HeldPermits  OBVIOUS
    <3> QED  BY <1>2, <3>1, FS_Subset
  <2> QED  BY <1>2, <2>5, <2>6
<1> QED  BY <1>2, <1>3, <1>4

\* One more permit in the hands of t.
LEMMA HeldMore ==
  ASSUME Numbers, NEW t \in Threads, holding[t] < MaxIssued,
         holding' = [holding EXCEPT ![t] = @ + 1]
  PROVE  /\ holding' \in [Threads -> 0 .. MaxIssued]
         /\ holding'[t] = holding[t] + 1
         /\ \A u \in Threads : u # t => holding'[u] = holding[u]
         /\ Cardinality(HeldPermits') = Cardinality(HeldPermits) + 1
<1>0. MaxIssued \in Nat /\ holding \in [Threads -> 0 .. MaxIssued]
  BY SchedAssumption DEF Numbers
<1>1. /\ holding' \in [Threads -> 0 .. MaxIssued]
      /\ holding'[t] = holding[t] + 1
      /\ \A u \in Threads : u # t => holding'[u] = holding[u]
  BY <1>0
<1> DEFINE n == holding[t] + 1
<1>2. n \in 1 .. MaxIssued
  BY <1>0
<1>3. <<t, n>> \notin HeldPermits
  BY <1>0 DEF HeldPermits
<1>4. HeldPermits' = HeldPermits \cup {<<t, n>>}
  <2>1. ASSUME NEW u \in Threads, NEW i \in 1 .. MaxIssued
        PROVE  i <= holding'[u] <=> i <= holding[u] \/ (u = t /\ i = n)
    BY <1>0, <1>1
  <2> QED  BY <1>2, <2>1 DEF HeldPermits
<1>5. Cardinality(HeldPermits \cup {<<t, n>>}) = Cardinality(HeldPermits) + 1
  BY <1>3, HeldCount, FS_AddElement
<1> QED  BY <1>1, <1>4, <1>5

\* One permit less.
LEMMA HeldLess ==
  ASSUME Numbers, NEW t \in Threads, holding[t] > 0,
         holding' = [holding EXCEPT ![t] = @ - 1]
  PROVE  /\ holding' \in [Threads -> 0 .. MaxIssued]
         /\ holding'[t] = holding[t] - 1
         /\ \A u \in Threads : u # t => holding'[u] = holding[u]
         /\ Cardinality(HeldPermits') = Cardinality(HeldPermits) - 1
<1>0. MaxIssued \in Nat /\ holding \in [Threads -> 0 .. MaxIssued]
  BY SchedAssumption DEF Numbers
<1>1. /\ holding' \in [Threads -> 0 .. MaxIssued]
      /\ holding'[t] = holding[t] - 1
      /\ \A u \in Threads : u # t => holding'[u] = holding[u]
  BY <1>0
<1> DEFINE n == holding[t]
<1>2. n \in 1 .. MaxIssued
  BY <1>0
<1>3. <<t, n>> \in HeldPermits
  BY <1>2 DEF HeldPermits
<1>4. HeldPermits' = HeldPermits \ {<<t, n>>}
  <2>1. ASSUME NEW u \in Threads, NEW i \in 1 .. MaxIssued
        PROVE  i <= holding'[u] <=> i <= holding[u] /\ ~(u = t /\ i = n)
    BY <1>0, <1>1
  <2> QED  BY <1>2, <2>1 DEF HeldPermits
<1>5. Cardinality(HeldPermits \ {<<t, n>>}) = Cardinality(HeldPermits) - 1
  BY <1>3, HeldCount, FS_RemoveElement
<1> QED  BY <1>1, <1>4, <1>5

\* A step that moves no permit and no thread in or out of the places that count.
SamePermits ==
  /\ sem_count' = sem_count /\ m_td' = m_td /\ holding' = holding /\ issued' = issued
  /\ \A u \in Threads :
       /\ /\ tpc'[u] \in WaitLabels /\ ~timeout'[u] /\ ~On(td_list', u)
          <=> /\ tpc[u] \in WaitLabels /\ ~timeout[u] /\ ~On(td_list, u)
       /\ tpc'[u] = "post_lock" <=> tpc[u] = "post_lock"
       /\ tpc'[u] = "own" <=> tpc[u] = "own"

LEMMA SameStep ==
  ASSUME LocInv, LocInv', PermitInv, SamePermits
  PROVE  PermitInv' /\ Permits' = Permits /\ Holders' = Holders
<1>1. Handed' = Handed
  BY HandedSet, HandedSetNext DEF SamePermits, HandedTo, Waits
<1>2. Giving' = Giving
  BY DEF SamePermits, Giving
<1>3. HeldPermits' = HeldPermits /\ Holders' = Holders
  BY DEF SamePermits, HeldPermits, Holders
<1>4. Permits' = Permits
  BY <1>1, <1>2 DEF SamePermits, Permits
<1>5. PermitsConserved'
  BY <1>3, <1>4 DEF SamePermits, PermitInv, PermitsConserved
<1>6. Numbers' /\ Owning'
  BY DEF SamePermits, PermitInv, Numbers, Owning
<1> QED  BY <1>3, <1>4, <1>5, <1>6 DEF PermitInv

\* What the sum says of its parts.
LEMMA Bounds ==
  ASSUME LocInv, PermitInv
  PROVE  /\ Cardinality(HeldPermits) \in Nat /\ Cardinality(Handed) \in Nat
         /\ Cardinality(Giving) \in Nat /\ sem_count \in Nat
         /\ issued \in Nat /\ issued <= MaxIssued /\ MaxIssued \in Nat
         /\ Permits \in Nat
         /\ Permits = sem_count + Cardinality(Handed) + Cardinality(Giving)
         /\ Permits + Cardinality(HeldPermits) = issued
         /\ \A t \in Threads :
              holding[t] \in Nat /\ holding[t] <= Cardinality(HeldPermits)
<1>1. Cardinality(Handed) \in Nat /\ Cardinality(Giving) \in Nat
  BY HandedSet
<1>2. /\ Cardinality(HeldPermits) \in Nat
      /\ \A t \in Threads : holding[t] <= Cardinality(HeldPermits)
  BY HeldCount DEF PermitInv
<1>3. /\ sem_count \in Nat /\ issued \in Nat /\ issued <= MaxIssued /\ MaxIssued \in Nat
      /\ \A t \in Threads : holding[t] \in Nat
  BY SchedAssumption DEF PermitInv, Numbers
<1> QED  BY <1>1, <1>2, <1>3 DEF PermitInv, PermitsConserved, Permits

\* A wait that finds a permit in the count takes it.
LEMMA TakeStep ==
  ASSUME LocInv, LocInv', PermitInv, NEW c \in CPUs, NEW t \in Threads,
         NEW l \in {"user", "wait_lock"}, At(c, t, l),
         sem_count > 0, sem_count' = sem_count - 1, Acquired(t),
         UNCHANGED <<td_list, localVars, m_td, issued>>
  PROVE  /\ PermitInv' /\ Permits' = Permits - 1 /\ Permits > 0
         /\ Holders' = Holders \cup {t} /\ Waiters' = Waiters \ {t}
<1>1. /\ tpc[t] = l /\ tpc'[t] = IF Mutex THEN "own" ELSE "user"
      /\ \A u \in Threads : u # t => tpc'[u] = tpc[u]
  BY Kinds DEF At, Acquired, Goto, LocInv, PlaceTypes
<1>2. td_list' = td_list /\ timeout' = timeout /\ m_td' = m_td /\ issued' = issued
  BY DEF localVars
<1>3. Handed' = Handed
  BY <1>1, <1>2, HandedSet, HandedSetNext DEF HandedTo, Waits, WaitLabels
<1>4. Giving' = Giving
  BY <1>1 DEF Giving
<1>5. holding[t] < MaxIssued /\ Permits > 0
  BY Bounds
<1>6. /\ holding' \in [Threads -> 0 .. MaxIssued]
      /\ holding'[t] = holding[t] + 1
      /\ \A u \in Threads : u # t => holding'[u] = holding[u]
      /\ Cardinality(HeldPermits') = Cardinality(HeldPermits) + 1
  BY <1>5, HeldMore DEF PermitInv, Acquired
<1>7. Permits' = Permits - 1
  BY <1>3, <1>4, Bounds DEF Permits
<1>8. PermitsConserved'
  BY <1>2, <1>6, <1>7, Bounds DEF PermitsConserved
<1>9. Numbers'
  BY <1>2, <1>6, Bounds DEF PermitInv, Numbers
<1>10. Owning'
  BY <1>1, <1>2, <1>6, Bounds DEF PermitInv, Owning
<1>11. Holders' = Holders \cup {t}
  BY <1>6, Bounds DEF Holders
<1>12. Waiters' = Waiters \ {t}
  BY <1>1 DEF Waiters
<1> QED  BY <1>5, <1>7, <1>8, <1>9, <1>10, <1>11, <1>12 DEF PermitInv

\* A wait that has not timed out takes the permit that was handed over.
LEMMA ReceiveStep ==
  ASSUME LocInv, LocInv', PermitInv, NEW c \in CPUs, NEW t \in Threads,
         wait_return(c, t), ~(usec[t] # "wait" /\ timeout[t])
  PROVE  /\ PermitInv' /\ Permits' = Permits - 1 /\ Permits > 0
         /\ Holders' = Holders \cup {t} /\ Waiters' = Waiters \ {t}
<1>0. Acquired(t) /\ At(c, t, "wait_ret")
  BY DEF wait_return
<1>1. /\ tpc[t] = "wait_ret" /\ tpc'[t] = IF Mutex THEN "own" ELSE "user"
      /\ \A u \in Threads : u # t => tpc'[u] = tpc[u]
  BY <1>0, Kinds DEF At, Acquired, Goto, LocInv, PlaceTypes
<1>2. /\ td_list' = td_list /\ m_td' = m_td /\ issued' = issued /\ sem_count' = sem_count
      /\ \A u \in Threads : u # t => timeout'[u] = timeout[u]
  BY DEF wait_return, semVars, LocInv, PlaceTypes
<1>3. HandedTo(t)
  <2>1. ~Waits(t)  BY <1>0, AtRunning DEF OnlyOn
  <2>2. ~timeout[t]  BY DEF LocInv, Ended
  <2> QED  BY <1>1, <2>1, <2>2 DEF HandedTo, WaitLabels
<1>4. Handed' = Handed \ {t} /\ t \in Handed
  BY <1>1, <1>2, <1>3, HandedSet, HandedSetNext DEF HandedTo, Waits, WaitLabels
<1>5. Cardinality(Handed') = Cardinality(Handed) - 1
  BY <1>4, HandedSet, FS_RemoveElement
<1>6. Giving' = Giving
  BY <1>1 DEF Giving
<1>7. Cardinality(Handed) > 0
  BY <1>5, HandedSet, HandedSetNext
<1>8. holding[t] < MaxIssued /\ Permits > 0
  BY <1>7, Bounds
<1>9. /\ holding' \in [Threads -> 0 .. MaxIssued]
      /\ holding'[t] = holding[t] + 1
      /\ \A u \in Threads : u # t => holding'[u] = holding[u]
      /\ Cardinality(HeldPermits') = Cardinality(HeldPermits) + 1
  BY <1>0, <1>8, HeldMore DEF PermitInv, Acquired
<1>10. Permits' = Permits - 1
  BY <1>2, <1>5, <1>6, Bounds DEF Permits
<1>11. PermitsConserved'
  BY <1>2, <1>9, <1>10, Bounds DEF PermitsConserved
<1>12. Numbers'
  BY <1>2, <1>9 DEF PermitInv, Numbers
<1>13. Owning'
  BY <1>1, <1>2, <1>9, Bounds DEF PermitInv, Owning
<1>14. Holders' = Holders \cup {t}
  BY <1>9, Bounds DEF Holders
<1>15. Waiters' = Waiters \ {t}
  BY <1>1 DEF Waiters
<1> QED  BY <1>8, <1>10, <1>11, <1>12, <1>13, <1>14, <1>15 DEF PermitInv

\* mdx_sem_post begins.
LEMMA GiveStep ==
  ASSUME LocInv, LocInv', PermitInv, NEW c \in CPUs, NEW t \in Threads,
         post_call(c, t)
  PROVE  /\ PermitInv' /\ Permits' = Permits + 1 /\ Waiters' = Waiters
         /\ Holders' = Holders \/ (t \in Holders /\ Holders' = Holders \ {t})
<1>1. /\ tpc[t] = "user" /\ tpc'[t] = "post_lock"
      /\ \A u \in Threads : u # t => tpc'[u] = tpc[u]
  BY Kinds DEF post_call, At, Goto, LocInv, PlaceTypes
<1>2. td_list' = td_list /\ m_td' = m_td /\ sem_count' = sem_count /\ timeout' = timeout
  BY DEF post_call, semVars, localVars
<1>3. Handed' = Handed
  BY <1>1, <1>2, HandedSet, HandedSetNext DEF HandedTo, Waits, WaitLabels
<1>4. Giving' = Giving \cup {t} /\ t \notin Giving
  BY <1>1 DEF Giving
<1>5. Cardinality(Giving') = Cardinality(Giving) + 1
  BY <1>4, HandedSet, FS_AddElement
<1>6. Permits' = Permits + 1
  BY <1>2, <1>3, <1>5, Bounds DEF Permits
<1>7. Waiters' = Waiters
  BY <1>1 DEF Waiters
<1>8. CASE holding[t] > 0
  <2>1. holding' = [holding EXCEPT ![t] = @ - 1] /\ issued' = issued
    BY <1>8 DEF post_call, Released
  <2>2. /\ holding' \in [Threads -> 0 .. MaxIssued]
        /\ holding'[t] = holding[t] - 1
        /\ \A u \in Threads : u # t => holding'[u] = holding[u]
        /\ Cardinality(HeldPermits') = Cardinality(HeldPermits) - 1
    BY <1>8, <2>1, HeldLess DEF PermitInv
  <2>3. PermitsConserved'
    BY <1>6, <2>1, <2>2, Bounds DEF PermitsConserved
  <2>4. Numbers'
    BY <1>2, <2>1, <2>2 DEF PermitInv, Numbers
  <2>5. Mutex => holding[t] = 1
    BY <1>8, Bounds DEF PermitInv, Owning
  <2>6. Owning'
    BY <1>1, <1>2, <2>1, <2>2, <2>5, Bounds DEF PermitInv, Owning
  <2>7. Holders' = Holders \/ (t \in Holders /\ Holders' = Holders \ {t})
    BY <1>8, <2>2, Bounds DEF Holders
  <2> QED  BY <1>6, <1>7, <2>3, <2>4, <2>6, <2>7 DEF PermitInv
<1>9. CASE ~(holding[t] > 0)
  <2>1. /\ holding' = holding /\ issued' = issued + 1
        /\ ~Mutex /\ issued < MaxIssued
    BY <1>9 DEF post_call, Released
  <2>2. HeldPermits' = HeldPermits /\ Holders' = Holders
    BY <2>1 DEF HeldPermits, Holders
  <2>3. PermitsConserved'
    BY <1>6, <2>1, <2>2, Bounds DEF PermitsConserved
  <2>4. Numbers'
    <3>1. InitCount \in Nat /\ MaxIssued \in Nat  BY SchedAssumption
    <3> QED  BY <1>2, <2>1, <3>1 DEF PermitInv, Numbers
  <2>5. Owning'
    BY <1>1, <2>1 DEF PermitInv, Owning
  <2> QED  BY <1>6, <1>7, <2>2, <2>3, <2>4, <2>5 DEF PermitInv
<1> QED  BY <1>8, <1>9

\* mdx_sem_post puts the permit into the count, or hands it over.
LEMMA DepositStep ==
  ASSUME LocInv, LocInv', PermitInv, NEW c \in CPUs, NEW t \in Threads,
         post_lock(c, t)
  PROVE  PermitInv' /\ Permits' = Permits /\ Holders' = Holders /\ Waiters' = Waiters
<1>1. /\ tpc[t] = "post_lock" /\ tpc'[t] \in {"user", "post_spin"}
      /\ \A u \in Threads : u # t => tpc'[u] = tpc[u]
  BY Kinds DEF post_lock, At, Goto, LocInv, PlaceTypes
<1>2. m_td' = m_td /\ holding' = holding /\ issued' = issued /\ timeout' = timeout
  BY DEF post_lock, permitVars
<1>3. Giving' = Giving \ {t} /\ t \in Giving
  BY <1>1 DEF Giving
<1>4. Cardinality(Giving') = Cardinality(Giving) - 1
  BY <1>3, HandedSet, FS_RemoveElement
<1>5. Waiters' = Waiters /\ Holders' = Holders /\ HeldPermits' = HeldPermits
  BY <1>1, <1>2 DEF Waiters, Holders, HeldPermits
<1>6. Owning'
  BY <1>1, <1>2 DEF PermitInv, Owning
<1>7. CASE td_list = <<>>
  <2>1. sem_count' = sem_count + 1 /\ td_list' = td_list
    BY <1>7 DEF post_lock
  <2>2. Handed' = Handed
    BY <1>1, <1>2, <2>1, HandedSet, HandedSetNext DEF HandedTo, Waits, WaitLabels
  <2>3. Permits' = Permits
    BY <1>4, <2>1, <2>2, Bounds DEF Permits
  <2>4. PermitsConserved'
    BY <1>2, <1>5, <2>3 DEF PermitInv, PermitsConserved
  <2>5. sem_count' <= MaxIssued
    BY <1>4, <2>1, Bounds, HandedSetNext
  <2>6. Numbers'
    BY <1>2, <2>1, <2>5, Bounds DEF PermitInv, Numbers
  <2> QED  BY <1>5, <1>6, <2>3, <2>4, <2>6 DEF PermitInv
<1>8. CASE td_list # <<>>
  <2>1. sem_count' = sem_count /\ td_list' = Tail(td_list)
    BY <1>8 DEF post_lock
  <2>2. td_list \in Seq(Threads) /\ Once(td_list)
    BY DEF LocInv, PlaceTypes, Waiting
  <2>3. PICK h \in Threads :
             /\ On(td_list, h) /\ ~On(td_list', h)
             /\ \A u \in Threads : u # h => (On(td_list', u) <=> On(td_list, u))
    BY <1>8, <2>1, <2>2, HeadTailList
  <2>4. tpc[h] \in WaitLabels /\ ~timeout[h] /\ h # t
    BY <1>1, <2>3 DEF LocInv, Waiting, Waits, WaitLabels
  <2>5. Handed' = Handed \cup {h} /\ h \notin Handed
    BY <1>1, <1>2, <2>3, <2>4, HandedSet, HandedSetNext
       DEF HandedTo, Waits, WaitLabels
  <2>6. Cardinality(Handed') = Cardinality(Handed) + 1
    BY <2>5, HandedSet, FS_AddElement
  <2>7. Permits' = Permits
    BY <1>4, <2>1, <2>6, Bounds DEF Permits
  <2>8. PermitsConserved'
    BY <1>2, <1>5, <2>7 DEF PermitInv, PermitsConserved
  <2>9. Numbers'
    BY <1>2, <2>1 DEF PermitInv, Numbers
  <2> QED  BY <1>5, <1>6, <2>7, <2>8, <2>9 DEF PermitInv
<1> QED  BY <1>7, <1>8

\* The owner of the mutex is recorded; nobody else holds the permit.
LEMMA OwnStep ==
  ASSUME LocInv, LocInv', PermitInv, NEW c \in CPUs, NEW t \in Threads,
         mutex_own(c, t)
  PROVE  PermitInv' /\ Permits' = Permits /\ Holders' = Holders /\ Waiters' = Waiters
<1>1. /\ tpc[t] = "own" /\ tpc'[t] = "user" /\ m_td' = t
      /\ \A u \in Threads : u # t => tpc'[u] = tpc[u]
  BY Kinds DEF mutex_own, At, Goto, LocInv, PlaceTypes
<1>2. /\ sem_count' = sem_count /\ td_list' = td_list /\ timeout' = timeout
      /\ holding' = holding /\ issued' = issued
  BY DEF mutex_own, semVars, localVars
<1>3. Handed' = Handed
  BY <1>1, <1>2, HandedSet, HandedSetNext DEF HandedTo, Waits, WaitLabels
<1>4. Giving' = Giving /\ Waiters' = Waiters
  BY <1>1 DEF Giving, Waiters
<1>5. HeldPermits' = HeldPermits /\ Holders' = Holders
  BY <1>2 DEF HeldPermits, Holders
<1>6. Permits' = Permits
  BY <1>2, <1>3, <1>4 DEF Permits
<1>7. PermitsConserved' /\ Numbers'
  BY <1>1, <1>2, <1>5, <1>6 DEF PermitInv, PermitsConserved, Numbers
<1>8. Mutex /\ issued = 1 /\ holding[t] > 0
  BY <1>1 DEF PermitInv, Owning
<1>9. ASSUME NEW u \in Threads, u # t  PROVE ~(holding[u] > 0)
  BY <1>8, <1>9, HeldCount, Bounds DEF PermitInv
<1>10. Owning'
  BY <1>1, <1>2, <1>8, <1>9 DEF PermitInv, Owning
<1> QED  BY <1>4, <1>5, <1>6, <1>7, <1>10 DEF PermitInv

\* Steps of the handler move no permit.
LEMMA HandlerPermits ==
  ASSUME LocInv, NEW c \in CPUs,
         \/ HandlerStep(c)
         \/ \E why \in {"ecall", "timer", "ipi"} : exception(c, why)
  PROVE  SamePermits /\ Waiters' = Waiters
<1>1. CASE mdx_sem_cb(c)
  <2>1. /\ tpc' = tpc /\ sem_count' = sem_count /\ m_td' = m_td
        /\ holding' = holding /\ issued' = issued
    BY <1>1 DEF mdx_sem_cb, SemCbDone, permitVars
  <2>2. CASE td_state[cbtd[c]] = "SEM_UNLOCK"
    <3>1. timeout' = timeout /\ td_list' = td_list
      BY <1>1, <2>2 DEF mdx_sem_cb
    <3> QED  BY <2>1, <3>1 DEF SamePermits, Waiters
  <2>3. CASE td_state[cbtd[c]] # "SEM_UNLOCK"
    <3>1. PICK t \in Threads : t = cbtd[c]
      BY <1>1 DEF LocInv, PlaceTypes, Handlers, mdx_sem_cb
    <3>2. /\ sem_lock = NULL /\ Timed(t) /\ td_state[t] = "ACK"
          /\ sem_cb_wake(t, RemoveFirst(td_list, t))
      BY <1>1, <2>3, <3>1 DEF LocInv, Pending, SemCbOf, mdx_sem_cb
    <3>3. Waits(t)
      BY <3>1, <3>2, Kinds DEF LocInv, Timed, Claiming, ClaimOf, Locking
    <3>4. \A u : On(td_list', u) <=> On(td_list, u) /\ u # t
      BY <3>2, RemoveFirstList DEF LocInv, PlaceTypes, Waiting, sem_cb_wake
    <3>5. /\ timeout'[t] = TRUE
          /\ \A u \in Threads : u # t => timeout'[u] = timeout[u]
      BY <3>1, <3>2 DEF LocInv, PlaceTypes, sem_cb_wake
    <3> QED  BY <2>1, <3>3, <3>4, <3>5 DEF SamePermits, Waits, Waiters
  <2> QED  BY <2>2, <2>3
<1>2. CASE \/ switch_intr_thread(c) \/ mdx_sched_park(c) \/ mdx_sched_next(c)
           \/ \E k \in callouts : callout_fire(c, k)
  <2>1. /\ tpc' = tpc /\ sem_count' = sem_count /\ m_td' = m_td
        /\ holding' = holding /\ issued' = issued
        /\ timeout' = timeout /\ td_list' = td_list
    BY <1>2
       DEF switch_intr_thread, mdx_sched_park, mdx_sched_next, callout_fire, permitVars,
           semVars, localVars
  <2> QED  BY <2>1 DEF SamePermits, Waiters
<1>3. ASSUME NEW why \in {"ecall", "timer", "ipi"}, exception(c, why)
      PROVE  SamePermits /\ Waiters' = Waiters
  <2>1. /\ sem_count' = sem_count /\ m_td' = m_td
        /\ holding' = holding /\ issued' = issued
        /\ timeout' = timeout /\ td_list' = td_list
    BY <1>3 DEF exception, permitVars, semVars, localVars
  <2>2. PICK t \in AllThreads : t = curthread[c]
    BY <1>3 DEF exception, LocInv, PlaceTypes, Handlers
  <2>3. CASE UNCHANGED tpc
    BY <2>1, <2>3 DEF SamePermits, Waiters
  <2>4. CASE tpc[t] \in Yielding /\ Goto(t, AfterYield(tpc[t]))
    <3>1. \/ tpc[t] = "boot" /\ AfterYield(tpc[t]) = "idle"
          \/ tpc[t] = "wait_yield" /\ AfterYield(tpc[t]) = "wait_ret"
          \/ tpc[t] \in {"sleep_yield", "yield"} /\ AfterYield(tpc[t]) = "user"
          \/ tpc[t] = "exit_yield" /\ AfterYield(tpc[t]) = "not_reached"
      BY <2>4 DEF Yielding, AfterYield
    <3>2. /\ tpc'[t] = AfterYield(tpc[t])
          /\ \A u \in Threads : u # t => tpc'[u] = tpc[u]
      BY <2>4, Kinds DEF Goto, LocInv, PlaceTypes
    <3>3. \A u \in Threads :
            /\ tpc'[u] \in WaitLabels <=> tpc[u] \in WaitLabels
            /\ tpc'[u] = "post_lock" <=> tpc[u] = "post_lock"
            /\ tpc'[u] = "own" <=> tpc[u] = "own"
            /\ tpc'[u] \in {"wait_lock", "wait_block"} <=> tpc[u] \in {"wait_lock", "wait_block"}
      BY <3>1, <3>2 DEF WaitLabels
    <3> QED  BY <2>1, <3>3 DEF SamePermits, Waiters, WaitLabels
  <2> QED  BY <1>3, <2>2, <2>3, <2>4 DEF exception
<1> QED  BY <1>1, <1>2, <1>3 DEF HandlerStep

\* Nor do these steps of thread code.
LEMMA ThreadPermits ==
  ASSUME LocInv, NEW c \in CPUs, NEW t \in Threads,
         \/ wait_block(c, t) \/ post_spin(c, t) \/ post_cancel(c, t) \/ post_add(c, t)
         \/ mdx_tsleep(c, t) \/ mdx_thread_terminate(c, t) \/ mdx_thread_yield(c, t)
         \/ \E n \in Threads : mdx_thread_create(c, t, n)
         \/ wait_lock(c, t) /\ ~(sem_count > 0)
  PROVE  SamePermits /\ Waiters' = Waiters
<1>0. tpc \in [AllThreads -> ThreadLabels \cup {"boot", "idle"}] /\ t \in AllThreads
  BY Kinds DEF LocInv, PlaceTypes
<1>1. sem_count' = sem_count /\ m_td' = m_td /\ holding' = holding /\ issued' = issued
  BY DEF wait_block, post_spin, post_cancel, post_add, mdx_tsleep,
     mdx_thread_terminate,
         mdx_thread_yield, mdx_thread_create, wait_lock, semVars, permitVars
<1>2. CASE wait_block(c, t)
  <2>1. tpc[t] = "wait_block" /\ tpc'[t] = "wait_yield"
        /\ \A u \in Threads : u # t => tpc'[u] = tpc[u]
    BY <1>0, <1>2, Kinds DEF wait_block, At, Goto
  <2>2. \A u \in Threads : u # t => timeout'[u] = timeout[u]
    BY <1>2 DEF wait_block, LocInv, PlaceTypes
  <2>3. \A u : On(td_list', u) <=> On(td_list, u) \/ u = t
    BY <1>2, AppendList DEF wait_block, LocInv, PlaceTypes
  <2> QED  BY <1>1, <2>1, <2>2, <2>3 DEF SamePermits, Waiters, WaitLabels
<1>3. CASE \E n \in Threads : mdx_thread_create(c, t, n)
  <2>1. PICK n \in Threads : mdx_thread_create(c, t, n)
    BY <1>3
  <2>2. /\ tpc[n] \in {"user", "exit_yield", "not_reached"} /\ tpc'[n] = "user"
        /\ \A u \in Threads : u # n => tpc'[u] = tpc[u]
    BY <1>0, <2>1, Kinds DEF LocInv, Ended, mdx_thread_create, mdx_thread_setup, Goto
  <2>3. timeout' = timeout /\ td_list' = td_list
    BY <2>1 DEF mdx_thread_create, semVars, localVars
  <2> QED  BY <1>1, <2>2, <2>3 DEF SamePermits, Waiters, WaitLabels
<1>4. CASE \/ post_spin(c, t) \/ post_cancel(c, t) \/ post_add(c, t)
           \/ mdx_tsleep(c, t) \/ mdx_thread_terminate(c, t) \/ mdx_thread_yield(c, t)
           \/ wait_lock(c, t) /\ ~(sem_count > 0)
  <2>1. timeout' = timeout /\ td_list' = td_list
    BY <1>4 DEF post_spin, post_cancel, post_add, mdx_tsleep, mdx_thread_terminate,
                mdx_thread_yield, wait_lock, semVars, localVars
  <2>2. \/ tpc[t] = "wait_lock" /\ Goto(t, "wait_block")
        \/ /\ tpc[t] \in PostLabels \cup {"user"}
           /\ \E m \in {"post_cancel", "post_add", "user", "sleep_yield", "exit_yield",
                        "yield"} : Goto(t, m)
    BY <1>4 DEF post_spin, post_cancel, post_add, mdx_tsleep, mdx_thread_terminate,
                mdx_thread_yield, wait_lock, At, PostLabels
  <2>3. /\ \/ tpc[t] = "wait_lock" /\ tpc'[t] = "wait_block"
           \/ /\ tpc[t] \in PostLabels \cup {"user"}
              /\ tpc'[t] \in {"post_cancel", "post_add", "user", "sleep_yield",
                              "exit_yield", "yield"}
        /\ \A u \in Threads : u # t => tpc'[u] = tpc[u]
    BY <1>0, <2>2, Kinds DEF Goto
  <2> QED  BY <1>1, <2>1, <2>3 DEF SamePermits, Waiters, WaitLabels, PostLabels
<1> QED  BY <1>2, <1>3, <1>4

\* A call of mdx_sem_timedwait begins, and ends with a timeout.
LEMMA WaitCallPermits ==
  ASSUME LocInv, NEW c \in CPUs, NEW t \in Threads, wait_call(c, t)
  PROVE  /\ SamePermits /\ t \notin Waiters /\ Waiters' = Waiters \cup {t}
         /\ Mutex => t \notin Holders
<1>1. /\ sem_count' = sem_count /\ m_td' = m_td /\ holding' = holding /\ issued' = issued
      /\ timeout' = timeout /\ td_list' = td_list
      /\ Mutex => holding[t] = 0
  BY DEF wait_call, semVars, permitVars
<1>2. /\ tpc[t] = "user" /\ tpc'[t] = "wait_lock"
      /\ \A u \in Threads : u # t => tpc'[u] = tpc[u]
  BY Kinds DEF wait_call, At, Goto, LocInv, PlaceTypes
<1> QED  BY <1>1, <1>2 DEF SamePermits, Waiters, Holders, WaitLabels

LEMMA TimeoutPermits ==
  ASSUME LocInv, NEW c \in CPUs, NEW t \in Threads, wait_return(c, t),
         usec[t] # "wait" /\ timeout[t]
  PROVE  SamePermits /\ t \in Waiters /\ Waiters' = Waiters \ {t}
<1>1. /\ sem_count' = sem_count /\ m_td' = m_td /\ holding' = holding /\ issued' = issued
      /\ td_list' = td_list
      /\ \A u \in Threads : u # t => timeout'[u] = timeout[u]
  BY DEF wait_return, semVars, LocInv, PlaceTypes
<1>2. /\ tpc[t] = "wait_ret" /\ tpc'[t] = "user"
      /\ \A u \in Threads : u # t => tpc'[u] = tpc[u]
  BY Kinds DEF wait_return, At, Goto, LocInv, PlaceTypes
<1> QED  BY <1>1, <1>2 DEF SamePermits, Waiters, WaitLabels

\* Every step keeps the permits and, if the semaphore is that of a mutex, is a
\* step of the semaphore of SemSpec or leaves it alone.
LEMMA PermitNext ==
  ASSUME LocInv, LocInv', PermitInv, [Next]_vars
  PROVE  PermitInv' /\ (Mutex => [Sem!Next]_(Sem!vars))
<1>1. ASSUME SamePermits, Waiters' = Waiters
      PROVE  PermitInv' /\ UNCHANGED Sem!vars
  BY <1>1, SameStep DEF Sem!vars
<1>2. CASE UNCHANGED vars
  <2>1. SamePermits /\ Waiters' = Waiters
    BY <1>2 DEF vars, SamePermits, Waiters, semVars, localVars, permitVars
  <2> QED  BY <1>1, <2>1
<1>3. ASSUME NEW c \in CPUs, \/ HandlerStep(c)
                             \/ \E why \in {"ecall", "timer", "ipi"} : exception(c, why)
      PROVE  PermitInv' /\ UNCHANGED Sem!vars
  BY <1>1, <1>3, HandlerPermits
<1>4. ASSUME NEW c \in CPUs, NEW t \in Threads, OpStep(c, t) \/ CallStep(c, t)
      PROVE  PermitInv' /\ (Mutex => [Sem!Next]_(Sem!vars))
  <2>1. CASE \/ wait_block(c, t) \/ post_spin(c, t) \/ post_cancel(c, t) \/ post_add(c, t)
             \/ mdx_tsleep(c, t) \/ mdx_thread_terminate(c, t) \/ mdx_thread_yield(c, t)
             \/ \E n \in Threads : mdx_thread_create(c, t, n)
             \/ wait_lock(c, t) /\ ~(sem_count > 0)
    BY <1>1, <2>1, ThreadPermits
  <2>2. CASE wait_call(c, t)
    <3>1. /\ SamePermits /\ t \notin Waiters /\ Waiters' = Waiters \cup {t}
          /\ Mutex => t \notin Holders
      BY <2>2, WaitCallPermits
    <3>2. PermitInv' /\ Permits' = Permits /\ Holders' = Holders
      BY <3>1, SameStep
    <3>3. Mutex => Sem!Wait(t)
      BY <3>1, <3>2 DEF Sem!Wait
    <3> QED  BY <3>2, <3>3 DEF Sem!Next
  <2>3. CASE \/ wait_lock(c, t) /\ sem_count > 0
             \/ mdx_sem_trywait(c, t)
    <3>1. PICK l \in {"user", "wait_lock"} :
               /\ At(c, t, l)
               /\ l = "wait_lock" <=> wait_lock(c, t)
      BY <2>3 DEF wait_lock, mdx_sem_trywait, At
    <3>2. /\ sem_count > 0 /\ sem_count' = sem_count - 1 /\ Acquired(t)
          /\ UNCHANGED <<td_list, localVars, m_td, issued>>
      BY <2>3 DEF wait_lock, mdx_sem_trywait
    <3>3. /\ PermitInv' /\ Permits' = Permits - 1 /\ Permits > 0
          /\ Holders' = Holders \cup {t} /\ Waiters' = Waiters \ {t}
      BY <3>1, <3>2, TakeStep
    <3>4. CASE l = "wait_lock"
      <4>1. t \in Waiters  BY <3>1, <3>4 DEF At, Waiters
      <4>2. Sem!Take(t)  BY <3>3, <4>1 DEF Sem!Take
      <4> QED  BY <3>3, <4>2 DEF Sem!Next
    <3>5. CASE l = "user"
      <4>1. t \notin Waiters  BY <3>1, <3>5 DEF At, Waiters
      <4>2. Sem!TryWait(t)  BY <3>3, <4>1 DEF Sem!TryWait
      <4> QED  BY <3>3, <4>2 DEF Sem!Next
    <3> QED  BY <3>4, <3>5
  <2>4. CASE wait_return(c, t)
    <3>1. t \in Waiters  BY <2>4 DEF wait_return, At, Waiters
    <3>2. CASE usec[t] # "wait" /\ timeout[t]
      <4>1. SamePermits /\ Waiters' = Waiters \ {t}  BY <2>4, <3>2, TimeoutPermits
      <4>2. PermitInv' /\ Permits' = Permits /\ Holders' = Holders  BY <4>1, SameStep
      <4>3. Sem!Timeout(t)  BY <3>1, <4>1, <4>2 DEF Sem!Timeout
      <4> QED  BY <4>2, <4>3 DEF Sem!Next
    <3>3. CASE ~(usec[t] # "wait" /\ timeout[t])
      <4>1. /\ PermitInv' /\ Permits' = Permits - 1 /\ Permits > 0
            /\ Holders' = Holders \cup {t} /\ Waiters' = Waiters \ {t}
        BY <2>4, <3>3, ReceiveStep
      <4>2. Sem!Take(t)  BY <3>1, <4>1 DEF Sem!Take
      <4> QED  BY <4>1, <4>2 DEF Sem!Next
    <3> QED  BY <3>2, <3>3
  <2>5. CASE mutex_own(c, t) \/ post_lock(c, t)
    BY <2>5, OwnStep, DepositStep DEF Sem!vars
  <2>6. CASE post_call(c, t)
    <3>1. /\ PermitInv' /\ Permits' = Permits + 1 /\ Waiters' = Waiters
          /\ Holders' = Holders \/ (t \in Holders /\ Holders' = Holders \ {t})
      BY <2>6, GiveStep
    <3>2. Sem!Post  BY <3>1 DEF Sem!Post
    <3> QED  BY <3>1, <3>2 DEF Sem!Next
  <2> QED  BY <1>4, <2>1, <2>2, <2>3, <2>4, <2>5, <2>6 DEF OpStep, CallStep
<1> QED  BY <1>2, <1>3, <1>4 DEF Next

\* The permits when the semaphore is initialised.
LEMMA PermitInit ==
  ASSUME Init
  PROVE  PermitInv /\ Sem!Init
<1>1. /\ sem_count = InitCount /\ issued = InitCount /\ m_td = NULL
      /\ holding = [t \in Threads |-> 0]
      /\ \A t \in Threads : tpc[t] = "user"
  BY Kinds DEF Init, Idle
<1>2. /\ InitCount \in Nat /\ MaxIssued \in Nat /\ InitCount <= MaxIssued
      /\ Mutex => InitCount = 1
  BY SchedAssumption
<1>3. Handed = {} /\ Giving = {} /\ HeldPermits = {} /\ Holders = {} /\ Waiters = {}
  BY <1>1, <1>2 DEF Handed, Giving, HeldPermits, Holders, Waiters
<1>4. Permits = InitCount
  BY <1>1, <1>2, <1>3, FS_EmptySet DEF Permits
<1>5. PermitsConserved
  BY <1>1, <1>2, <1>3, <1>4, FS_EmptySet DEF PermitsConserved
<1>6. Numbers
  BY <1>1, <1>2 DEF Numbers
<1>7. Owning
  BY <1>1, <1>2 DEF Owning
<1> QED  BY <1>3, <1>4, <1>5, <1>6, <1>7 DEF PermitInv, Sem!Init

-----------------------------------------------------------------------------
(***************************************************************************)
(* The theorems.  Threads with a quantum do not call mdx_thread_yield,     *)
(* which would leave the quantum pending on a thread in the run queue.     *)
(***************************************************************************)

\* The curthread of a CPU points to a freed thread only between mdx_sched_ack
\* and the switch to the interrupt thread.
StaleInv ==
  /\ stale \in [CPUs -> Threads \cup {NULL}]
  /\ \A c \in CPUs : stale[c] # NULL =>
       curthread[c] = NULL /\ hpc[c] \in {"callback", "park"}

\* The exception handler goes no further before it has switched.
LEMMA StaleStep ==
  ASSUME LocInv, StaleInv, NEW c \in CPUs,
         \/ \E why \in {"ecall", "timer", "ipi"} : exception(c, why)
         \/ HandlerStep(c)
  PROVE  StaleInv'
<1>1. /\ curthread \in [CPUs -> AllThreads \cup {NULL}] /\ hpc \in [CPUs -> HandlerLabels]
      /\ stale \in [CPUs -> Threads \cup {NULL}]
  BY DEF LocInv, PlaceTypes, StaleInv
<1>2. ASSUME stale' = stale, stale[c] = NULL,
             \A d \in CPUs : d # c => curthread'[d] = curthread[d] /\ hpc'[d] = hpc[d]
      PROVE  StaleInv'
  BY <1>2 DEF StaleInv
<1>3. ASSUME NEW why \in {"ecall", "timer", "ipi"}, exception(c, why)
      PROVE  StaleInv'
  <2>1. /\ hpc[c] = "none" /\ stale[c] = NULL
        /\ hpc' = [hpc EXCEPT ![c] = IF why = "timer" THEN "callback" ELSE "park"]
        /\ mdx_sched_ack(c, curthread[c])
    BY <1>3 DEF exception, HGoto, StaleInv
  <2>2. CASE td_state[curthread[c]] = "TERMINATING"
    <3>1. /\ curthread' = [curthread EXCEPT ![c] = NULL]
          /\ stale' = [stale EXCEPT ![c] = curthread[c]]
      BY <2>1, <2>2 DEF mdx_sched_ack
    <3>2. curthread[c] \in Threads
      BY <2>1, <2>2, Kinds DEF LocInv, PlaceTypes, Handlers
    <3> QED  BY <1>1, <2>1, <3>1, <3>2 DEF StaleInv
  <2>3. CASE td_state[curthread[c]] # "TERMINATING"
    <3>1. /\ stale' = stale
          /\ \A d \in CPUs : d # c => curthread'[d] = curthread[d] /\ hpc'[d] = hpc[d]
      BY <1>1, <2>1, <2>3 DEF mdx_sched_ack
    <3> QED  BY <1>2, <2>1, <3>1
  <2> QED  BY <2>2, <2>3
<1>4. CASE HandlerStep(c)
  <2>1. CASE switch_intr_thread(c)
    BY <1>1, <2>1 DEF switch_intr_thread, StaleInv
  <2>2. CASE mdx_sem_cb(c)
    BY <1>1, <1>2, <2>2 DEF mdx_sem_cb, SemCbDone, HGoto, StaleInv
  <2>3. CASE mdx_sched_park(c)
    BY <1>1, <1>2, <2>3 DEF mdx_sched_park, HGoto
  <2>4. CASE mdx_sched_next(c)
    BY <1>1, <1>2, <2>4 DEF mdx_sched_next, HGoto, StaleInv
  <2>5. ASSUME NEW k \in callouts, callout_fire(c, k)
        PROVE  StaleInv'
    BY <1>1, <1>2, <2>5 DEF callout_fire, HGoto
  <2> QED  BY <1>4, <2>1, <2>2, <2>3, <2>4, <2>5 DEF HandlerStep
<1> QED  BY <1>3, <1>4

\* Threads leave it alone.
LEMMA StaleNext ==
  ASSUME LocInv, StaleInv, [Next]_vars
  PROVE  StaleInv'
<1>1. ASSUME UNCHANGED cpuVars
      PROVE  StaleInv'
  BY <1>1 DEF cpuVars, StaleInv
<1>2. ASSUME NEW c \in CPUs, NEW t \in Threads, OpStep(c, t) \/ CallStep(c, t)
      PROVE  StaleInv'
  <2>1. UNCHANGED cpuVars
    BY <1>2
       DEF OpStep, CallStep, wait_lock, wait_block, wait_return, mutex_own, post_lock,
           post_spin, post_cancel, post_add, wait_call, mdx_sem_trywait, post_call,
           mdx_tsleep, mdx_thread_terminate, mdx_thread_yield, mdx_thread_create
  <2> QED  BY <1>1, <2>1
<1>3. CASE UNCHANGED vars
  BY <1>1, <1>3 DEF vars
<1> QED  BY <1>2, <1>3, StaleStep DEF Next

\* The inductive invariant.
SchedInv == LocInv /\ PermitInv /\ StaleInv

\* It holds for every number of CPUs, threads and priorities, every mix of
\* preemptive and cooperative threads and every initial count.
THEOREM SchedInvariant ==
  ASSUME "yield_any" \notin Ops
  PROVE  Spec => []SchedInv
<1>1. Init => SchedInv
  <2>1. Init => StaleInv
    BY DEF Init, StaleInv
  <2> QED  BY <2>1, LocInit, PermitInit DEF SchedInv
<1>2. SchedInv /\ [Next]_vars => SchedInv'
  BY LocNext, PermitNext, StaleNext DEF SchedInv
<1> QED  BY <1>1, <1>2, PTL DEF Spec

\* How the counts of OnePlace come from the invariant.
LEMMA Counts ==
  ASSUME LocInv, NEW t \in AllThreads
  PROVE  /\ OnCPU(t) = IF \E c \in CPUs : curthread[c] = t THEN 1 ELSE 0
         /\ Queued(t) = IF InQueue(t) THEN 1 ELSE 0
         /\ Held(t) = (IF Waits(t) THEN 1 ELSE 0)
                      + (IF \E u \in Threads : target[u] = t THEN 1 ELSE 0)
                      + (IF \E k \in callouts : k.td = t /\ k.kind = "sleep" THEN 1 ELSE 0)
<1>0. t # NULL
  BY Kinds
<1>1. OnCPU(t) = IF \E c \in CPUs : curthread[c] = t THEN 1 ELSE 0
  <2> DEFINE S == {c \in CPUs : curthread[c] = t}
  <2>1. CASE \E c \in CPUs : curthread[c] = t
    <3>1. PICK c \in CPUs : curthread[c] = t  BY <2>1
    <3>2. S = {c}  BY <1>0, <3>1 DEF LocInv, Handlers
    <3> QED  BY <2>1, <3>2, FS_Singleton DEF OnCPU
  <2>2. CASE ~\E c \in CPUs : curthread[c] = t
    <3>1. S = {}  BY <2>2
    <3> QED  BY <2>2, <3>1, FS_EmptySet DEF OnCPU
  <2> QED  BY <2>1, <2>2
<1>2. Queued(t) = IF InQueue(t) THEN 1 ELSE 0
  BY PrioRange, OccurrencesOnce DEF LocInv, RunQueue, Queued, InQueue
<1>3. Occurrences(td_list, t) = IF Waits(t) THEN 1 ELSE 0
  BY OccurrencesOnce DEF LocInv, PlaceTypes, Waiting, Waits
<1>4. Cardinality({u \in Threads : target[u] = t}) =
        IF \E u \in Threads : target[u] = t THEN 1 ELSE 0
  <2> DEFINE S == {u \in Threads : target[u] = t}
  <2>1. CASE \E u \in Threads : target[u] = t
    <3>1. PICK u \in Threads : target[u] = t  BY <2>1
    <3>2. S = {u}  BY <1>0, <3>1 DEF LocInv, Claiming
    <3> QED  BY <2>1, <3>2, FS_Singleton
  <2>2. CASE ~\E u \in Threads : target[u] = t
    <3>1. S = {}  BY <2>2
    <3> QED  BY <2>2, <3>1, FS_EmptySet
  <2> QED  BY <2>1, <2>2
<1>5. Cardinality({k \in callouts : k.td = t /\ k.kind = "sleep"}) =
        IF \E k \in callouts : k.td = t /\ k.kind = "sleep" THEN 1 ELSE 0
  <2> DEFINE S == {k \in callouts : k.td = t /\ k.kind = "sleep"}
  <2>1. CASE \E k \in callouts : k.td = t /\ k.kind = "sleep"
    <3>1. PICK k \in callouts : k.td = t /\ k.kind = "sleep"  BY <2>1
    <3>2. S = {k}  BY <3>1 DEF LocInv, Pending
    <3> QED  BY <2>1, <3>2, FS_Singleton
  <2>2. CASE ~\E k \in callouts : k.td = t /\ k.kind = "sleep"
    <3>1. S = {}  BY <2>2
    <3> QED  BY <2>2, <3>1, FS_EmptySet
  <2> QED  BY <2>1, <2>2
<1> QED  BY <1>1, <1>2, <1>3, <1>4, <1>5 DEF Held

\* OnePlace is a property of code in mdx_sched.c, mdx_sem.c and trap.c: a
\* thread is on one CPU, or once on the run queue, or waits for one thing.
THEOREM OnePlaceHolds ==
  ASSUME "yield_any" \notin Ops
  PROVE  Spec => []OnePlace
<1>1. SchedInv => OnePlace
  <2> SUFFICES ASSUME SchedInv  PROVE OnePlace
    OBVIOUS
  <2>0. LocInv /\ PermitInv /\ StaleInv  BY DEF SchedInv
  <2>1. TypeOK
    BY <2>0
       DEF LocInv, PermitInv, StaleInv, TypeOK, PlaceTypes, RunQueue, Numbers, HandlerLabels,
                CalloutTypes
  <2>2. ASSUME NEW t \in alive \cup CPUs
        PROVE  IF OnCPU(t) = 0 THEN Queued(t) + Held(t) = 1
               ELSE /\ OnCPU(t) = 1 /\ Queued(t) = 0
                    /\ \/ Held(t) = 0
                       \/ Held(t) = 1 /\ td_state[t] \in {"SEM_WAIT", "SLEEPING"}
    <3>0. t \in AllThreads
      BY <2>0, Kinds DEF LocInv, PlaceTypes
    <3>1. /\ OnCPU(t) = IF \E c \in CPUs : curthread[c] = t THEN 1 ELSE 0
          /\ Queued(t) = IF InQueue(t) THEN 1 ELSE 0
          /\ Held(t) = (IF Waits(t) THEN 1 ELSE 0)
                       + (IF \E u \in Threads : target[u] = t THEN 1 ELSE 0)
                       + (IF \E k \in callouts : k.td = t /\ k.kind = "sleep" THEN 1 ELSE 0)
      BY <2>0, <3>0, Counts
    <3>2. InQueue(t) => ~\E c \in CPUs : curthread[c] = t
      BY <2>0, <3>0 DEF LocInv, Ready
    <3>3. CASE t \in CPUs
      <4>1. ~Waits(t)
        BY <2>0, <3>3, Kinds DEF LocInv, PlaceTypes, Waits, On
      <4>2. ~\E u \in Threads : target[u] = t
        BY <2>0, <3>3, Kinds DEF LocInv, PlaceTypes
      <4>3. ~\E k \in callouts : k.td = t /\ k.kind = "sleep"
        BY <2>0, <3>3, Kinds, CalloutFields DEF LocInv
      <4>4. InQueue(t) \/ \E c \in CPUs : curthread[c] = t
        BY <2>0, <3>3 DEF LocInv, Located
      <4> QED  BY <3>1, <3>2, <4>1, <4>2, <4>3, <4>4
    <3>4. CASE t \in alive
      <4>0. t \in Threads  BY <2>0, <3>4 DEF LocInv, PlaceTypes
      <4>1. InQueue(t) =>
              /\ ~Waits(t) /\ ~\E u \in Threads : target[u] = t
              /\ ~\E k \in callouts : k.td = t /\ k.kind = "sleep"
        BY <2>0, <4>0 DEF LocInv, Ready
      <4>2. Waits(t) => ~\E u \in Threads : target[u] = t
        BY <2>0, <4>0 DEF LocInv, Waiting
      <4>3. (\E k \in callouts : k.td = t /\ k.kind = "sleep") =>
              ~Waits(t) /\ ~\E u \in Threads : target[u] = t
        BY <2>0 DEF LocInv, Pending, SleepOf
      <4>4. \/ \E c \in CPUs : curthread[c] = t
            \/ InQueue(t) \/ Waits(t) \/ \E u \in Threads : target[u] = t
            \/ \E k \in callouts : k.td = t /\ k.kind = "sleep"
        BY <2>0, <3>4 DEF LocInv, Located, Parked
      <4>5. ASSUME NEW c \in CPUs, curthread[c] = t, Parked(t)
            PROVE  td_state[t] \in {"SEM_WAIT", "SLEEPING"}
        <5>1. td_state[t] \in {"RUNNING", "SEM_WAIT", "SLEEPING", "YIELDING",
                               "TERMINATING", "READY"}
          BY <2>0, <4>0, <4>5 DEF LocInv, Running
        <5>2. CASE Waits(t)
          BY <2>0, <4>0, <5>1, <5>2 DEF LocInv, Waiting
        <5>3. ASSUME NEW u \in Threads, target[u] = t  PROVE td_state[t] = "SEM_WAIT"
          BY <2>0, <4>0, <5>1, <5>3, Kinds DEF LocInv, Claiming, ClaimOf, PostLabels
        <5>4. ASSUME NEW k \in callouts, k.td = t /\ k.kind = "sleep"
              PROVE  td_state[t] = "SLEEPING"
          BY <2>0, <5>1, <5>4 DEF LocInv, Pending, SleepOf
        <5> QED  BY <4>5, <5>2, <5>3, <5>4 DEF Parked
      <4> QED  BY <3>1, <3>2, <4>1, <4>2, <4>3, <4>4, <4>5 DEF Parked
    <3> QED  BY <3>3, <3>4
  <2> QED  BY <2>1, <2>2 DEF OnePlace
<1> QED  BY <1>1, SchedInvariant, PTL

\* Nothing points to a thread that mdx_thread_terminate_cleanup has freed but
\* the curthread of the CPU that has freed it, until it has switched to its
\* interrupt thread.
THEOREM FreedIsGoneHolds ==
  ASSUME "yield_any" \notin Ops
  PROVE  Spec => []FreedIsGone
<1>1. SchedInv => FreedIsGone
  <2>a. ASSUME SchedInv, NEW c \in CPUs, stale[c] # NULL
        PROVE  curthread[c] = NULL /\ cbtd[c] = NULL /\ hpc[c] \in {"callback", "park"}
    BY <2>a DEF SchedInv, StaleInv, LocInv, Handlers
  <2> SUFFICES ASSUME SchedInv, NEW t \in Threads \ alive
               PROVE  /\ OnCPU(t) + Queued(t) + Held(t) = 0
                      /\ \A k \in callouts : k.td # t
                      /\ \A c \in CPUs : cbtd[c] # t
    BY <2>a DEF FreedIsGone
  <2>0. LocInv /\ t \in AllThreads  BY Kinds DEF SchedInv
  <2>1. /\ ~\E c \in CPUs : curthread[c] = t
        /\ ~InQueue(t) /\ ~Waits(t)
        /\ ~\E u \in Threads : target[u] = t
    BY <2>0, Kinds DEF LocInv, Running, Ready, Waiting, Claiming, ClaimOf
  <2>2. \A k \in callouts : k.td # t
    BY <2>0, <2>1, CalloutFields
       DEF LocInv, Pending, QuantumOf, TimeoutOf, Timed, SleepOf
  <2>3. \A c \in CPUs : cbtd[c] # t
    BY <2>0, Kinds DEF LocInv, Handlers, Pending, SemCbOf, Timed
  <2>4. OnCPU(t) = 0 /\ Queued(t) = 0 /\ Held(t) = 0
    BY <2>0, <2>1, <2>2, Counts
  <2> QED  BY <2>2, <2>3, <2>4
<1> QED  BY <1>1, SchedInvariant, PTL

\* No assertion or panic of mdx_sched.c, mdx_sem.c and mdx_mutex.c triggers.
THEOREM NoPanicHolds ==
  ASSUME "yield_any" \notin Ops
  PROVE  Spec => []NoPanic
<1>1. SchedInv => NoPanic
  <2> SUFFICES ASSUME SchedInv  PROVE NoPanic
    OBVIOUS
  <2>0. LocInv /\ PermitInv  BY DEF SchedInv
  <2>1. ASSUME NEW c \in CPUs, hpc[c] = "callback", NEW k \in callouts, k.cpu = c
        PROVE  /\ k.kind = "quantum" => td_state[k.td] = "RUNNING"
               /\ k.kind = "sleep" => td_state[k.td] = "ACK"
    BY <2>0, <2>1, CalloutFields DEF LocInv, Pending, QuantumOf, SleepOf, Running
  <2>2. ASSUME NEW c \in CPUs, hpc[c] = "sem_cb"
        PROVE  td_state[cbtd[c]] \in {"ACK", "SEM_UNLOCK"}
    BY <2>0, <2>2 DEF LocInv, Pending, SemCbOf
  <2>3. ASSUME NEW c \in CPUs, hpc[c] \in {"callback", "park"}, curthread[c] # NULL
        PROVE  td_state[curthread[c]] \in {"RUNNING", "YIELDING", "READY"}
    <3>1. curthread[c] \in Threads \/ curthread[c] \in CPUs
      BY <2>0, <2>3, Kinds DEF LocInv, PlaceTypes
    <3> QED  BY <2>0, <2>3, <3>1 DEF LocInv, PlaceTypes, Running
  <2>4. ASSUME NEW c \in CPUs, hpc[c] = "next"
        PROVE  /\ \E p \in 0 .. NPrio - 1 : runq[p] # <<>>
               /\ Deadlines(Head(runq[TopPrio])) = {}
    <3>1. \E p \in 0 .. NPrio - 1 : runq[p] # <<>>
      BY <2>0, <2>4, QueueNotEmpty
    <3>2. PICK t \in AllThreads : t = Head(runq[TopPrio]) /\ InQueue(t)
      BY <2>0, <2>4, NextThread
    <3>3. \A k \in callouts : k.td # t
      BY <2>0, <3>2, Kinds, CalloutFields DEF LocInv, Ready
    <3>4. Deadlines(t) = {}
      BY <3>3 DEF Deadlines
    <3> QED  BY <3>1, <3>2, <3>4
  <2>5. ASSUME NEW t \in Threads, tpc[t] = "post_add"
        PROVE  td_state[target[t]] \in {"SEM_UNLOCK", "SEM_UNLOCK_ACK"}
    BY <2>0, <2>5 DEF LocInv, Claiming, ClaimOf, PostLabels
  <2>6. ASSUME NEW t \in Threads, Mutex /\ tpc[t] = "user" /\ holding[t] > 0
        PROVE  m_td = t
    BY <2>0, <2>6 DEF PermitInv, Owning
  <2> QED  BY <2>1, <2>2, <2>3, <2>4, <2>5, <2>6 DEF NoPanic
<1> QED  BY <1>1, SchedInvariant, PTL

\* mdx_sem_post, the timeout and the waits neither lose nor double a permit.
THEOREM PermitsConservedHolds ==
  ASSUME "yield_any" \notin Ops
  PROVE  Spec => []PermitsConserved
<1>1. SchedInv => PermitsConserved
  BY DEF SchedInv, PermitInv
<1> QED  BY <1>1, SchedInvariant, PTL

\* The list of available CPUs tells the truth.
THEOREM AvailHonestHolds ==
  ASSUME "yield_any" \notin Ops
  PROVE  Spec => []AvailHonest
<1>1. SchedInv => AvailHonest
  <2> SUFFICES ASSUME SchedInv  PROVE AvailHonest
    OBVIOUS
  <2>1. pcpu_list \in Seq(CPUs) /\ Once(pcpu_list) /\ Available
    BY DEF SchedInv, LocInv, PlaceTypes, Available
  <2>2. \A c \in CPUs : Occurrences(pcpu_list, c) = IF On(pcpu_list, c) THEN 1 ELSE 0
    BY <2>1, OccurrencesOnce
  <2> QED  BY <2>1, <2>2 DEF AvailHonest, Available
<1> QED  BY <1>1, SchedInvariant, PTL

\* No CPU spins for ever on the lock of the semaphore, when all threads have a
\* quantum: td_c_cpu is then the CPU that the thread runs on.  The run
\* MCMdxSchedCoop shows that it may without one.
THEOREM NoSpinDeadlockHolds ==
  ASSUME "yield_any" \notin Ops, Threads \subseteq Preemptive
  PROVE  Spec => []NoSpinDeadlock
<1>1. SchedInv => NoSpinDeadlock
  <2> SUFFICES ASSUME SchedInv, NEW t \in Threads, sem_lock = t
               PROVE  /\ tpc[t] = "wait_block" => hpc[td_c_cpu[t]] # "sem_cb"
                      /\ tpc[t] = "post_spin" /\ td_state[target[t]] # "ACK" =>
                           \E c \in CPUs : At(c, target[t], "wait_yield")
    BY DEF NoSpinDeadlock
  <2>0. LocInv  BY DEF SchedInv
  <2>1. ASSUME tpc[t] = "wait_block"  PROVE hpc[td_c_cpu[t]] # "sem_cb"
    <3>1. PICK c \in CPUs : curthread[c] = t /\ hpc[c] = "none"
      BY <2>0, <2>1 DEF LocInv, Locking, Interruptible
    <3>2. td_c_cpu[t] = c
      BY <2>0, <3>1 DEF LocInv, Running
    <3> QED  BY <3>1, <3>2
  <2>2. ASSUME tpc[t] = "post_spin", td_state[target[t]] # "ACK"
        PROVE  \E c \in CPUs : At(c, target[t], "wait_yield")
    <3>1. /\ target[t] \in Threads /\ td_state[target[t]] = "SEM_WAIT"
      BY <2>0, <2>2 DEF LocInv, PlaceTypes, Claiming, ClaimOf, PostLabels
    <3>2. PICK c \in CPUs : curthread[c] = target[t]
      BY <2>0, <3>1 DEF LocInv, Located
    <3>3. hpc[c] = "none" /\ tpc[target[t]] = "wait_yield"
      BY <2>0, <3>1, <3>2 DEF LocInv, Running
    <3> QED  BY <3>2, <3>3 DEF At
  <2> QED  BY <2>1, <2>2
<1> QED  BY <1>1, SchedInvariant, PTL

\* The semaphore of a mutex implements SemSpec.
THEOREM SemaphoreHolds ==
  ASSUME "yield_any" \notin Ops, Mutex
  PROVE  Spec => Semaphore
<1>1. Init => Sem!Init
  BY PermitInit
<1>2. SchedInv /\ SchedInv' /\ [Next]_vars => [Sem!Next]_(Sem!vars)
  BY PermitNext DEF SchedInv
<1> QED  BY <1>1, <1>2, SchedInvariant, PTL DEF Spec, Semaphore, Sem!Spec

-----------------------------------------------------------------------------
(***************************************************************************)
(* The proof that the system never rests on a ready thread.  A CPU that    *)
(* makes a thread ready runs a thread or its handler, so it is not at rest *)
(* then, and it comes to rest only when mdx_sched_next has found nothing   *)
(* but idle threads.                                                       *)
(***************************************************************************)

\* The inductive invariant: NeverAllAtRest, in terms of the run queue.
RestInv == (\A c \in CPUs : AtRest(c)) => \A t \in Threads : ~InQueue(t)

\* The code of a thread.
LEMMA ThreadRest ==
  ASSUME LocInv', NEW x \in CPUs, NEW t \in Threads,
         curthread'[x] = t
  PROVE  RestInv'
<1>1. tpc'[t] # "idle"
  BY DEF LocInv, PlaceTypes, ThreadLabels, WaitLabels, PostLabels
<1> QED  BY <1>1 DEF RestInv, AtRest

\* mdx_sched_next takes an idle thread only when there is no other.
LEMMA NextRest ==
  ASSUME LocInv, LocInv', NEW x \in CPUs, mdx_sched_next(x)
  PROVE  RestInv'
<1>1. hpc[x] = "next" /\ curthread[x] = NULL
  BY DEF mdx_sched_next, LocInv, Handlers
<1>2. PICK t \in AllThreads :
        /\ t = Head(runq[TopPrio]) /\ InQueue(t) /\ PrioOf(t) = TopPrio
  BY <1>1, NextThread
<1>3. \A u \in AllThreads :
        On(runq'[PrioOf(u)], u) <=> On(runq[PrioOf(u)], u) /\ u # t
  BY <1>1, <1>2, TakeFromQueue DEF mdx_sched_next
<1>4. \A u \in Threads : InQueue(u)' => InQueue(u)
  BY <1>3, Kinds DEF InQueue, PrioOf, Idle
<1>5. curthread'[x] = t
  BY <1>2 DEF mdx_sched_next, LocInv, PlaceTypes
<1>6. CASE t \in CPUs
  <2>1. TopPrio = 0
    BY <1>2, <1>6 DEF PrioOf, Idle
  <2>2. \A q \in 1 .. NPrio - 1 : runq[q] = <<>>
    <3>1. \A q \in TopPrio + 1 .. NPrio - 1 : runq[q] = <<>>
      BY <1>1, QueueNotEmpty, TopPrioReady
    <3> QED  BY <2>1, <3>1
  <2>3. ASSUME NEW u \in Threads, InQueue(u)
        PROVE  FALSE
    <3>1. PrioOf(u) \in 1 .. NPrio - 1
      BY Kinds, SchedAssumption DEF PrioOf, Idle
    <3> QED  BY <2>2, <2>3, <3>1, EmptyList DEF InQueue
  <2> QED  BY <1>4, <2>3 DEF RestInv
<1>7. CASE t \in Threads
  BY <1>5, <1>7, ThreadRest
<1> QED  BY <1>6, <1>7, Kinds

\* Every step keeps it.
LEMMA RestNext ==
  ASSUME LocInv, LocInv', RestInv, [Next]_vars
  PROVE  RestInv'
<1>1. ASSUME UNCHANGED <<hpc, curthread, tpc, runq, pending_ipis>>
      PROVE  RestInv'
  BY <1>1 DEF RestInv, AtRest, InQueue
<1>2. ASSUME NEW x \in CPUs, hpc'[x] # "none"
      PROVE  RestInv'
  BY <1>2 DEF RestInv, AtRest
<1>3. ASSUME NEW x \in CPUs, NEW why \in {"ecall", "timer", "ipi"}, exception(x, why)
      PROVE  RestInv'
  <2>1. hpc'[x] # "none"
    BY <1>3 DEF exception, HGoto, LocInv, PlaceTypes
  <2> QED  BY <1>2, <2>1
<1>4. ASSUME NEW x \in CPUs, switch_intr_thread(x)
      PROVE  RestInv'
  BY <1>1, <1>4 DEF switch_intr_thread, schedVars
<1>5. ASSUME NEW x \in CPUs, mdx_sem_cb(x) \/ \E k \in callouts : callout_fire(x, k)
      PROVE  RestInv'
  <2>1. hpc'[x] # "none"
    BY <1>5 DEF callout_fire, mdx_sem_cb, SemCbDone, HGoto, LocInv, PlaceTypes
  <2> QED  BY <1>2, <2>1
<1>6. ASSUME NEW x \in CPUs, mdx_sched_park(x)
      PROVE  RestInv'
  <2>1. \/ hpc'[x] # "none"
        \/ /\ curthread[x] # NULL /\ td_state[curthread[x]] = "RUNNING"
           /\ curthread' = curthread
    BY <1>6 DEF mdx_sched_park, HGoto, LocInv, PlaceTypes
  <2>2. CASE curthread[x] # NULL /\ td_state[curthread[x]] = "RUNNING" /\ curthread' = curthread
    <3>1. curthread[x] \in CPUs => td_state[curthread[x]] = "READY"
      BY DEF LocInv, PlaceTypes
    <3>2. curthread[x] \in Threads \cup CPUs \cup {NULL}
      BY Kinds DEF LocInv, PlaceTypes
    <3>3. curthread[x] \in Threads
      BY <2>2, <3>1, <3>2
    <3> QED  BY <2>2, <3>3, ThreadRest
  <2> QED  BY <1>2, <2>1, <2>2
<1>7. ASSUME NEW x \in CPUs, NEW t \in Threads, OpStep(x, t) \/ CallStep(x, t)
      PROVE  RestInv'
  <2>1. curthread[x] = t /\ curthread' = curthread
    BY <1>7
       DEF OpStep, CallStep, wait_lock, wait_block, wait_return, mutex_own, post_lock,
           post_spin, post_cancel, post_add, wait_call, mdx_sem_trywait, post_call,
           mdx_tsleep, mdx_thread_terminate, mdx_thread_yield, mdx_thread_create, At,
           cpuVars
  <2> QED  BY <2>1, ThreadRest
<1>8. CASE UNCHANGED vars
  BY <1>1, <1>8 DEF vars, schedVars, cpuVars
<1> QED
  BY <1>3, <1>4, <1>5, <1>6, <1>7, <1>8, NextRest DEF Next, HandlerStep

\* The system never goes to rest on a ready thread, for any number of CPUs: if
\* a thread is on the run queue, some CPU runs a thread or its handler or has
\* an IPI pending.
THEOREM NeverAllAtRestHolds ==
  ASSUME "yield_any" \notin Ops
  PROVE  Spec => []NeverAllAtRest
<1>1. Init => RestInv
  <2> SUFFICES ASSUME Init PROVE ~AtRest(BootCPU)
    BY SchedAssumption DEF RestInv
  <2>1. tpc[BootCPU] = "boot" /\ curthread[BootCPU] = BootCPU
    BY Kinds, SchedAssumption DEF Init, Idle
  <2> QED  BY <2>1 DEF AtRest
<1>2. SchedInv /\ SchedInv' /\ RestInv /\ [Next]_vars => RestInv'
  BY RestNext DEF SchedInv
<1>3. SchedInv /\ RestInv => NeverAllAtRest
  <2> SUFFICES ASSUME SchedInv, RestInv, NEW t \in Threads, ~InQueue(t)
               PROVE  Queued(t) = 0
    BY DEF RestInv, NeverAllAtRest
  <2>1. LocInv /\ t \in AllThreads
    BY Kinds DEF SchedInv
  <2> QED  BY <2>1, Counts
<1> QED  BY <1>1, <1>2, <1>3, SchedInvariant, PTL DEF Spec
=============================================================================
