------------------------------ MODULE MdxSched ------------------------------
(***************************************************************************)
(* The SMP scheduler of mdepx with the exception handler that drives it    *)
(* (kernel/sched/mdx_sched.c, arch/riscv/riscv/trap.c), threads            *)
(* (kernel/thread), sleeping (mdx_tsleep.c), one semaphore (mdx_sem.c) and *)
(* the mutex built on it (mdx_mutex.c).                                    *)
(*                                                                         *)
(* A CPU either runs the code of its current thread or, with interrupts    *)
(* disabled, the exception handler.  The code between sched_lock and       *)
(* sched_unlock is one step, as nothing else is done under that lock; the  *)
(* lock of the semaphore and the locks of the callout queues are held      *)
(* across steps, and a CPU that spins on one takes no step.                *)
(*                                                                         *)
(* Callouts (module MdxCallout) appear here as the set of those pending;   *)
(* a callout of a queue may be due whenever its CPU takes a timer          *)
(* interrupt, and the timer of a CPU stays armed when a callout is         *)
(* cancelled.  The idle thread of CPU c is called c.                       *)
(***************************************************************************)
EXTENDS Integers, Sequences, FiniteSets, SequencesExt

CONSTANTS
  CPUs,        \* the harts
  BootCPU,     \* the one with cpuid 0
  Threads,     \* struct thread objects, idle threads not included
  Main,        \* the main thread
  NULL,
  NPrio,       \* MDX_SCHED_NPRIO
  Prio,        \* td_prio of every thread
  Preemptive,  \* the threads with a quantum; the others are cooperative
  Ops,         \* the operations the threads use
  Mutex,       \* is the semaphore the one of a mutex?
  InitCount,   \* the count given to mdx_sem_init
  MaxIssued    \* bound: permits ever given to a semaphore that is no mutex

AllOps == {"wait", "timedwait", "shortwait", "trywait", "post", "sleep",
           "yield", "yield_any", "exit", "create"}

ASSUME SchedAssumption ==
  /\ IsFiniteSet(CPUs) /\ IsFiniteSet(Threads)
  /\ BootCPU \in CPUs
  /\ Main \in Threads
  /\ CPUs \cap Threads = {}
  /\ NULL \notin CPUs \cup Threads
  /\ NPrio \in Nat /\ NPrio > 1
  /\ Prio \in [Threads -> 1 .. NPrio - 1]
  /\ Preemptive \subseteq Threads
  /\ Ops \subseteq AllOps
  /\ Mutex \in BOOLEAN
  /\ InitCount \in Nat /\ (Mutex => InitCount = 1)
  /\ MaxIssued \in Nat /\ InitCount <= MaxIssued

VARIABLES
  runq,          \* runq[prio], ready threads in FIFO order
  pcpu_list,     \* CPUs that run an idle thread
  pending_ipis,  \* CPUs with a pending IPI_IPI
  td_state,      \* td->td_state
  alive,         \* threads created and not freed
  curthread,     \* thread that CPU c runs or has interrupted, NULL if released
  stale,         \* freed thread that curthread of CPU c still points to
  hpc,           \* where the exception handler of CPU c is
  cbtd,          \* td of the mdx_sem_cb that CPU c runs
  tpc,           \* where the code of thread t is
  callouts,      \* pending callouts: [td, kind, cpu]
  td_c_cpu,      \* td->td_c.cpuid
  armed,         \* CPUs whose timer is programmed
  sem_count,     \* sem->sem_count
  td_list,       \* sem->td_list
  sem_lock,      \* holder of sem->l
  usec,          \* argument usec of mdx_sem_timedwait
  timeout,       \* t.timeout of mdx_sem_timedwait
  target,        \* local variable td of mdx_sem_post
  m_td,          \* m->td of the mutex
  holding,       \* history: permits that thread t has got and not given back
  issued         \* history: permits in circulation

schedVars == <<runq, pcpu_list, pending_ipis>>
threadVars == <<td_state, alive>>
cpuVars == <<curthread, stale, hpc, cbtd>>
calloutVars == <<callouts, td_c_cpu, armed>>
semVars == <<sem_count, td_list, sem_lock>>
localVars == <<usec, timeout, target>>
permitVars == <<m_td, holding, issued>>
vars == <<schedVars, threadVars, cpuVars, tpc, calloutVars, semVars,
          localVars, permitVars>>

AllThreads == Threads \cup CPUs
Idle(t) == t \in CPUs
PrioOf(t) == IF Idle(t) THEN 0 ELSE Prio[t]

-----------------------------------------------------------------------------
(***************************************************************************)
(* Helpers of the code.                                                    *)
(***************************************************************************)

\* IPI_IPI is set in, or cleared from, pc_pending_ipis.
send_ipi(c) == pending_ipis \cup {c}
ipi_handler(c) == pending_ipis \ {c}

\* mdx_sched_add: append to the run queue and wake a CPU that is idle.
mdx_sched_add(t) ==
  /\ runq' = [runq EXCEPT ![PrioOf(t)] = Append(@, t)]
  /\ pending_ipis' = IF Idle(t) \/ pcpu_list = <<>> THEN pending_ipis
                     ELSE send_ipi(Head(pcpu_list))

\* Mutant: an exception leaves the CPU on the list of available ones.
cpu_avail_keep(c, available) ==
  pcpu_list' = IF available THEN Append(pcpu_list, c) ELSE pcpu_list

mdx_sched_cpu_avail(c, available) ==
  pcpu_list' = IF available THEN Append(pcpu_list, c)
               ELSE RemoveFirst(pcpu_list, c)

\* Mutant: the lowest priority comes first.
TopPrio_low == CHOOSE p \in 0 .. NPrio - 1 :
                 /\ runq[p] # <<>>
                 /\ \A q \in 0 .. p - 1 : runq[q] = <<>>

\* The highest priority with a ready thread.
TopPrio == CHOOSE p \in 0 .. NPrio - 1 :
             /\ runq[p] # <<>>
             /\ \A q \in p + 1 .. NPrio - 1 : runq[q] = <<>>

\* The callbacks run under the lock of their CPU's callout queue.
CalloutLocked(c) == hpc[c] \in {"callback", "sem_cb"}

\* td->td_c pending (mdx_tsleep uses a callout of its own).
Deadlines(t) == {k \in callouts : k.td = t /\ k.kind # "sleep"}

Callout(t, kind, c) == [td |-> t, kind |-> kind, cpu |-> c]

\* Mutant: the queue is searched but nothing is cancelled.
cancel_deadline_no(t) == ~CalloutLocked(td_c_cpu[t]) /\ UNCHANGED callouts

\* mdx_callout_cancel(&td->td_c) under the lock of the queue td_c was set on.
cancel_deadline(t) ==
  /\ ~CalloutLocked(td_c_cpu[t])
  /\ callouts' = callouts \ Deadlines(t)

\* Mutant: a thread that is switched to gets no quantum.
start_quantum_never(c, t) == UNCHANGED calloutVars

\* mdx_callout_init and mdx_callout_set_ticks(&td->td_c, td->td_quantum).
start_quantum(c, t) ==
  IF t \in Preemptive
  THEN /\ callouts' = callouts \cup {Callout(t, "quantum", c)}
       /\ td_c_cpu' = [td_c_cpu EXCEPT ![t] = c]
       /\ armed' = armed \cup {c}
  ELSE UNCHANGED calloutVars

\* Mutant: the quantum is still running when the timeout is set.
set_timeout_keep(c, t) ==
  /\ ~CalloutLocked(td_c_cpu[t])
  /\ callouts' = callouts \cup {Callout(t, "sem", c)}
  /\ td_c_cpu' = [td_c_cpu EXCEPT ![t] = c]
  /\ armed' = armed \cup {c}

\* Mutant: the timeout is set first and cancelled together with the quantum.
set_timeout_swapped(c, t) ==
  /\ cancel_deadline(t)
  /\ td_c_cpu' = [td_c_cpu EXCEPT ![t] = c]
  /\ armed' = armed \cup {c}

\* In mdx_sem_timedwait: cancel the quantum and, if a time is given that is
\* not less than a tick, set the timeout on the same td_c.
set_timeout(c, t) ==
  /\ ~CalloutLocked(td_c_cpu[t])
  /\ IF usec[t] = "timedwait"
     THEN /\ callouts' = (callouts \ Deadlines(t)) \cup {Callout(t, "sem", c)}
          /\ td_c_cpu' = [td_c_cpu EXCEPT ![t] = c]
          /\ armed' = armed \cup {c}
     ELSE callouts' = callouts \ Deadlines(t) /\ UNCHANGED <<td_c_cpu, armed>>

\* mdx_callout_callback ends: the timer is programmed again or stopped.
callback_end(c) ==
  armed' = IF hpc[c] = "callback" /\ \A k \in callouts : k.cpu # c
           THEN armed \ {c} ELSE armed

\* Thread code runs: t is the current thread of c, at label l.
At(c, t, l) == hpc[c] = "none" /\ curthread[c] = t /\ tpc[t] = l

Goto(t, l) == tpc' = [tpc EXCEPT ![t] = l]
HGoto(c, l) == hpc' = [hpc EXCEPT ![c] = l]

\* Labels of thread code that runs with interrupts enabled.
Interruptible ==
  {"boot", "idle", "user", "wait_yield", "wait_ret", "own", "sleep_yield",
   "yield", "exit_yield"}

\* Labels at md_thread_yield, and where the thread goes on after it.
AfterYield(l) ==
  CASE l = "boot" -> "idle"
    [] l = "wait_yield" -> "wait_ret"
    [] l \in {"sleep_yield", "yield"} -> "user"
    [] l = "exit_yield" -> "not_reached"

Yielding == {"boot", "wait_yield", "sleep_yield", "yield", "exit_yield"}

\* A permit has been got: mdx_mutex_lock goes on to record the owner.
Acquired(t) ==
  /\ holding' = [holding EXCEPT ![t] = @ + 1]
  /\ Goto(t, IF Mutex THEN "own" ELSE "user")

\* A permit is given: one the thread holds, or a new one.
Released(t) ==
  IF holding[t] > 0
  THEN holding' = [holding EXCEPT ![t] = @ - 1] /\ UNCHANGED issued
  ELSE issued' = issued + 1 /\ UNCHANGED holding

\* Mutant: a thread that waits for a semaphore is not acknowledged.
mdx_sched_ack_nosem(c, t) ==
  /\ td_state' = IF td_state[t] = "SLEEPING" THEN [td_state EXCEPT ![t] = "ACK"]
                 ELSE td_state
  /\ curthread' = IF td_state[t] = "SLEEPING" THEN [curthread EXCEPT ![c] = NULL]
                  ELSE curthread
  /\ UNCHANGED <<alive, stale>>

\* Mutant: mdx_sched_ack changes the state but keeps the thread on the CPU.
mdx_sched_ack_keep(c, t) ==
  /\ td_state' = IF td_state[t] \in {"SEM_WAIT", "SLEEPING"}
                 THEN [td_state EXCEPT ![t] = "ACK"] ELSE td_state
  /\ UNCHANGED <<alive, curthread, stale>>

\* The threads left when the struct thread of t is freed.
mdx_thread_terminate_cleanup(t) == alive \ {t}

\* mdx_sched_ack: a thread that went to sleep or has finished leaves its CPU.
\* One that has finished is freed while it is still the CPU's curthread.
mdx_sched_ack(c, t) ==
  LET gone == td_state[t] = "TERMINATING"
      sleeps == td_state[t] \in {"SEM_WAIT", "SLEEPING"}
  IN  /\ alive' = IF gone THEN mdx_thread_terminate_cleanup(t) ELSE alive
      /\ td_state' = IF sleeps THEN [td_state EXCEPT ![t] = "ACK"] ELSE td_state
      /\ curthread' = IF gone \/ sleeps THEN [curthread EXCEPT ![c] = NULL]
                      ELSE curthread
      /\ stale' = IF gone THEN [stale EXCEPT ![c] = t] ELSE stale

\* After boot every CPU runs its idle thread, about to enter the scheduler;
\* the secondary CPUs have made themselves available in any order.
Init ==
  /\ runq = [p \in 0 .. NPrio - 1 |-> IF p = Prio[Main] THEN <<Main>> ELSE <<>>]
  /\ pcpu_list \in SetToSeqs(CPUs \ {BootCPU})
  /\ pending_ipis \in {{}} \cup {{c} : c \in {pcpu_list[1] : i \in DOMAIN pcpu_list}}
  /\ td_state = [t \in AllThreads |-> "READY"]
  /\ alive = {Main}
  /\ curthread = [c \in CPUs |-> c]
  /\ stale = [c \in CPUs |-> NULL]
  /\ hpc = [c \in CPUs |-> "none"]
  /\ cbtd = [c \in CPUs |-> NULL]
  /\ tpc = [t \in AllThreads |-> IF Idle(t) THEN "boot" ELSE "user"]
  /\ callouts = {}
  /\ td_c_cpu = [t \in Threads |-> BootCPU]
  /\ armed = {}
  /\ sem_count = InitCount
  /\ td_list = <<>>
  /\ sem_lock = NULL
  /\ usec = [t \in Threads |-> "none"]
  /\ timeout = [t \in Threads |-> FALSE]
  /\ target = [t \in Threads |-> NULL]
  /\ m_td = NULL
  /\ holding = [t \in Threads |-> 0]
  /\ issued = InitCount

-----------------------------------------------------------------------------
(***************************************************************************)
(* riscv_exception: entered by the ecall of md_thread_yield, or by an      *)
(* interrupt of thread code that is not in a critical section.             *)
(***************************************************************************)
exception(c, why) ==
  LET t == curthread[c]
  IN  /\ hpc[c] = "none"
      /\ \/ why = "ecall" /\ tpc[t] \in Yielding /\ Goto(t, AfterYield(tpc[t]))
         \/ /\ tpc[t] \in Interruptible
            /\ \/ why = "timer" /\ c \in armed
               \/ why = "ipi" /\ c \in pending_ipis
            /\ UNCHANGED tpc
      /\ IF Idle(t) THEN mdx_sched_cpu_avail(c, FALSE) ELSE UNCHANGED pcpu_list
      /\ mdx_sched_ack(c, t)
      /\ pending_ipis' = IF why = "ipi" THEN ipi_handler(c) ELSE pending_ipis
      /\ HGoto(c, IF why = "timer" THEN "callback" ELSE "park")
      /\ UNCHANGED <<runq, cbtd, calloutVars, semVars, localVars, permitVars>>

\* curthread becomes the interrupt thread of the CPU.  Nothing looks at
\* curthread between mdx_sched_ack and here, so for a thread that sleeps this
\* is one step with mdx_sched_ack; a freed one may have been created again.
switch_intr_thread(c) ==
  /\ stale[c] # NULL
  /\ stale' = [stale EXCEPT ![c] = NULL]
  /\ UNCHANGED <<schedVars, threadVars, curthread, hpc, cbtd, tpc, calloutVars,
                 semVars, localVars, permitVars>>

\* The quantum of t is exhausted.
mdx_sched_cb(t) == td_state' = [td_state EXCEPT ![t] = "READY"]

\* The sleep of t is over; its state stays ACK until it runs.
mdx_tsleep_cb(t) == mdx_sched_add(t)

\* mdx_callout_callback finds a callout of this CPU due and calls it.
callout_fire(c, k) ==
  /\ hpc[c] = "callback" /\ stale[c] = NULL
  /\ k \in callouts /\ k.cpu = c
  /\ callouts' = callouts \ {k}
  /\ \/ /\ k.kind = "quantum"
        /\ mdx_sched_cb(k.td)
        /\ UNCHANGED <<runq, pending_ipis, hpc, cbtd>>
     \/ /\ k.kind = "sleep"
        /\ mdx_tsleep_cb(k.td)
        /\ UNCHANGED <<td_state, hpc, cbtd>>
     \/ /\ k.kind = "sem"
        /\ cbtd' = [cbtd EXCEPT ![c] = k.td]
        /\ HGoto(c, "sem_cb")
        /\ UNCHANGED <<runq, pending_ipis, td_state>>
  /\ UNCHANGED <<pcpu_list, alive, curthread, stale, tpc, td_c_cpu, armed, semVars,
                 localVars, permitVars>>

\* What mdx_sem_cb does to a waiter: time it out and make it ready.
sem_cb_wake(t, list) ==
  /\ timeout' = [timeout EXCEPT ![t] = TRUE]
  /\ td_list' = list
  /\ td_state' = [td_state EXCEPT ![t] = "WAKEUP"]
  /\ mdx_sched_add(t)

SemCbDone(c) ==
  /\ cbtd' = [cbtd EXCEPT ![c] = NULL]
  /\ HGoto(c, "callback")
  /\ UNCHANGED <<pcpu_list, alive, curthread, stale, tpc, calloutVars,
                 sem_count, sem_lock, usec, target, permitVars>>

\* Mutant: the check for a mdx_sem_post that came first is missing.
mdx_sem_cb_nocheck(c) ==
  /\ hpc[c] = "sem_cb"
  /\ sem_lock = NULL
  /\ sem_cb_wake(cbtd[c], RemoveFirst(td_list, cbtd[c]))
  /\ SemCbDone(c)

\* The timeout of a semaphore wait, once the lock of the semaphore is free.
mdx_sem_cb(c) ==
  LET t == cbtd[c]
  IN  /\ hpc[c] = "sem_cb"
      /\ sem_lock = NULL
      /\ \/ /\ td_state[t] = "SEM_UNLOCK"
            /\ td_state' = [td_state EXCEPT ![t] = "SEM_UNLOCK_ACK"]
            /\ UNCHANGED <<timeout, td_list, runq, pending_ipis>>
         \/ /\ td_state[t] # "SEM_UNLOCK"
            /\ sem_cb_wake(t, RemoveFirst(td_list, t))
      /\ SemCbDone(c)

\* Keep the thread, or put it back on the run queue.
mdx_sched_park(c) ==
  LET t == curthread[c]
  IN  /\ hpc[c] \in {"callback", "park"} /\ stale[c] = NULL
      /\ \/ /\ t = NULL
            /\ HGoto(c, "next")
            /\ UNCHANGED <<runq, pending_ipis, curthread>>
         \/ /\ t # NULL /\ td_state[t] = "RUNNING"
            /\ HGoto(c, "none")
            /\ UNCHANGED <<runq, pending_ipis, curthread>>
         \/ /\ t # NULL /\ td_state[t] \in {"YIELDING", "READY"}
            /\ mdx_sched_add(t)
            /\ curthread' = [curthread EXCEPT ![c] = NULL]
            /\ HGoto(c, "next")
      /\ callback_end(c)
      /\ UNCHANGED <<pcpu_list, threadVars, stale, cbtd, tpc, callouts, td_c_cpu,
                     semVars, localVars, permitVars>>

\* Pick the next thread, start its quantum and leave the handler.
mdx_sched_next(c) ==
  LET t == Head(runq[TopPrio])
  IN  /\ hpc[c] = "next"
      /\ runq' = [runq EXCEPT ![TopPrio] = Tail(@)]
      /\ IF Idle(t) THEN mdx_sched_cpu_avail(c, TRUE) ELSE UNCHANGED pcpu_list
      /\ curthread' = [curthread EXCEPT ![c] = t]
      /\ td_state' = IF Idle(t) THEN td_state
                     ELSE [td_state EXCEPT ![t] = "RUNNING"]
      /\ start_quantum(c, t)
      /\ HGoto(c, "none")
      /\ UNCHANGED <<pending_ipis, alive, stale, cbtd, tpc, semVars, localVars,
                     permitVars>>

-----------------------------------------------------------------------------
(***************************************************************************)
(* mdx_sem_timedwait (mdx_sem_wait passes 0), mdx_mutex_timedlock and      *)
(* mdx_mutex_lock.  A "short" wait is one whose time is less than a tick.  *)
(***************************************************************************)
wait_call(c, t) ==
  /\ At(c, t, "user")
  /\ Mutex => holding[t] = 0
  /\ \E u \in {"wait", "timedwait", "shortwait"} \cap Ops :
       usec' = [usec EXCEPT ![t] = u]
  /\ Goto(t, "wait_lock")
  /\ UNCHANGED <<schedVars, threadVars, cpuVars, calloutVars, semVars, timeout,
                 target, permitVars>>

\* Mutant: the semaphore is unlocked between the test and the wait.
wait_lock_drop(c, t) ==
  /\ At(c, t, "wait_lock")
  /\ sem_lock = NULL
  /\ IF sem_count > 0
     THEN sem_count' = sem_count - 1 /\ Acquired(t)
     ELSE Goto(t, "wait_block") /\ UNCHANGED <<sem_count, holding>>
  /\ UNCHANGED <<schedVars, threadVars, cpuVars, calloutVars, td_list, sem_lock,
                 localVars, m_td, issued>>

wait_lock(c, t) ==
  /\ At(c, t, "wait_lock")
  /\ sem_lock = NULL
  /\ IF sem_count > 0
     THEN /\ sem_count' = sem_count - 1
          /\ Acquired(t)
          /\ UNCHANGED sem_lock
     ELSE /\ sem_lock' = t
          /\ Goto(t, "wait_block")
          /\ UNCHANGED <<sem_count, holding>>
  /\ UNCHANGED <<schedVars, threadVars, cpuVars, calloutVars, td_list,
                 localVars, m_td, issued>>

\* Replace the quantum by the timeout, join the list and unlock.
wait_block(c, t) ==
  /\ At(c, t, "wait_block")
  /\ set_timeout(c, t)
  /\ timeout' = [timeout EXCEPT ![t] = FALSE]
  /\ td_state' = [td_state EXCEPT ![t] = "SEM_WAIT"]
  /\ td_list' = Append(td_list, t)
  /\ sem_lock' = NULL
  /\ Goto(t, "wait_yield")
  /\ UNCHANGED <<schedVars, alive, cpuVars, sem_count, usec, target, permitVars>>

\* Mutant: the timeout is not reported to the caller.
wait_return_blind(c, t) ==
  /\ At(c, t, "wait_ret")
  /\ Acquired(t)
  /\ timeout' = [timeout EXCEPT ![t] = FALSE]
  /\ usec' = [usec EXCEPT ![t] = "none"]
  /\ UNCHANGED <<schedVars, threadVars, cpuVars, calloutVars, semVars, target,
                 m_td, issued>>

\* Back on a CPU: the wait has timed out or the permit has been handed over.
wait_return(c, t) ==
  /\ At(c, t, "wait_ret")
  /\ IF usec[t] # "wait" /\ timeout[t]
     THEN Goto(t, "user") /\ UNCHANGED holding
     ELSE Acquired(t)
  /\ timeout' = [timeout EXCEPT ![t] = FALSE]
  /\ usec' = [usec EXCEPT ![t] = "none"]
  /\ UNCHANGED <<schedVars, threadVars, cpuVars, calloutVars, semVars, target,
                 m_td, issued>>

\* mdx_mutex_lock and its variants: m->td = curthread.
mutex_own(c, t) ==
  /\ At(c, t, "own")
  /\ m_td' = t
  /\ Goto(t, "user")
  /\ UNCHANGED <<schedVars, threadVars, cpuVars, calloutVars, semVars,
                 localVars, holding, issued>>

mdx_sem_trywait(c, t) ==
  /\ At(c, t, "user")
  /\ "trywait" \in Ops
  /\ sem_lock = NULL
  /\ sem_count > 0
  /\ sem_count' = sem_count - 1
  /\ Acquired(t)
  /\ UNCHANGED <<schedVars, threadVars, cpuVars, calloutVars, td_list,
                 sem_lock, localVars, m_td, issued>>

(***************************************************************************)
(* mdx_sem_post and mdx_mutex_unlock.  Owners unlock their mutex once; a   *)
(* semaphore may be posted by any thread.                                  *)
(***************************************************************************)
post_call(c, t) ==
  /\ At(c, t, "user")
  /\ "post" \in Ops
  /\ holding[t] > 0 \/ (~Mutex /\ issued < MaxIssued)
  /\ Released(t)
  /\ Goto(t, "post_lock")
  /\ UNCHANGED <<schedVars, threadVars, cpuVars, calloutVars, semVars,
                 localVars, m_td>>

post_lock(c, t) ==
  /\ At(c, t, "post_lock")
  /\ sem_lock = NULL
  /\ IF td_list = <<>>
     THEN /\ sem_count' = sem_count + 1
          /\ Goto(t, "user")
          /\ UNCHANGED <<td_list, sem_lock, target>>
     ELSE /\ target' = [target EXCEPT ![t] = Head(td_list)]
          /\ td_list' = Tail(td_list)
          /\ sem_lock' = t
          /\ Goto(t, "post_spin")
          /\ UNCHANGED sem_count
  /\ UNCHANGED <<schedVars, threadVars, cpuVars, calloutVars, usec, timeout,
                 permitVars>>

\* Mutant: mdx_sem_post does not wait until the thread has left its CPU.
post_spin_nowait(c, t) ==
  /\ At(c, t, "post_spin")
  /\ td_state' = [td_state EXCEPT ![target[t]] = "SEM_UNLOCK"]
  /\ sem_lock' = NULL
  /\ Goto(t, "post_cancel")
  /\ UNCHANGED <<schedVars, alive, cpuVars, calloutVars, sem_count, td_list,
                 localVars, permitVars>>

\* Wait until the thread has left its CPU, then claim it and unlock.
post_spin(c, t) ==
  /\ At(c, t, "post_spin")
  /\ td_state[target[t]] = "ACK"
  /\ td_state' = [td_state EXCEPT ![target[t]] = "SEM_UNLOCK"]
  /\ sem_lock' = NULL
  /\ Goto(t, "post_cancel")
  /\ UNCHANGED <<schedVars, alive, cpuVars, calloutVars, sem_count, td_list,
                 localVars, permitVars>>

post_cancel(c, t) ==
  /\ At(c, t, "post_cancel")
  /\ cancel_deadline(target[t])
  /\ Goto(t, "post_add")
  /\ UNCHANGED <<schedVars, threadVars, cpuVars, td_c_cpu, armed, semVars,
                 localVars, permitVars>>

post_add(c, t) ==
  /\ At(c, t, "post_add")
  /\ td_state' = [td_state EXCEPT ![target[t]] = "WAKEUP"]
  /\ mdx_sched_add(target[t])
  /\ target' = [target EXCEPT ![t] = NULL]
  /\ Goto(t, "user")
  /\ UNCHANGED <<pcpu_list, alive, cpuVars, calloutVars, semVars, usec,
                 timeout, permitVars>>

-----------------------------------------------------------------------------
(***************************************************************************)
(* Sleeping, yielding, ending and creating threads.                        *)
(***************************************************************************)
\* Mutant: mdx_tsleep leaves the quantum of the thread running.
mdx_tsleep_quantum(c, t) ==
  /\ At(c, t, "user")
  /\ "sleep" \in Ops
  /\ td_state' = [td_state EXCEPT ![t] = "SLEEPING"]
  /\ callouts' = callouts \cup {Callout(t, "sleep", c)}
  /\ armed' = armed \cup {c}
  /\ Goto(t, "sleep_yield")
  /\ UNCHANGED <<schedVars, alive, cpuVars, td_c_cpu, semVars, localVars,
                 permitVars>>

mdx_tsleep(c, t) ==
  /\ At(c, t, "user")
  /\ "sleep" \in Ops
  /\ ~CalloutLocked(td_c_cpu[t])
  /\ td_state' = [td_state EXCEPT ![t] = "SLEEPING"]
  /\ callouts' = (callouts \ Deadlines(t)) \cup {Callout(t, "sleep", c)}
  /\ armed' = armed \cup {c}
  /\ Goto(t, "sleep_yield")
  /\ UNCHANGED <<schedVars, alive, cpuVars, td_c_cpu, semVars, localVars,
                 permitVars>>

mdx_thread_terminate(c, t) ==
  /\ At(c, t, "user")
  /\ "exit" \in Ops
  /\ holding[t] = 0
  /\ td_state' = [td_state EXCEPT ![t] = "TERMINATING"]
  /\ cancel_deadline(t)
  /\ Goto(t, "exit_yield")
  /\ UNCHANGED <<schedVars, alive, cpuVars, td_c_cpu, armed, semVars, localVars,
                 permitVars>>

\* Cooperative threads yield; "yield_any" is for the others as well.
mdx_thread_yield(c, t) ==
  /\ At(c, t, "user")
  /\ "yield_any" \in Ops \/ ("yield" \in Ops /\ t \notin Preemptive)
  /\ td_state' = [td_state EXCEPT ![t] = "YIELDING"]
  /\ Goto(t, "yield")
  /\ UNCHANGED <<schedVars, alive, cpuVars, calloutVars, semVars, localVars,
                 permitVars>>

\* A zeroed struct thread gets its first state and frame.
mdx_thread_setup(n) ==
  /\ td_state' = [td_state EXCEPT ![n] = "READY"]
  /\ td_c_cpu' = [td_c_cpu EXCEPT ![n] = BootCPU]
  /\ Goto(n, "user")

\* mdx_thread_create and mdx_sched_add.
mdx_thread_create(c, t, n) ==
  /\ At(c, t, "user")
  /\ "create" \in Ops
  /\ n \in Threads \ alive
  /\ alive' = alive \cup {n}
  /\ mdx_thread_setup(n)
  /\ mdx_sched_add(n)
  /\ UNCHANGED <<pcpu_list, cpuVars, callouts, armed, semVars, localVars,
                 permitVars>>

-----------------------------------------------------------------------------
HandlerStep(c) ==
  \/ switch_intr_thread(c)
  \/ mdx_sem_cb(c) \/ mdx_sched_park(c) \/ mdx_sched_next(c)
  \/ \E k \in callouts : callout_fire(c, k)

\* Steps of thread code that has begun an operation.
OpStep(c, t) ==
  \/ wait_lock(c, t) \/ wait_block(c, t) \/ wait_return(c, t)
  \/ mutex_own(c, t) \/ post_lock(c, t) \/ post_spin(c, t)
  \/ post_cancel(c, t) \/ post_add(c, t)

CallStep(c, t) ==
  \/ wait_call(c, t) \/ mdx_sem_trywait(c, t) \/ post_call(c, t)
  \/ mdx_tsleep(c, t) \/ mdx_thread_terminate(c, t) \/ mdx_thread_yield(c, t)
  \/ \E n \in Threads : mdx_thread_create(c, t, n)

Next ==
  \/ \E c \in CPUs, why \in {"ecall", "timer", "ipi"} : exception(c, why)
  \/ \E c \in CPUs : HandlerStep(c)
  \/ \E c \in CPUs, t \in Threads : OpStep(c, t) \/ CallStep(c, t)

Spec == Init /\ [][Next]_vars

(***************************************************************************)
(* The handler and an operation that has begun go on; a thread reaches its *)
(* ecall although interrupts come first; interrupts that are raised are    *)
(* taken; every callout set is due some time, when its CPU takes a timer   *)
(* interrupt; a CPU that spins on a lock gets it in the end.               *)
(***************************************************************************)
Fairness ==
  /\ \A c \in CPUs :
       /\ WF_vars(HandlerStep(c))
       /\ SF_vars(mdx_sem_cb(c))
       /\ \A why \in {"timer", "ipi"} : SF_vars(exception(c, why))
  /\ \A c \in CPUs, t \in AllThreads :
       SF_vars(curthread[c] = t /\ exception(c, "ecall"))
  /\ \A c \in CPUs, t \in Threads :
       /\ SF_vars(OpStep(c, t))
       /\ SF_vars(\E k \in callouts : k.td = t /\ callout_fire(c, k))

FairSpec == Spec /\ Fairness

-----------------------------------------------------------------------------
(***************************************************************************)
(* Properties.                                                             *)
(***************************************************************************)

States == {"READY", "RUNNING", "SLEEPING", "WAKEUP", "TERMINATING", "ACK",
           "SEM_WAIT", "SEM_UNLOCK", "SEM_UNLOCK_ACK", "YIELDING"}

\* Every variable has its type.
TypeOK ==
  /\ runq \in [0 .. NPrio - 1 -> Seq(AllThreads)]
  /\ pcpu_list \in Seq(CPUs)
  /\ pending_ipis \subseteq CPUs
  /\ td_state \in [AllThreads -> States]
  /\ alive \subseteq Threads
  /\ curthread \in [CPUs -> AllThreads \cup {NULL}]
  /\ stale \in [CPUs -> Threads \cup {NULL}]
  /\ hpc \in [CPUs -> {"none", "callback", "sem_cb", "park", "next"}]
  /\ cbtd \in [CPUs -> Threads \cup {NULL}]
  /\ callouts \subseteq
       [td : Threads, kind : {"quantum", "sem", "sleep"}, cpu : CPUs]
  /\ td_c_cpu \in [Threads -> CPUs]
  /\ armed \subseteq CPUs
  /\ sem_count \in 0 .. MaxIssued
  /\ td_list \in Seq(Threads)
  /\ sem_lock \in Threads \cup {NULL}
  /\ target \in [Threads -> Threads \cup {NULL}]
  /\ m_td \in Threads \cup {NULL}
  /\ holding \in [Threads -> 0 .. MaxIssued]
  /\ issued \in InitCount .. MaxIssued

Occurrences(s, t) == Cardinality({i \in DOMAIN s : s[i] = t})
OnCPU(t) == Cardinality({c \in CPUs : curthread[c] = t})
Queued(t) == Occurrences(runq[PrioOf(t)], t)

\* How often t waits: on the semaphore, for the post that has claimed it, or
\* for the callout of mdx_tsleep.
Held(t) ==
  Occurrences(td_list, t) + Cardinality({u \in Threads : target[u] = t})
    + Cardinality({k \in callouts : k.td = t /\ k.kind = "sleep"})

\* With the types: a thread is in one place.  It runs on one CPU, or it is on the run queue
\* once, or it waits for one thing; only between deciding to wait and
\* mdx_sched_ack may it be on a CPU and on a list, and then its state says so.
\* No CPU ever picks up a thread whose registers another CPU still holds.
OnePlace ==
  /\ TypeOK
  /\ \A t \in alive \cup CPUs :
       IF OnCPU(t) = 0 THEN Queued(t) + Held(t) = 1
       ELSE /\ OnCPU(t) = 1 /\ Queued(t) = 0
            /\ \/ Held(t) = 0
               \/ Held(t) = 1 /\ td_state[t] \in {"SEM_WAIT", "SLEEPING"}

\* A thread freed by mdx_thread_terminate_cleanup is on no CPU, on no list,
\* and no callout or callback points to it: all that is left of it is the
\* curthread of the CPU that freed it, and that CPU serves no interrupt and
\* picks no thread before it has replaced it.
FreedIsGone ==
  /\ \A t \in Threads \ alive :
       /\ OnCPU(t) + Queued(t) + Held(t) = 0
       /\ \A k \in callouts : k.td # t
       /\ \A c \in CPUs : cbtd[c] # t
  /\ \A c \in CPUs : stale[c] # NULL =>
       curthread[c] = NULL /\ cbtd[c] = NULL /\ hpc[c] \in {"callback", "park"}

\* None of the assertions and panics of the scheduler, the semaphore and the
\* mutex can trigger, and td_c is never initialised while it is pending.
NoPanic ==
  /\ \A c \in CPUs :
       /\ hpc[c] = "callback" =>
            \A k \in callouts : k.cpu = c =>
              /\ k.kind = "quantum" => td_state[k.td] = "RUNNING"
              /\ k.kind = "sleep" => td_state[k.td] = "ACK"
       /\ hpc[c] = "sem_cb" /\ sem_lock = NULL =>
            td_state[cbtd[c]] \in {"ACK", "SEM_UNLOCK"}
       /\ hpc[c] \in {"callback", "park"} /\ curthread[c] # NULL =>
            td_state[curthread[c]] \in {"RUNNING", "YIELDING", "READY"}
       /\ hpc[c] = "next" =>
            /\ \E p \in 0 .. NPrio - 1 : runq[p] # <<>>
            /\ Deadlines(Head(runq[TopPrio])) = {}
  /\ \A t \in Threads :
       /\ tpc[t] = "post_add" =>
            td_state[target[t]] \in {"SEM_UNLOCK", "SEM_UNLOCK_ACK"}
       /\ Mutex /\ tpc[t] = "user" /\ holding[t] > 0 => m_td = t

\* Threads on their way out of mdx_sem_timedwait with a permit that has been
\* handed over to them, and threads on their way into mdx_sem_post.
Handed == {t \in Threads : /\ tpc[t] \in {"wait_yield", "wait_ret"}
                           /\ ~timeout[t]
                           /\ Occurrences(td_list, t) = 0}
Giving == {t \in Threads : tpc[t] = "post_lock"}
Permits == sem_count + Cardinality(Handed) + Cardinality(Giving)

\* The permits that threads hold: <<t, i>> is the i-th of thread t.
HeldPermits == {h \in Threads \X (1 .. MaxIssued) : h[2] <= holding[h[1]]}

\* Permits are neither lost nor doubled, whichever of mdx_sem_post and the
\* timeout reaches a waiter first: those in the count, those threads hold,
\* those on their way into mdx_sem_post and those handed over add up.
\* For a mutex this is mutual exclusion.
PermitsConserved == Permits + Cardinality(HeldPermits) = issued

\* The threads in mdx_sem_timedwait, and those that hold a permit.
Waiters ==
  {t \in Threads : tpc[t] \in {"wait_lock", "wait_block", "wait_yield", "wait_ret"}}
Holders == {t \in Threads : holding[t] > 0}

\* mdx_sem_wait, mdx_sem_timedwait, mdx_sem_trywait and mdx_sem_post
\* implement the semaphore of SemSpec: a wait that succeeds takes a permit
\* that nobody else takes, and one that times out takes none, on every path
\* through the handover from mdx_sem_post to a thread of another CPU.
Sem == INSTANCE SemSpec WITH
  Procs <- Threads, Count <- InitCount, value <- Permits,
  waiting <- Waiters, held <- Holders
Semaphore == Sem!Spec

\* The list of available CPUs tells the truth: a CPU is on it at most once, only
\* while it runs an idle thread outside the exception handler, and always once
\* that thread has reached its idle loop.
AvailHonest ==
  \A c \in CPUs :
    LET idle == hpc[c] = "none" /\ Idle(curthread[c])
    IN  /\ Occurrences(pcpu_list, c) <= 1
        /\ Occurrences(pcpu_list, c) = 1 => idle
        /\ idle /\ tpc[curthread[c]] = "idle" => Occurrences(pcpu_list, c) = 1

\* CPU c idles, and no IPI is on its way to it.
AtRest(c) ==
  hpc[c] = "none" /\ c \notin pending_ipis /\ tpc[curthread[c]] = "idle"

\* The system never goes to rest on a ready thread: the last CPU to idle has
\* looked at the run queue after every other CPU has left the code that
\* fills it.  One CPU may idle beside a ready thread while others run: two
\* threads made ready in a row wake the same CPU.
NeverAllAtRest ==
  (\A c \in CPUs : AtRest(c)) => \A t \in Threads : Queued(t) = 0

\* No CPU spins for ever.  The thread that holds the lock of the semaphore
\* does not wait for a callout queue whose callback waits for that lock, and
\* a post only waits for a thread that is free to trap into the handler.
NoSpinDeadlock ==
  \A t \in Threads : sem_lock = t =>
    /\ tpc[t] = "wait_block" => hpc[td_c_cpu[t]] # "sem_cb"
    /\ tpc[t] = "post_spin" /\ td_state[target[t]] # "ACK" =>
         \E c \in CPUs : At(c, target[t], "wait_yield")

\* A wait with a timeout ends, with or without the permit.
TimedWaitEnds ==
  \A t \in Threads :
    tpc[t] = "wait_yield" /\ usec[t] # "wait" ~> tpc[t] \in {"user", "own"}

\* Round robin: a preemptive thread on the run queue gets a CPU in the end.
ReadyRuns ==
  \A t \in Threads : Queued(t) > 0 ~> OnCPU(t) > 0
=============================================================================
