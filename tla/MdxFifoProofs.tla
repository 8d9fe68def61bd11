--------------------------- MODULE MdxFifoProofs ---------------------------
(***************************************************************************)
(* Proofs about the fifo: every entry has its permit, a thread with a      *)
(* permit finds an entry, and no entry is stranded while a thread waits.   *)
(*                                                                         *)
(* The invariant of the scheduler and the semaphore is kept by the steps   *)
(* of the fifo, although fifo_remove is not a step of theirs: it takes a   *)
(* permit out of circulation.  On top of it, FifoOf relates the place of a *)
(* thread in mdx_fifo.c to its place in mdx_sem.c and to the permits it    *)
(* holds, and NoneWaits says that no permit is in the count while a thread *)
(* waits.                                                                  *)
(***************************************************************************)
EXTENDS MdxFifo, MdxSchedProofs

\* Labels of a thread in mdx_sem_wait.
SemWaitLabels == {"wait_lock", "wait_block", "wait_yield", "wait_ret"}

\* What thread t does in mdx_fifo.c and in mdx_sem.c, and the permit it has.
FifoOf(t) ==
  \/ fpc[t] = "out" /\ holding[t] = 0 /\ tpc[t] \notin SemWaitLabels
  \/ fpc[t] = "put" /\ holding[t] = 0 /\ tpc[t] = "user"
  \/ fpc[t] = "get" /\ holding[t] = 1 /\ tpc[t] = "user"
  \/ fpc[t] = "get" /\ holding[t] = 0 /\ tpc[t] \in SemWaitLabels /\ usec[t] = "wait"

\* No permit is in the count when a thread waits or is about to.
NoneWaits ==
  td_list # <<>> \/ (\E t \in Threads : tpc[t] = "wait_block") => sem_count = 0

Putting == {t \in Threads : fpc[t] = "put"}

\* The list and the number of its entries.
FifoList ==
  /\ list \in Seq(Entries) /\ Once(list)
  /\ fpc \in [Threads -> {"out", "put", "get"}]
  /\ Len(list) = issued + Cardinality(Putting)

\* The inductive invariant.
FifoInv ==
  /\ LocInv /\ PermitInv
  /\ \A t \in Threads : FifoOf(t)
  /\ NoneWaits /\ FifoList

-----------------------------------------------------------------------------
(***************************************************************************)
(* The places of threads.                                                  *)
(***************************************************************************)

\* Steps of the exception handler.
LEMMA FifoHandler ==
  ASSUME LocInv, \A t \in Threads : FifoOf(t), NoneWaits, NEW c \in CPUs,
         \/ HandlerStep(c)
         \/ \E why \in {"ecall", "timer", "ipi"} : exception(c, why),
         UNCHANGED fifoVars
  PROVE  (\A t \in Threads : FifoOf(t)') /\ NoneWaits'
<1>1. /\ sem_count' = sem_count /\ holding' = holding /\ Waiters' = Waiters
      /\ fpc' = fpc
  BY HandlerPermits DEF SamePermits, fifoVars
<1>2. usec' = usec
  BY DEF HandlerStep, mdx_sem_cb, SemCbDone, sem_cb_wake, mdx_sched_park, mdx_sched_next,
         callout_fire, switch_intr_thread, exception, localVars
<1>3. ASSUME NEW t \in Threads
      PROVE  /\ tpc[t] = "user" => tpc'[t] = "user"
             /\ tpc'[t] = "wait_block" <=> tpc[t] = "wait_block"
  <2>1. CASE HandlerStep(c)
    BY <2>1 DEF HandlerStep, mdx_sem_cb, SemCbDone, sem_cb_wake, mdx_sched_park,
                mdx_sched_next, callout_fire, switch_intr_thread
  <2>2. ASSUME NEW why \in {"ecall", "timer", "ipi"}, exception(c, why)
        PROVE  /\ tpc[t] = "user" => tpc'[t] = "user"
               /\ tpc'[t] = "wait_block" <=> tpc[t] = "wait_block"
    <3>1. PICK u \in AllThreads : u = curthread[c]
      BY <2>2 DEF exception, LocInv, PlaceTypes, Handlers
    <3>2. \/ tpc' = tpc
          \/ tpc[u] \in Yielding /\ Goto(u, AfterYield(tpc[u]))
      BY <2>2, <3>1 DEF exception
    <3>3. tpc \in [AllThreads -> ThreadLabels \cup {"boot", "idle"}]
      BY DEF LocInv, PlaceTypes
    <3> QED  BY <3>2, <3>3, Kinds DEF Goto, Yielding, AfterYield
  <2> QED  BY <2>1, <2>2
<1>4. td_list' # <<>> => td_list # <<>>
  <2>1. CASE td_list' = td_list
    BY <2>1
  <2>2. CASE td_list' # td_list
    <3>1. mdx_sem_cb(c) /\ td_state[cbtd[c]] # "SEM_UNLOCK"
      BY <2>2 DEF HandlerStep, mdx_sem_cb, mdx_sched_park, mdx_sched_next, callout_fire,
                  switch_intr_thread, exception, semVars
    <3>2. PICK t \in Threads : t = cbtd[c]
      BY <3>1 DEF LocInv, PlaceTypes, Handlers, mdx_sem_cb
    <3>3. /\ sem_lock = NULL /\ Timed(t) /\ td_state[t] = "ACK"
      BY <3>1, <3>2 DEF LocInv, Pending, SemCbOf, mdx_sem_cb
    <3>4. Waits(t)
      BY <3>2, <3>3, Kinds DEF LocInv, Timed, Claiming, ClaimOf, Locking
    <3> QED  BY <3>4, EmptyList DEF Waits
  <2> QED  BY <2>1, <2>2
<1>5. NoneWaits'
  BY <1>1, <1>3, <1>4 DEF NoneWaits
<1>6. ASSUME NEW t \in Threads  PROVE FifoOf(t)'
  <2>1. tpc'[t] \in SemWaitLabels <=> tpc[t] \in SemWaitLabels
    BY <1>1 DEF Waiters, SemWaitLabels
  <2> QED  BY <1>1, <1>2, <1>3, <2>1 DEF FifoOf
<1> QED  BY <1>5, <1>6

\* Steps of an operation of the semaphore that has begun.
LEMMA FifoOp ==
  ASSUME LocInv, PermitInv, \A t \in Threads : FifoOf(t), NoneWaits,
         NEW c \in CPUs, NEW t \in Threads, OpStep(c, t), UNCHANGED fifoVars
  PROVE  /\ \A u \in Threads : FifoOf(u)'
         /\ NoneWaits'
         /\ issued' = issued
<1>0. /\ tpc \in [AllThreads -> ThreadLabels \cup {"boot", "idle"}] /\ t \in AllThreads
      /\ usec \in [Threads -> Times] /\ fpc' = fpc
      /\ holding \in [Threads -> 0 .. MaxIssued] /\ sem_count \in Nat
  BY Kinds, Bounds DEF LocInv, PlaceTypes, PermitInv, Numbers, fifoVars
<1>1. issued' = issued
  BY DEF OpStep, wait_lock, wait_block, wait_return, mutex_own, post_lock, post_spin,
         post_cancel, post_add, permitVars
<1>2. /\ \A u \in Threads : u # t => tpc'[u] = tpc[u] /\ usec'[u] = usec[u]
                                     /\ holding'[u] = holding[u]
      /\ \E m : Goto(t, m) /\ tpc'[t] = m
  BY <1>0, Kinds
     DEF OpStep, wait_lock, wait_block, wait_return, mutex_own, post_lock, post_spin,
         post_cancel, post_add, permitVars, localVars, Acquired, Goto
<1>3. ASSUME NEW u \in Threads, u # t  PROVE FifoOf(u)'
  BY <1>0, <1>2, <1>3 DEF FifoOf
<1>4. /\ tpc[t] = "wait_block" => sem_lock = t
      /\ \A u \in Threads : tpc[u] = "wait_block" => sem_lock = u
  BY DEF LocInv, Locking
<1>5. CASE wait_lock(c, t)
  <2>1. CASE sem_count > 0
    <3>1. /\ tpc[t] = "wait_lock" /\ tpc'[t] = "user" /\ holding'[t] = holding[t] + 1
          /\ td_list' = td_list
      BY <1>0, <1>5, <2>1, FifoAssumption DEF wait_lock, At, Acquired, Goto
    <3>2. FifoOf(t)'
      BY <1>0, <3>1 DEF FifoOf, SemWaitLabels
    <3>3. td_list = <<>> /\ ~\E u \in Threads : tpc[u] = "wait_block"
      BY <2>1 DEF NoneWaits
    <3>4. NoneWaits'
      BY <1>2, <3>1, <3>3 DEF NoneWaits
    <3> QED  BY <1>1, <1>3, <3>2, <3>4
  <2>2. CASE ~(sem_count > 0)
    <3>1. /\ tpc[t] = "wait_lock" /\ tpc'[t] = "wait_block" /\ holding' = holding
          /\ usec' = usec /\ sem_count' = sem_count
      BY <1>0, <1>5, <2>2 DEF wait_lock, At, Goto, localVars
    <3>2. FifoOf(t)'
      BY <1>0, <3>1 DEF FifoOf, SemWaitLabels
    <3>3. NoneWaits'
      BY <1>0, <2>2, <3>1 DEF NoneWaits
    <3> QED  BY <1>1, <1>3, <3>2, <3>3
  <2> QED  BY <2>1, <2>2
<1>6. CASE wait_block(c, t)
  <2>1. /\ tpc[t] = "wait_block" /\ tpc'[t] = "wait_yield" /\ holding' = holding
        /\ usec' = usec /\ sem_count' = sem_count
    BY <1>0, <1>6 DEF wait_block, At, Goto, permitVars
  <2>2. FifoOf(t)'
    BY <1>0, <2>1 DEF FifoOf, SemWaitLabels
  <2>3. NoneWaits'
    BY <2>1 DEF NoneWaits
  <2> QED  BY <1>1, <1>3, <2>2, <2>3
<1>7. CASE wait_return(c, t)
  <2>1. tpc[t] = "wait_ret" /\ fpc[t] = "get" /\ holding[t] = 0 /\ usec[t] = "wait"
    BY <1>7 DEF wait_return, At, FifoOf, SemWaitLabels
  <2>2. /\ tpc'[t] = "user" /\ holding'[t] = 1
        /\ td_list' = td_list /\ sem_count' = sem_count
    BY <1>0, <1>7, <2>1, FifoAssumption DEF wait_return, Acquired, Goto, semVars
  <2>3. FifoOf(t)'
    BY <1>0, <2>1, <2>2 DEF FifoOf
  <2>4. NoneWaits'
    BY <1>2, <2>1, <2>2 DEF NoneWaits
  <2> QED  BY <1>1, <1>3, <2>3, <2>4
<1>8. CASE mutex_own(c, t)
  BY <1>8, FifoAssumption DEF mutex_own, At, PermitInv, Owning
<1>9. CASE post_lock(c, t)
  <2>1. /\ tpc[t] = "post_lock" /\ tpc'[t] \in {"user", "post_spin"}
        /\ holding' = holding /\ usec' = usec /\ sem_lock = NULL
    BY <1>0, <1>9 DEF post_lock, At, Goto, permitVars
  <2>2. FifoOf(t)'
    BY <1>0, <2>1 DEF FifoOf, SemWaitLabels
  <2>3. \A u \in Threads : tpc'[u] # "wait_block"
    BY <1>2, <1>4, <2>1, Kinds
  <2>4. NoneWaits'
    BY <1>9, <2>3 DEF NoneWaits, post_lock
  <2> QED  BY <1>1, <1>3, <2>2, <2>4
<1>10. CASE post_spin(c, t) \/ post_cancel(c, t) \/ post_add(c, t)
  <2>1. /\ tpc[t] \in PostLabels /\ tpc'[t] \in PostLabels \cup {"user"}
        /\ holding' = holding /\ usec' = usec
        /\ td_list' = td_list /\ sem_count' = sem_count
    BY <1>0, <1>10 DEF post_spin, post_cancel, post_add, At, Goto, permitVars, localVars,
                       semVars, PostLabels
  <2>2. FifoOf(t)'
    BY <1>0, <2>1 DEF FifoOf, SemWaitLabels, PostLabels
  <2>3. NoneWaits'
    BY <1>2, <2>1 DEF NoneWaits, PostLabels
  <2> QED  BY <1>1, <1>3, <2>2, <2>3
<1> QED  BY <1>5, <1>6, <1>7, <1>8, <1>9, <1>10 DEF OpStep

\* A thread that is created begins in the code of the program.
LEMMA FifoCreate ==
  ASSUME LocInv, \A t \in Threads : FifoOf(t), NoneWaits,
         NEW c \in CPUs, NEW t \in Threads, NEW n \in Threads,
         mdx_thread_create(c, t, n), UNCHANGED fifoVars
  PROVE  /\ \A u \in Threads : FifoOf(u)'
         /\ NoneWaits'
         /\ issued' = issued
<1>1. /\ tpc[n] \in {"user", "exit_yield", "not_reached"} /\ tpc'[n] = "user"
      /\ \A u \in Threads : u # n => tpc'[u] = tpc[u]
  BY Kinds DEF LocInv, PlaceTypes, Ended, mdx_thread_create, mdx_thread_setup, Goto
<1>2. /\ sem_count' = sem_count /\ holding' = holding /\ td_list' = td_list
      /\ usec' = usec /\ issued' = issued /\ fpc' = fpc
  BY DEF mdx_thread_create, semVars, localVars, permitVars, fifoVars
<1>3. \A u \in Threads : FifoOf(u)'
  BY <1>1, <1>2 DEF FifoOf, SemWaitLabels
<1>4. NoneWaits'
  BY <1>1, <1>2 DEF NoneWaits
<1> QED  BY <1>2, <1>3, <1>4

-----------------------------------------------------------------------------
(***************************************************************************)
(* The calls of mdx_fifo.c.                                                *)
(***************************************************************************)

\* Threads that put an entry.
LEMMA PuttingSet ==
  /\ IsFiniteSet(Putting) /\ Cardinality(Putting) \in Nat
  /\ IsFiniteSet(Putting') /\ Cardinality(Putting') \in Nat
<1>1. Putting \in SUBSET Threads /\ Putting' \in SUBSET Threads
  BY DEF Putting
<1> QED  BY <1>1, SchedAssumption, FS_Subset, FS_CardinalityType

\* A thread goes from one place in mdx_fifo.c to another.
LEMMA StepPlace ==
  ASSUME FifoList, NEW t \in Threads, NEW from \in {"out", "put", "get"},
         NEW to \in {"out", "put", "get"}, from # to, Step(t, from, to)
  PROVE  /\ fpc' \in [Threads -> {"out", "put", "get"}]
         /\ fpc[t] = from /\ fpc'[t] = to
         /\ \A u \in Threads : u # t => fpc'[u] = fpc[u]
         /\ Cardinality(Putting') = Cardinality(Putting)
              + (IF to = "put" THEN 1 ELSE 0) - (IF from = "put" THEN 1 ELSE 0)
<1>1. /\ fpc' \in [Threads -> {"out", "put", "get"}]
      /\ fpc[t] = from /\ fpc'[t] = to
      /\ \A u \in Threads : u # t => fpc'[u] = fpc[u]
  BY DEF FifoList, Step
<1>2. CASE to = "put"
  <2>1. Putting' = Putting \cup {t} /\ t \notin Putting
    BY <1>1, <1>2 DEF Putting
  <2>2. Cardinality(Putting \cup {t}) = Cardinality(Putting) + 1
    BY <2>1, PuttingSet, FS_AddElement
  <2> QED  BY <1>1, <1>2, <2>1, <2>2, PuttingSet
<1>3. CASE from = "put"
  <2>1. Putting' = Putting \ {t} /\ t \in Putting
    BY <1>1, <1>3 DEF Putting
  <2>2. Cardinality(Putting \ {t}) = Cardinality(Putting) - 1
    BY <2>1, PuttingSet, FS_RemoveElement
  <2> QED  BY <1>1, <1>3, <2>1, <2>2, PuttingSet
<1>4. CASE to # "put" /\ from # "put"
  <2>1. Putting' = Putting
    BY <1>1, <1>4 DEF Putting
  <2> QED  BY <1>1, <1>4, <2>1, PuttingSet
<1> QED  BY <1>2, <1>3, <1>4

\* An entry is appended.
LEMMA PutStep ==
  ASSUME FifoInv, NEW c \in CPUs, NEW t \in Threads, NEW e \in Entries,
         fifo_put(c, t, e)
  PROVE  FifoInv'
<1>1. /\ LocInv /\ PermitInv /\ FifoList /\ NoneWaits
      /\ \A u \in Threads : FifoOf(u)
  BY DEF FifoInv
<1>2. LocInv' /\ PermitInv'
  <2>1. UNCHANGED vars  BY DEF fifo_put
  <2>2. LocInv'  BY <1>1, <2>1, LocStutter
  <2> QED  BY <1>1, <2>1, <2>2, PermitNext
<1>3. /\ fpc' \in [Threads -> {"out", "put", "get"}]
      /\ fpc[t] = "out" /\ fpc'[t] = "put"
      /\ \A u \in Threads : u # t => fpc'[u] = fpc[u]
      /\ Cardinality(Putting') = Cardinality(Putting) + 1
  BY <1>1, StepPlace, PuttingSet DEF fifo_put
<1>4. /\ tpc' = tpc /\ holding' = holding /\ usec' = usec /\ sem_count' = sem_count
      /\ td_list' = td_list /\ issued' = issued /\ tpc[t] = "user"
  BY DEF fifo_put, At, vars, semVars, localVars, permitVars
<1>5. \A u \in Threads : FifoOf(u)'
  BY <1>1, <1>3, <1>4 DEF FifoOf, SemWaitLabels
<1>6. NoneWaits'
  BY <1>1, <1>4 DEF NoneWaits
<1>7. list \in Seq(Entries) /\ Once(list) /\ ~On(list, e) /\ list' = Append(list, e)
  BY <1>1 DEF FifoList, fifo_put, On
<1>8. list' \in Seq(Entries) /\ Once(list') /\ Len(list') = Len(list) + 1
  BY <1>7, AppendList
<1>9. Len(list') = issued' + Cardinality(Putting')
  BY <1>1, <1>3, <1>4, <1>8, Bounds, PuttingSet DEF FifoList
<1>10. FifoList'
  BY <1>3, <1>8, <1>9 DEF FifoList
<1> QED  BY <1>2, <1>5, <1>6, <1>10 DEF FifoInv

\* The permit of the entry is given.
LEMMA PostStep ==
  ASSUME FifoInv, NEW c \in CPUs, NEW t \in Threads, fifo_post(c, t)
  PROVE  FifoInv'
<1>1. /\ LocInv /\ PermitInv /\ FifoList /\ NoneWaits
      /\ \A u \in Threads : FifoOf(u)
  BY DEF FifoInv
<1>2. post_call(c, t)
  BY DEF fifo_post
<1>3. LocInv'
  BY <1>1, <1>2, LocStep
<1>4. PermitInv'
  BY <1>1, <1>2, <1>3, GiveStep
<1>5. /\ fpc' \in [Threads -> {"out", "put", "get"}]
      /\ fpc[t] = "put" /\ fpc'[t] = "out"
      /\ \A u \in Threads : u # t => fpc'[u] = fpc[u]
      /\ Cardinality(Putting') = Cardinality(Putting) - 1
  BY <1>1, StepPlace, PuttingSet DEF fifo_post
<1>6. /\ tpc[t] = "user" /\ tpc'[t] = "post_lock"
      /\ \A u \in Threads : u # t => tpc'[u] = tpc[u]
      /\ sem_count' = sem_count /\ td_list' = td_list /\ usec' = usec
      /\ list' = list
  BY <1>1, <1>2, Kinds DEF fifo_post, post_call, At, Goto, LocInv, PlaceTypes, semVars, localVars
<1>7. holding' = holding /\ issued' = issued + 1
  BY <1>1, <1>2, <1>5 DEF post_call, Released, FifoOf
<1>8. \A u \in Threads : FifoOf(u)'
  BY <1>1, <1>5, <1>6, <1>7 DEF FifoOf, SemWaitLabels
<1>9. NoneWaits'
  BY <1>1, <1>6 DEF NoneWaits
<1>10. FifoList'
  <2>1. issued \in Nat /\ Cardinality(Putting) \in Nat
    BY <1>1, Bounds, PuttingSet
  <2>2. Len(list) = issued + Cardinality(Putting)
    BY <1>1 DEF FifoList
  <2>3. Len(list') = issued' + Cardinality(Putting')
    BY <1>5, <1>6, <1>7, <2>1, <2>2
  <2> QED  BY <1>1, <1>5, <1>6, <2>3 DEF FifoList
<1> QED  BY <1>3, <1>4, <1>8, <1>9, <1>10 DEF FifoInv

\* A consumer asks for a permit.
LEMMA GetStep ==
  ASSUME FifoInv, NEW c \in CPUs, NEW t \in Threads,
         mdx_fifo_get_wait(c, t) \/ mdx_fifo_get(c, t)
  PROVE  FifoInv'
<1>1. /\ LocInv /\ PermitInv /\ FifoList /\ NoneWaits
      /\ \A u \in Threads : FifoOf(u)
  BY DEF FifoInv
<1>2. LocInv'
  BY <1>1, LocStep DEF mdx_fifo_get_wait, mdx_fifo_get
<1>3. /\ fpc' \in [Threads -> {"out", "put", "get"}]
      /\ fpc[t] = "out" /\ fpc'[t] = "get"
      /\ \A u \in Threads : u # t => fpc'[u] = fpc[u]
      /\ Cardinality(Putting') = Cardinality(Putting)
      /\ list' = list
  BY <1>1, StepPlace, PuttingSet DEF mdx_fifo_get_wait, mdx_fifo_get
<1>4. /\ holding[t] = 0 /\ tpc \in [AllThreads -> ThreadLabels \cup {"boot", "idle"}]
      /\ holding \in [Threads -> 0 .. MaxIssued]
  BY <1>1, <1>3 DEF FifoOf, LocInv, PlaceTypes, PermitInv, Numbers
<1>5. CASE mdx_fifo_get_wait(c, t)
  <2>1. wait_call(c, t) /\ usec'[t] = "wait"
    BY <1>5 DEF mdx_fifo_get_wait
  <2>2. PermitInv'
    BY <1>1, <1>2, <2>1, WaitCallPermits, SameStep
  <2>3. /\ tpc[t] = "user" /\ tpc'[t] = "wait_lock"
        /\ \A u \in Threads : u # t => tpc'[u] = tpc[u] /\ usec'[u] = usec[u]
        /\ sem_count' = sem_count /\ td_list' = td_list
        /\ holding' = holding /\ issued' = issued
    BY <1>1, <1>4, <2>1, Kinds
       DEF wait_call, At, Goto, semVars, permitVars, LocInv, PlaceTypes
  <2>4. \A u \in Threads : FifoOf(u)'
    BY <1>1, <1>3, <1>4, <2>1, <2>3 DEF FifoOf, SemWaitLabels
  <2>5. NoneWaits'
    BY <1>1, <2>3 DEF NoneWaits
  <2>6. FifoList'
    BY <1>1, <1>3, <2>3 DEF FifoList
  <2> QED  BY <1>2, <2>2, <2>4, <2>5, <2>6 DEF FifoInv
<1>6. CASE mdx_fifo_get(c, t)
  <2>1. mdx_sem_trywait(c, t)
    BY <1>6 DEF mdx_fifo_get
  <2>2. /\ At(c, t, "user") /\ sem_count > 0 /\ sem_count' = sem_count - 1 /\ Acquired(t)
        /\ UNCHANGED <<td_list, localVars, m_td, issued>>
    BY <2>1 DEF mdx_sem_trywait
  <2>3. PermitInv'
    BY <1>1, <1>2, <2>2, TakeStep
  <2>4. /\ tpc[t] = "user" /\ tpc'[t] = "user"
        /\ \A u \in Threads : u # t => tpc'[u] = tpc[u] /\ holding'[u] = holding[u]
        /\ holding'[t] = 1 /\ usec' = usec /\ td_list' = td_list /\ issued' = issued
    BY <1>4, <2>2, Kinds, FifoAssumption DEF At, Acquired, Goto, localVars
  <2>5. \A u \in Threads : FifoOf(u)'
    BY <1>1, <1>3, <2>4 DEF FifoOf
  <2>6. NoneWaits'
    <3>1. td_list = <<>> /\ ~\E u \in Threads : tpc[u] = "wait_block"
      BY <1>1, <2>2, Bounds DEF NoneWaits
    <3> QED  BY <2>4, <3>1 DEF NoneWaits
  <2>7. FifoList'
    BY <1>1, <1>3, <2>4 DEF FifoList
  <2> QED  BY <1>2, <2>3, <2>5, <2>6, <2>7 DEF FifoInv
<1> QED  BY <1>5, <1>6

\* An entry leaves the fifo, and its permit with it.
LEMMA RemoveStep ==
  ASSUME FifoInv, NEW c \in CPUs, NEW t \in Threads, fifo_remove(c, t)
  PROVE  FifoInv'
<1>1. /\ LocInv /\ PermitInv /\ FifoList /\ NoneWaits
      /\ \A u \in Threads : FifoOf(u)
  BY DEF FifoInv
<1>2. LocInv'
  <2>1. UNCHANGED placeVars /\ UNCHANGED <<tpc, sem_lock, usec, timeout>>
    BY DEF fifo_remove, placeVars, schedVars, threadVars, cpuVars, calloutVars, semVars,
           localVars
  <2> QED  BY <1>1, <2>1, LocSame
<1>3. /\ fpc' \in [Threads -> {"out", "put", "get"}]
      /\ fpc[t] = "get" /\ fpc'[t] = "out"
      /\ \A u \in Threads : u # t => fpc'[u] = fpc[u]
      /\ Cardinality(Putting') = Cardinality(Putting)
  BY <1>1, StepPlace, PuttingSet DEF fifo_remove
<1>4. /\ tpc' = tpc /\ usec' = usec /\ sem_count' = sem_count /\ td_list' = td_list
      /\ timeout' = timeout /\ m_td' = m_td /\ issued' = issued - 1
      /\ holding' = [holding EXCEPT ![t] = @ - 1] /\ tpc[t] = "user"
  BY DEF fifo_remove, At, semVars, localVars
<1>5. holding[t] = 1
  BY <1>1, <1>3, <1>4 DEF FifoOf, SemWaitLabels
<1>6. /\ holding' \in [Threads -> 0 .. MaxIssued]
      /\ holding'[t] = 0
      /\ \A u \in Threads : u # t => holding'[u] = holding[u]
      /\ Cardinality(HeldPermits') = Cardinality(HeldPermits) - 1
  <2>1. Numbers /\ holding[t] > 0
    BY <1>1, <1>5 DEF PermitInv
  <2>2. holding'[t] = holding[t] - 1
    BY <1>4, <2>1, HeldLess
  <2>3. holding'[t] = 0
    BY <1>5, <2>2
  <2> QED  BY <1>4, <2>1, <2>3, HeldLess
<1>7. Permits' = Permits
  <2>1. Handed' = Handed /\ Giving' = Giving
    BY <1>4 DEF Handed, Giving
  <2> QED  BY <1>4, <2>1 DEF Permits
<1>8. issued \in Nat /\ issued >= 1 /\ issued <= MaxIssued
  BY <1>1, <1>5, Bounds
<1>9. PermitsConserved'
  BY <1>1, <1>4, <1>6, <1>7, Bounds DEF PermitsConserved
<1>10. Numbers'
  BY <1>1, <1>4, <1>6, <1>8, FifoAssumption, SchedAssumption DEF PermitInv, Numbers
<1>11. Owning'
  BY <1>1, <1>4, FifoAssumption DEF PermitInv, Owning
<1>12. \A u \in Threads : FifoOf(u)'
  BY <1>1, <1>3, <1>4, <1>6 DEF FifoOf, SemWaitLabels
<1>13. NoneWaits'
  BY <1>1, <1>4 DEF NoneWaits
<1>14. list \in Seq(Entries) /\ Once(list) /\ list # <<>> /\ list' = Tail(list)
  BY <1>1 DEF FifoList, fifo_remove
<1>15. list' \in Seq(Entries) /\ Once(list') /\ Len(list') = Len(list) - 1
  BY <1>14, HeadTailList
<1>16. FifoList'
  <2>1. Len(list') = issued' + Cardinality(Putting')
    BY <1>1, <1>3, <1>4, <1>8, <1>15, PuttingSet DEF FifoList
  <2> QED  BY <1>3, <1>15, <2>1 DEF FifoList
<1> QED  BY <1>2, <1>9, <1>10, <1>11, <1>12, <1>13, <1>16 DEF FifoInv, PermitInv

\* The other steps.
LEMMA SchedSteps ==
  ASSUME FifoInv, SchedStep
  PROVE  FifoInv'
<1>1. /\ LocInv /\ PermitInv /\ FifoList /\ NoneWaits
      /\ \A u \in Threads : FifoOf(u)
      /\ UNCHANGED fifoVars
  BY DEF FifoInv, SchedStep
<1>2. LocInv'
  BY <1>1, LocStep DEF SchedStep
<1>3. PermitInv'
  <2>1. Next  BY DEF SchedStep, Next, CallStep
  <2> QED  BY <1>1, <1>2, <2>1, PermitNext
<1>4. (\A u \in Threads : FifoOf(u)') /\ NoneWaits' /\ issued' = issued
  <2>1. ASSUME NEW c \in CPUs,
               \/ HandlerStep(c)
               \/ \E why \in {"ecall", "timer", "ipi"} : exception(c, why)
        PROVE  (\A u \in Threads : FifoOf(u)') /\ NoneWaits' /\ issued' = issued
    BY <1>1, <2>1, FifoHandler, HandlerPermits DEF SamePermits
  <2>2. ASSUME NEW c \in CPUs, NEW t \in Threads, OpStep(c, t)
        PROVE  (\A u \in Threads : FifoOf(u)') /\ NoneWaits' /\ issued' = issued
    BY <1>1, <2>2, FifoOp
  <2>3. ASSUME NEW c \in CPUs, NEW t \in Threads, NEW n \in Threads,
               mdx_thread_create(c, t, n)
        PROVE  (\A u \in Threads : FifoOf(u)') /\ NoneWaits' /\ issued' = issued
    BY <1>1, <2>3, FifoCreate
  <2> QED  BY <2>1, <2>2, <2>3 DEF SchedStep
<1>5. FifoList'
  BY <1>1, <1>4 DEF FifoList, fifoVars, Putting
<1> QED  BY <1>2, <1>3, <1>4, <1>5 DEF FifoInv

-----------------------------------------------------------------------------
(***************************************************************************)
(* The theorems.                                                           *)
(***************************************************************************)

\* The invariant of the fifo holds for every number of CPUs, of producers and
\* consumers, preemptive or not, and of entries.
THEOREM FifoInvariant == FifoSpec => []FifoInv
<1>1. FifoInit => FifoInv
  <2> SUFFICES ASSUME FifoInit  PROVE FifoInv
    OBVIOUS
  <2>1. LocInv /\ PermitInv
    BY LocInit, PermitInit DEF FifoInit
  <2>2. /\ list = <<>> /\ td_list = <<>> /\ sem_count = 0 /\ issued = 0
        /\ \A t \in Threads : fpc[t] = "out" /\ holding[t] = 0 /\ tpc[t] = "user"
    BY Kinds, FifoAssumption DEF FifoInit, Init, Idle
  <2>3. \A t \in Threads : FifoOf(t)
    BY <2>2 DEF FifoOf, SemWaitLabels
  <2>4. NoneWaits
    BY <2>2 DEF NoneWaits
  <2>5. Putting = {}
    BY <2>2 DEF Putting
  <2>6. FifoList
    BY <2>2, <2>5, FS_EmptySet DEF FifoList, FifoInit, Once
  <2> QED  BY <2>1, <2>3, <2>4, <2>6 DEF FifoInv
<1>2. FifoInv /\ [FifoNext]_allVars => FifoInv'
  <2> SUFFICES ASSUME FifoInv, [FifoNext]_allVars  PROVE FifoInv'
    OBVIOUS
  <2>1. CASE FifoNext
    BY <2>1, SchedSteps, PutStep, PostStep, GetStep, RemoveStep DEF FifoNext
  <2>2. CASE UNCHANGED allVars
    <3>1. LocInv /\ PermitInv /\ UNCHANGED vars /\ UNCHANGED fifoVars
      BY <2>2 DEF FifoInv, allVars
    <3>2. LocInv' /\ PermitInv'
      <4>1. LocInv'  BY <3>1, LocStutter
      <4> QED  BY <3>1, <4>1, PermitNext
    <3>3. (\A t \in Threads : FifoOf(t)') /\ NoneWaits' /\ FifoList'
      BY <3>1 DEF FifoInv, FifoOf, NoneWaits, FifoList, Putting, fifoVars, vars,
                  semVars, localVars, permitVars
    <3> QED  BY <3>2, <3>3 DEF FifoInv
  <2> QED  BY <2>1, <2>2
<1> QED  BY <1>1, <1>2, PTL DEF FifoSpec

\* The fifo leaves the CPUs alone.
LEMMA FifoStale == FifoSpec => []StaleInv
<1>1. FifoInit => StaleInv
  BY DEF FifoInit, Init, StaleInv
<1>2. ASSUME FifoInv, StaleInv, [FifoNext]_allVars  PROVE StaleInv'
  <2>1. LocInv  BY <1>2 DEF FifoInv
  <2>2. CASE [Next]_vars
    BY <1>2, <2>1, <2>2, StaleNext
  <2>3. CASE UNCHANGED cpuVars
    BY <1>2, <2>3 DEF cpuVars, StaleInv
  <2>4. SchedStep => Next
    BY DEF SchedStep, Next, CallStep
  <2>5. ASSUME NEW c \in CPUs, NEW t \in Threads,
               \/ \E e \in Entries : fifo_put(c, t, e)
               \/ fifo_post(c, t) \/ fifo_remove(c, t)
               \/ mdx_fifo_get_wait(c, t) \/ mdx_fifo_get(c, t)
        PROVE  [Next]_vars \/ UNCHANGED cpuVars
    <3>1. CASE \E e \in Entries : fifo_put(c, t, e)
      BY <3>1 DEF fifo_put
    <3>2. CASE fifo_remove(c, t)
      BY <3>2 DEF fifo_remove
    <3>3. CASE fifo_post(c, t) \/ mdx_fifo_get_wait(c, t) \/ mdx_fifo_get(c, t)
      <4>1. CallStep(c, t)
        BY <3>3 DEF fifo_post, mdx_fifo_get_wait, mdx_fifo_get, CallStep
      <4> QED  BY <4>1 DEF Next
    <3> QED  BY <2>5, <3>1, <3>2, <3>3
  <2>6. UNCHANGED allVars => UNCHANGED vars
    BY DEF allVars
  <2> QED  BY <1>2, <2>2, <2>3, <2>4, <2>5, <2>6 DEF FifoNext
<1> QED  BY <1>1, <1>2, FifoInvariant, PTL DEF FifoSpec

\* mdx_fifo_get and mdx_fifo_get_wait find an entry when they have a permit.
THEOREM PermitMeansEntryHolds == FifoSpec => []PermitMeansEntry
<1>1. FifoInv /\ StaleInv => PermitMeansEntry
  <2> SUFFICES ASSUME FifoInv, StaleInv  PROVE PermitMeansEntry
    OBVIOUS
  <2>0. LocInv /\ PermitInv /\ StaleInv /\ FifoList /\ \A t \in Threads : FifoOf(t)
    BY DEF FifoInv
  <2>1. TypeOK
    BY <2>0 DEF LocInv, PermitInv, StaleInv, TypeOK, PlaceTypes, RunQueue, Numbers, HandlerLabels,
                CalloutTypes
  <2>2. FifoTypeOK
    BY <2>0, <2>1 DEF FifoTypeOK, FifoList, Once
  <2>3. ASSUME NEW t \in Threads, fpc[t] = "get", tpc[t] = "user"
        PROVE  list # <<>>
    <3>1. holding[t] = 1
      BY <2>0, <2>3 DEF FifoOf, SemWaitLabels
    <3>2. issued >= 1 /\ issued \in Nat
      BY <2>0, <3>1, Bounds
    <3>3. Len(list) >= 1
      BY <2>0, <3>2, PuttingSet DEF FifoList
    <3> QED  BY <3>3
  <2> QED  BY <2>0, <2>2, <2>3 DEF PermitMeansEntry, FifoList, Putting
<1> QED  BY <1>1, FifoInvariant, FifoStale, PTL

\* No entry is left in the fifo while a thread waits for one.
THEOREM NoStrandedEntryHolds == FifoSpec => []NoStrandedEntry
<1>1. FifoInv => NoStrandedEntry
  <2> DEFINE giving == {t \in Threads : fpc[t] = "put" \/ tpc[t] = "post_lock"}
             taking == {t \in Threads : /\ fpc[t] = "get"
                                        /\ Occurrences(td_list, t) = 0
                                        /\ tpc[t] \notin {"wait_lock", "wait_block"}}
  <2> SUFFICES ASSUME FifoInv, td_list # <<>>
               PROVE  Len(list) <= Cardinality(giving) + Cardinality(taking)
    BY DEF NoStrandedEntry
  <2>0. /\ LocInv /\ PermitInv /\ FifoList /\ \A t \in Threads : FifoOf(t)
        /\ sem_count = 0
    BY DEF FifoInv, NoneWaits
  <2>1. IsFiniteSet(giving) /\ IsFiniteSet(taking) /\ IsFiniteSet(Holders)
    <3>1. /\ giving \in SUBSET Threads /\ taking \in SUBSET Threads
          /\ Holders \in SUBSET Threads
      BY DEF Holders
    <3> QED  BY <3>1, SchedAssumption, FS_Subset
  <2>2. Cardinality(giving) = Cardinality(Putting) + Cardinality(Giving)
    <3>1. giving = Putting \cup Giving
      BY DEF Putting, Giving
    <3>2. Putting \cap Giving = {}
      BY <2>0 DEF Putting, Giving, FifoOf
    <3>3. /\ IsFiniteSet(Putting) /\ Cardinality(Putting) \in Nat
          /\ IsFiniteSet(Giving) /\ Cardinality(Giving) \in Nat
      BY <2>0, PuttingSet, HandedSet
    <3>4. Cardinality(Putting \cup Giving) =
            Cardinality(Putting) + Cardinality(Giving) - Cardinality(Putting \cap Giving)
      BY <3>3, FS_Union
    <3>5. Cardinality(Putting \cap Giving) = 0
      BY <3>2, FS_EmptySet
    <3> HIDE DEF giving
    <3> QED  BY <3>1, <3>3, <3>4, <3>5
  <2>3. Cardinality(HeldPermits) <= Cardinality(Holders)
    <3> DEFINE f == [h \in HeldPermits |-> h[1]]
    <3>1. ASSUME NEW h \in HeldPermits
          PROVE  h[1] \in Holders /\ h = <<h[1], 1>>
      <4>1. h \in Threads \X (1 .. MaxIssued) /\ h[2] <= holding[h[1]]
        BY DEF HeldPermits
      <4>2. holding[h[1]] \in {0, 1}
        BY <2>0, <4>1 DEF FifoOf
      <4> QED  BY <4>1, <4>2, SchedAssumption DEF Holders
    <3>2. f \in Injection(HeldPermits, Holders)
      <4>1. f \in [HeldPermits -> Holders]  BY <3>1
      <4>2. \A h, k \in HeldPermits : f[h] = f[k] => h = k  BY <3>1
      <4> QED  BY <4>1, <4>2 DEF Injection, IsInjective
    <3> HIDE DEF f
    <3> QED  BY <2>1, <3>2, FS_Injection
  <2>4. Cardinality(Handed) + Cardinality(Holders) <= Cardinality(taking)
    <3>1. \A t \in Threads : Occurrences(td_list, t) = IF Waits(t) THEN 1 ELSE 0
      BY <2>0, OccurrencesOnce DEF LocInv, PlaceTypes, Waiting, Waits
    <3>2. Handed \subseteq taking
      BY <2>0 DEF Handed, FifoOf, SemWaitLabels
    <3>3. Holders \subseteq taking
      <4>1. ASSUME NEW t \in Holders
            PROVE  t \in Threads /\ fpc[t] = "get" /\ tpc[t] = "user" /\ ~Waits(t)
        BY <2>0 DEF Holders, FifoOf, LocInv, Waiting, WaitLabels
      <4> QED  BY <3>1, <4>1
    <3>4. Handed \cap Holders = {}
      BY <2>0 DEF Handed, Holders, FifoOf
    <3>5. Cardinality(Handed \cup Holders) = Cardinality(Handed) + Cardinality(Holders)
      <4>1. /\ IsFiniteSet(Handed) /\ Cardinality(Handed) \in Nat
            /\ IsFiniteSet(Holders) /\ Cardinality(Holders) \in Nat
        BY <2>0, <2>1, HandedSet, FS_CardinalityType
      <4>2. Cardinality(Handed \cup Holders) =
              Cardinality(Handed) + Cardinality(Holders) - Cardinality(Handed \cap Holders)
        BY <4>1, FS_Union
      <4>3. Cardinality(Handed \cap Holders) = 0
        BY <3>4, FS_EmptySet
      <4> QED  BY <4>1, <4>2, <4>3
    <3>6. Cardinality(Handed \cup Holders) <= Cardinality(taking)
      <4>1. Handed \cup Holders \in SUBSET taking  BY <3>2, <3>3
      <4> QED  BY <2>1, <4>1, FS_Subset
    <3> QED  BY <3>5, <3>6
  <2>5. Len(list) = Cardinality(Putting) + Cardinality(Handed) + Cardinality(Giving)
                    + Cardinality(HeldPermits)
    BY <2>0, Bounds, PuttingSet DEF FifoList
  <2>6. /\ Cardinality(taking) \in Nat /\ Cardinality(Holders) \in Nat
        /\ Cardinality(HeldPermits) \in Nat /\ Cardinality(Handed) \in Nat
        /\ Cardinality(Giving) \in Nat /\ Cardinality(Putting) \in Nat
    BY <2>0, <2>1, FS_CardinalityType, Bounds, PuttingSet
  <2> HIDE DEF giving, taking
  <2> QED  BY <2>2, <2>3, <2>4, <2>5, <2>6
<1> QED  BY <1>1, FifoInvariant, PTL
=============================================================================
