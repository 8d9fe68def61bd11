-------------------------- MODULE MdxNoschedProofs --------------------------
(***************************************************************************)
(* Proofs about the kernel without a scheduler: no callout outlives the    *)
(* call that set it, no wakeup is lost, the semaphore is one, the          *)
(* conversion to ticks loses less than two ticks and the uptime is never   *)
(* ahead.                                                                  *)
(*                                                                         *)
(* What MdxCalloutProofs proves of the queue is instantiated for the three *)
(* callouts of this module: a step here is a step of the queue or leaves   *)
(* it alone.                                                               *)
(***************************************************************************)
EXTENDS MdxNosched, ListTheorems

QP == INSTANCE MdxCalloutProofs WITH
  Callouts <- {td_c, slp_c, tmr_c}, SetTicks <- 0 .. WordMax,
  RearmTicks <- 1 .. WordMax, CbCancel <- FALSE, LapSafe <- FALSE

-----------------------------------------------------------------------------
\* The queue or its code still refers to callout k.
Using(k) == k \in active \/ c0 = k

\* Where the code of the queue has a callout at hand, and that it runs in a
\* critical section of the thread only to set one.
CodeInv ==
  /\ pc \in {"idle", "lock", "loop", "restart"} => c0 = NULL
  /\ pc = "func" => c0 \in {td_c, slp_c, tmr_c} /\ c0 \notin active
  /\ Masked => pc \in {"idle", "walk", "armed"} /\ tmr_state # "exception"

ThreadTypeOK ==
  /\ tpc \in {"user", "check", "idle", "open", "sleep_open", "sleep_idle"}
  /\ usec \in WaitUsecs \cup {0}
  /\ configured \in BOOLEAN /\ timeout \in BOOLEAN /\ got \in BOOLEAN
  /\ dev \in BOOLEAN /\ started \in BOOLEAN
  /\ sem_count \in 0 .. MaxCount
  /\ dev => sem_count < MaxCount
  /\ periods \in 0 .. MaxPeriods
  /\ behind \in Int

\* The callout of the thread serves the wait that configured it, until the
\* timeout has come.
WaitInv ==
  /\ Using(td_c) => Waiting /\ configured /\ ~timeout
  /\ ~Waiting => usec = 0 /\ ~configured /\ ~timeout
  /\ Waiting => ~got
  /\ timeout => configured
  /\ configured => usec # 0
  /\ tpc = "idle" => sem_count = 0 /\ ~timeout /\ (usec # 0 => configured)
  /\ Waiting /\ configured /\ ~timeout /\ usec_to_ticks(Freq, usec) > 0 =>
       td_c \in active \/ (c0 = td_c /\ pc \in {"walk", "armed", "func"})

\* The callout of a sleep is in use while it is not marked fired.
SleepInv ==
  /\ Using(slp_c) => Sleeping
  /\ slp_c \in active \/ (c0 = slp_c /\ pc # "func") => cstate[slp_c] = "ready"

\* The inductive invariant, beside that of the queue.
NoschedInv == CodeInv /\ ThreadTypeOK /\ WaitInv /\ SleepInv

-----------------------------------------------------------------------------
\* The assumption of MdxCallout, for the three callouts of this module.
LEMMA QueueAssumption == QP!CalloutAssumption
BY NoschedAssumption DEF QP!CalloutAssumption

\* Every step is a step of the queue or leaves the queue alone.
LEMMA QueueNext ==
  ASSUME ThreadTypeOK, Next
  PROVE  QP!Next \/ UNCHANGED QP!vars
<1> USE DEF Queue!Elapsed, QP!Elapsed, Queue!get_elapsed, QP!get_elapsed,
            Queue!MaxLate, QP!MaxLate, Queue!WordAdd, QP!WordAdd,
            Queue!InCallback, QP!InCallback, Queue!hardware, QP!hardware,
            Queue!locals, QP!locals
<1>1. ASSUME NEW k \in {td_c, slp_c, tmr_c}, NEW us, mdx_callout_set(k, us),
             usec_to_ticks(Freq, us) \in 0 .. WordMax
      PROVE  QP!Next
  <2> PICK t \in 0 .. WordMax : t = usec_to_ticks(Freq, us)
    BY <1>1
  <2>1. CASE t = 0
    <3>1. QP!mdx_callout_set_zero(k)
      BY <1>1, <2>1, NoschedAssumption
         DEF mdx_callout_set, Queue!mdx_callout_set_zero, QP!mdx_callout_set_zero
    <3> QED  BY <3>1 DEF QP!Next
  <2>2. CASE t # 0
    <3>1. QP!mdx_callout_set_ticks(k, t)
      BY <1>1, <2>2 DEF mdx_callout_set, Queue!mdx_callout_set_ticks,
         QP!mdx_callout_set_ticks, Queue!set_begin, QP!set_begin
    <3> QED  BY <3>1 DEF QP!Next
  <2> QED  BY <2>1, <2>2
<1>2. ASSUME UNCHANGED queueVars  PROVE UNCHANGED QP!vars
  BY <1>2 DEF queueVars, QP!vars
<1>3. ASSUME Queue!mdx_callout_cancel(td_c)  PROVE QP!Next
  <2>1. QP!mdx_callout_cancel(td_c)
    BY <1>3 DEF Queue!mdx_callout_cancel, QP!mdx_callout_cancel,
       Queue!cancel_locked, QP!cancel_locked, Queue!list_remove, QP!list_remove, Queue!RemoveAt, QP!RemoveAt,
       Queue!next, QP!next, Queue!Index, QP!Index, Queue!OnList, QP!OnList
  <2> QED  BY <2>1 DEF QP!Next
<1>4. ASSUME ThreadStep  PROVE QP!Next \/ UNCHANGED QP!vars
  <2>1. CASE wait_take
    BY <1>2, <1>3, <2>1 DEF wait_take
  <2>2. CASE wait_set
    <3>1. mdx_callout_set(td_c, usec) /\ usec \in WaitUsecs
      BY <2>2 DEF wait_set, ThreadTypeOK
    <3>2. usec_to_ticks(Freq, usec) \in 0 .. WordMax
      BY <3>1, NoschedAssumption
    <3> QED  BY <1>1, <3>1, <3>2
  <2>3. CASE wait_timeout \/ wait_idle \/ cpu_idle \/ wait_again \/ sleep_check
    <3>1. UNCHANGED queueVars
      BY <2>3 DEF wait_timeout, wait_idle, cpu_idle, wait_again, sleep_check
    <3> QED  BY <1>2, <3>1
  <2> QED  BY <1>4, <2>1, <2>2, <2>3 DEF ThreadStep
<1>5. ASSUME CallStep  PROVE QP!Next \/ UNCHANGED QP!vars
  <2>1. CASE \E us \in WaitUsecs \cup {0} : wait_call(us)
    BY <1>2, <2>1 DEF wait_call
  <2>2. ASSUME NEW us \in SleepUsecs, mdx_usleep(us)  PROVE QP!Next
    <3>1. usec_to_ticks(Freq, us) \in 0 .. WordMax
      BY NoschedAssumption
    <3> QED  BY <1>1, <2>2, <3>1 DEF mdx_usleep
  <2>3. CASE mdx_sem_trywait
    BY <1>2, <2>3 DEF mdx_sem_trywait
  <2>4. CASE mdx_uptime_init
    <3>1. usec_to_ticks(Freq, PeriodUs) \in 0 .. WordMax
      BY NoschedAssumption
    <3> QED  BY <1>1, <2>4, <3>1 DEF mdx_uptime_init
  <2> QED  BY <1>5, <2>1, <2>2, <2>3, <2>4 DEF CallStep
<1>6. ASSUME QueueStep  PROVE QP!Next
  <2>1. CASE Queue!set_one_skip
    <3>1. QP!set_one_skip
      BY <2>1 DEF Queue!set_one_skip, QP!set_one_skip
    <3> QED  BY <3>1 DEF QP!Next
  <2>2. CASE Queue!set_one_insert
    <3>1. QP!set_one_insert
      BY <2>2 DEF Queue!set_one_insert, QP!set_one_insert, Queue!InsertAt, QP!InsertAt
    <3> QED  BY <3>1 DEF QP!Next
  <2>3. CASE Queue!set_one_start
    <3>1. QP!set_one_start
      BY <2>3 DEF Queue!set_one_start, QP!set_one_start, Queue!first, QP!first,
         Queue!mi_tmr_start, QP!mi_tmr_start, Queue!WordSub, QP!WordSub,
         Queue!Leave, QP!Leave, Queue!FuncReturn, QP!FuncReturn
    <3> QED  BY <3>1 DEF QP!Next
  <2>4. CASE Queue!callback_lock
    <3>1. QP!callback_lock
      BY <2>4 DEF Queue!callback_lock, QP!callback_lock, Queue!first, QP!first
    <3> QED  BY <3>1 DEF QP!Next
  <2>5. CASE Queue!callback_fire
    <3>1. QP!callback_fire
      BY <2>5 DEF Queue!callback_fire, QP!callback_fire, Queue!next, QP!next,
         Queue!list_remove, QP!list_remove, Queue!RemoveAt, QP!RemoveAt, Queue!Index, QP!Index,
         Queue!OnList, QP!OnList
    <3> QED  BY <3>1 DEF QP!Next
  <2>6. CASE Queue!callback_break
    <3>1. QP!callback_break
      BY <2>6 DEF Queue!callback_break, QP!callback_break
    <3> QED  BY <3>1 DEF QP!Next
  <2>7. CASE Queue!callback_restart
    <3>1. QP!callback_restart
      BY <2>7 DEF Queue!callback_restart, QP!callback_restart, Queue!first,
         QP!first, Queue!mi_tmr_start, QP!mi_tmr_start, Queue!mi_tmr_stop,
         QP!mi_tmr_stop, Queue!CallbackEnd, QP!CallbackEnd, Queue!Leave, QP!Leave
    <3> QED  BY <3>1 DEF QP!Next
  <2> QED  BY <1>6, <2>1, <2>2, <2>3, <2>4, <2>5, <2>6, <2>7 DEF QueueStep
<1>7. ASSUME mdx_sem_cb \/ mdx_tsleep_cb  PROVE QP!Next
  <2>1. QP!func_return
    BY <1>7 DEF mdx_sem_cb, mdx_tsleep_cb, Queue!func_return, QP!func_return,
       Queue!FuncReturn, QP!FuncReturn
  <2> QED  BY <2>1 DEF QP!Next
<1>8. ASSUME mdx_timer_tick  PROVE QP!Next
  <2>1. Period \in 0 .. WordMax
    BY NoschedAssumption DEF Period
  <2> PICK t \in 0 .. WordMax : t = Period
    BY <2>1
  <2>2. t > 0 /\ QP!mdx_callout_set_ticks_locked(tmr_c, t)
    BY <1>8 DEF mdx_timer_tick, Queue!mdx_callout_set_ticks_locked,
       QP!mdx_callout_set_ticks_locked, Queue!set_begin, QP!set_begin
  <2> QED  BY <2>2, NoschedAssumption DEF QP!Next
<1>9. ASSUME TimerIntr  PROVE QP!Next
  <2>1. QP!TimerIntr
    BY <1>9 DEF TimerIntr, Queue!TimerIntr, QP!TimerIntr, Queue!Leave, QP!Leave
  <2> QED  BY <2>1 DEF QP!Next
<1>10. ASSUME Tick  PROVE QP!Next
  <2>1. QP!TimerTick
    BY <1>10 DEF Tick, Queue!TimerTick, QP!TimerTick, Queue!Busy, QP!Busy,
       Queue!Pending, QP!Pending
  <2> QED  BY <2>1 DEF QP!Next
<1>11. ASSUME DeviceRaises \/ DeviceIntr  PROVE UNCHANGED QP!vars
  BY <1>2, <1>11 DEF DeviceRaises, DeviceIntr
<1> QED
  BY <1>4, <1>5, <1>6, <1>7, <1>8, <1>9, <1>10, <1>11 DEF Next, HandlerStep

\* The invariants of MdxCalloutProofs that hold of the queue.
QueueInvs == QP!QueueInv /\ QP!ArmedInv /\ QP!NextPending

\* They hold at the start and every step keeps them.
LEMMA QueueInvsInit == Init => QueueInvs
<1> SUFFICES ASSUME Init  PROVE QueueInvs
  OBVIOUS
<1>1. QP!Init
  BY DEF Init, Queue!Init, QP!Init
<1>2. QP!QueueInv
  BY <1>1, QueueAssumption, QP!QueueInvInit
<1>3. QP!ArmedInv /\ QP!NextPending
  BY <1>1 DEF QP!Init, QP!ArmedInv, QP!NextPending
<1> QED  BY <1>2, <1>3 DEF QueueInvs

LEMMA QueueInvsNext ==
  ASSUME ThreadTypeOK, QueueInvs, [Next]_vars
  PROVE  QueueInvs'
<1>1. [QP!Next]_(QP!vars)
  <2>1. CASE Next
    BY <2>1, QueueNext
  <2>2. CASE UNCHANGED vars
    BY <2>2 DEF vars, queueVars, QP!vars, QP!hardware, QP!locals
  <2> QED  BY <2>1, <2>2
<1>2. QP!QueueInv'
  BY <1>1, QueueAssumption, QP!QueueInvNext DEF QueueInvs
<1>3. QP!ArmedInv'
  BY <1>1, QueueAssumption, QP!ArmedInvNext DEF QueueInvs
<1>4. QP!NextPending'
  BY <1>1, QueueAssumption, QP!NextPendingNext DEF QueueInvs
<1> QED  BY <1>2, <1>3, <1>4 DEF QueueInvs

\* What the invariant of the queue says of the parts that the thread uses.
LEMMA QueueFacts ==
  ASSUME QueueInvs
  PROVE  /\ active \subseteq {td_c, slp_c, tmr_c}
         /\ cstate \in [{td_c, slp_c, tmr_c} -> {"ready", "fired"}]
         /\ tmr_state \in {"ready", "running", "exception"}
         /\ pc \in {"idle", "walk", "armed", "lock", "loop", "func", "restart"}
         /\ c0 \in {td_c, slp_c, tmr_c, NULL}
         /\ cur \in {td_c, slp_c, tmr_c, NULL}
         /\ pc \in {"walk", "armed"} => c0 # NULL /\ c0 \notin active
         /\ pc \in {"lock", "loop", "func", "restart"} <=> 
              tmr_state = "exception" /\ pc \notin {"walk", "armed"}
         /\ pc = "loop" /\ cur # NULL => cur \in active
BY NoschedAssumption DEF QueueInvs, QP!QueueInv, QP!TypeOK, QP!QueueTypeOK, QP!TimerTypeOK,
   QP!LocalTypeOK, QP!PCs, QP!Shape, QP!NextPending

\* The thread runs, nothing is set.
LEMMA NoschedInvInit == Init => NoschedInv
<1> SUFFICES ASSUME Init  PROVE NoschedInv
  OBVIOUS
<1>1. MaxCount \in Nat /\ NULL \notin {td_c, slp_c, tmr_c}
  BY NoschedAssumption
<1>2. CodeInv /\ SleepInv
  BY <1>1 DEF Init, Queue!Init, CodeInv, SleepInv, Using, Masked
<1>3. ThreadTypeOK
  <2>1. /\ tpc = "user" /\ usec = 0 /\ sem_count = 0 /\ dev = FALSE
        /\ behind = 0 /\ behind \in Int /\ periods \in 0 .. MaxPeriods
    BY NoschedAssumption DEF Init
  <2>2. /\ configured \in BOOLEAN /\ timeout \in BOOLEAN /\ got \in BOOLEAN
        /\ started \in BOOLEAN
    BY DEF Init
  <2>3. sem_count \in 0 .. MaxCount
    BY <1>1, <2>1
  <2>4. dev \in BOOLEAN /\ ~dev
    BY <2>1, Zenon
  <2> QED  BY <2>1, <2>2, <2>3, <2>4, Zenon DEF ThreadTypeOK
<1>4. WaitInv
  BY <1>1 DEF Init, Queue!Init, WaitInv, Using, Waiting
<1> QED  BY <1>2, <1>3, <1>4 DEF NoschedInv

\* The thread goes on while the code of the queue is idle.
LEMMA ThreadStepInv ==
  ASSUME QueueInvs, QueueInvs', NoschedInv, ThreadStep \/ CallStep
  PROVE  NoschedInv'
<1>0. /\ td_c # slp_c /\ td_c # tmr_c /\ slp_c # tmr_c
      /\ NULL \notin {td_c, slp_c, tmr_c}
      /\ MaxCount \in Nat
      /\ WaitUsecs \subseteq Nat
  BY NoschedAssumption
<1>1. /\ active \subseteq {td_c, slp_c, tmr_c}
      /\ cstate \in [{td_c, slp_c, tmr_c} -> {"ready", "fired"}]
      /\ pc = "idle" => tmr_state # "exception"
  BY QueueFacts
<1> USE DEF NoschedInv
<1> USE DEF Go, Using, Waiting, Sleeping, Masked, IntrPending
<1>2. ASSUME NEW k \in {td_c, slp_c, tmr_c}, NEW us, mdx_callout_set(k, us),
             CodeInv
      PROVE  /\ pc = "idle" /\ k \notin active /\ c0 = NULL
             /\ UNCHANGED <<active, tmr_state>>
             /\ \/ /\ usec_to_ticks(Freq, us) = 0
                   /\ UNCHANGED <<c0, pc>>
                   /\ cstate' = [cstate EXCEPT ![k] = "fired"]
                \/ /\ c0' = k /\ pc' = "walk"
                   /\ cstate' = [cstate EXCEPT ![k] = "ready"]
  BY <1>2 DEF mdx_callout_set, Queue!mdx_callout_set_zero, Queue!set_begin,
     Queue!mdx_callout_set_ticks, Queue!locals, CodeInv
<1>3. CASE wait_take
  <2>1. pc = "idle" /\ c0 = NULL /\ UNCHANGED <<pc, c0, cstate, tmr_state>>
    BY <1>3 DEF wait_take, queueVars, Queue!mdx_callout_cancel, Queue!locals, CodeInv
  <2>2. active' = active \ {td_c}
    BY <1>3 DEF wait_take, queueVars, Queue!mdx_callout_cancel,
       Queue!cancel_locked, WaitInv
  <2>3. ThreadTypeOK'
    <3>1. /\ tpc' = "user" /\ usec' = 0 /\ sem_count' = sem_count - 1
          /\ sem_count > 0 /\ UNCHANGED <<dev, started, periods, behind>>
      BY <1>3 DEF wait_take, Return, timerVars
    <3>2. configured' \in BOOLEAN /\ timeout' \in BOOLEAN /\ got' \in BOOLEAN
      BY <1>3 DEF wait_take, Return
    <3> QED  BY <1>0, <3>1, <3>2 DEF ThreadTypeOK
  <2>4. CodeInv'
    BY <1>3, <2>1 DEF wait_take, CodeInv
  <2>5. WaitInv'
    BY <1>0, <1>3, <2>1, <2>2 DEF wait_take, Return, WaitInv
  <2>6. SleepInv'
    BY <1>0, <1>3, <2>1, <2>2 DEF wait_take, SleepInv
  <2> QED  BY <2>3, <2>4, <2>5, <2>6
<1>4. CASE wait_set
  <2>1. mdx_callout_set(td_c, usec)
    BY <1>4 DEF wait_set
  <2>2. ThreadTypeOK'
    BY <1>0, <1>4 DEF wait_set, timerVars, ThreadTypeOK
  <2>3. CodeInv'
    BY <1>0, <1>1, <1>2, <1>4, <2>1 DEF wait_set, CodeInv
  <2>4. WaitInv'
    BY <1>0, <1>1, <1>2, <1>4, <2>1 DEF wait_set, WaitInv
  <2>5. SleepInv'
    BY <1>0, <1>1, <1>2, <1>4, <2>1 DEF wait_set, SleepInv
  <2> QED  BY <2>2, <2>3, <2>4, <2>5
<1>5. CASE wait_timeout
  <2>1. ThreadTypeOK' /\ CodeInv'
    BY <1>0, <1>5 DEF wait_timeout, Return, timerVars, queueVars, ThreadTypeOK, CodeInv
  <2>2. WaitInv'
    BY <1>0, <1>5 DEF wait_timeout, Return, queueVars, WaitInv
  <2>3. SleepInv'
    BY <1>0, <1>5 DEF wait_timeout, queueVars, SleepInv
  <2> QED  BY <2>1, <2>2, <2>3
<1>6. CASE wait_idle
  <2>1. ThreadTypeOK' /\ CodeInv'
    BY <1>0, <1>1, <1>6 DEF wait_idle, localVars, timerVars, queueVars, ThreadTypeOK, CodeInv
  <2>2. WaitInv'
    BY <1>0, <1>6 DEF wait_idle, localVars, queueVars, WaitInv
  <2>3. SleepInv'
    BY <1>0, <1>6 DEF wait_idle, queueVars, SleepInv
  <2> QED  BY <2>1, <2>2, <2>3
<1>7. CASE cpu_idle
  <2>1. ThreadTypeOK' /\ CodeInv'
    BY <1>0, <1>1, <1>7 DEF cpu_idle, localVars, timerVars, queueVars, ThreadTypeOK, CodeInv
  <2>2. WaitInv'
    BY <1>0, <1>7 DEF cpu_idle, localVars, queueVars, WaitInv
  <2>3. SleepInv'
    BY <1>0, <1>7 DEF cpu_idle, queueVars, SleepInv
  <2> QED  BY <2>1, <2>2, <2>3
<1>8. CASE wait_again
  <2>1. ThreadTypeOK' /\ CodeInv'
    BY <1>0, <1>1, <1>8 DEF wait_again, localVars, timerVars, queueVars, ThreadTypeOK, CodeInv
  <2>2. WaitInv'
    BY <1>0, <1>8 DEF wait_again, localVars, queueVars, WaitInv
  <2>3. SleepInv'
    BY <1>0, <1>8 DEF wait_again, queueVars, SleepInv
  <2> QED  BY <2>1, <2>2, <2>3
<1>9. CASE sleep_check
  <2>1. ThreadTypeOK' /\ CodeInv'
    BY <1>0, <1>1, <1>9 DEF sleep_check, localVars, timerVars, queueVars, ThreadTypeOK, CodeInv
  <2>2. WaitInv'
    BY <1>0, <1>9 DEF sleep_check, localVars, queueVars, WaitInv
  <2>3. SleepInv'
    BY <1>0, <1>9 DEF sleep_check, queueVars, SleepInv, CodeInv
  <2> QED  BY <2>1, <2>2, <2>3
<1>10. ASSUME NEW us \in WaitUsecs \cup {0}, wait_call(us)
       PROVE  NoschedInv'
  <2>1. ThreadTypeOK' /\ CodeInv'
    BY <1>0, <1>1, <1>10 DEF wait_call, timerVars, queueVars, ThreadTypeOK, CodeInv
  <2>2. WaitInv'
    BY <1>0, <1>10 DEF wait_call, queueVars, WaitInv
  <2>3. SleepInv'
    BY <1>0, <1>10 DEF wait_call, queueVars, SleepInv
  <2> QED  BY <2>1, <2>2, <2>3
<1>11. ASSUME NEW us \in SleepUsecs, mdx_usleep(us)
       PROVE  NoschedInv'
  <2>1. mdx_callout_set(slp_c, us)
    BY <1>11 DEF mdx_usleep
  <2>2. ThreadTypeOK'
    BY <1>0, <1>11 DEF mdx_usleep, localVars, timerVars, ThreadTypeOK
  <2>3. CodeInv'
    BY <1>0, <1>1, <1>2, <1>11, <2>1 DEF mdx_usleep, CodeInv
  <2>4. WaitInv'
    BY <1>0, <1>1, <1>2, <1>11, <2>1 DEF mdx_usleep, localVars, WaitInv
  <2>5. SleepInv'
    BY <1>0, <1>1, <1>2, <1>11, <2>1 DEF mdx_usleep, SleepInv
  <2> QED  BY <2>2, <2>3, <2>4, <2>5
<1>12. CASE mdx_sem_trywait
  <2>1. ThreadTypeOK' /\ CodeInv'
    BY <1>0, <1>1, <1>12 DEF mdx_sem_trywait, timerVars, queueVars, ThreadTypeOK, CodeInv
  <2>2. WaitInv'
    BY <1>0, <1>12 DEF mdx_sem_trywait, queueVars, WaitInv
  <2>3. SleepInv'
    BY <1>0, <1>12 DEF mdx_sem_trywait, queueVars, SleepInv
  <2> QED  BY <2>1, <2>2, <2>3
<1>13. CASE mdx_uptime_init
  <2>1. mdx_callout_set(tmr_c, PeriodUs)
    BY <1>13 DEF mdx_uptime_init
  <2>2. ThreadTypeOK'
    BY <1>0, <1>13 DEF mdx_uptime_init, localVars, ThreadTypeOK
  <2>3. CodeInv'
    BY <1>0, <1>1, <1>2, <1>13, <2>1 DEF mdx_uptime_init, CodeInv
  <2>4. WaitInv'
    BY <1>0, <1>1, <1>2, <1>13, <2>1 DEF mdx_uptime_init, localVars, WaitInv
  <2>5. SleepInv'
    BY <1>0, <1>1, <1>2, <1>13, <2>1 DEF mdx_uptime_init, SleepInv
  <2> QED  BY <2>2, <2>3, <2>4, <2>5
<1> QED
  BY <1>3, <1>4, <1>5, <1>6, <1>7, <1>8, <1>9, <1>10, <1>11, <1>12, <1>13
     DEF ThreadStep, CallStep

\* The code of the queue, its functions, the interrupts and the time.
LEMMA HandlerStepInv ==
  ASSUME QueueInvs, QueueInvs', NoschedInv,
         HandlerStep \/ DeviceRaises \/ DeviceIntr \/ TimerIntr \/ Tick
  PROVE  NoschedInv'
<1>0. /\ td_c # slp_c /\ td_c # tmr_c /\ slp_c # tmr_c
      /\ NULL \notin {td_c, slp_c, tmr_c}
      /\ MaxCount \in Nat
  BY NoschedAssumption
<1>1. /\ active \subseteq {td_c, slp_c, tmr_c}
      /\ cstate \in [{td_c, slp_c, tmr_c} -> {"ready", "fired"}]
      /\ tmr_state \in {"ready", "running", "exception"}
      /\ pc \in {"idle", "walk", "armed", "lock", "loop", "func", "restart"}
      /\ c0 \in {td_c, slp_c, tmr_c, NULL}
      /\ cur \in {td_c, slp_c, tmr_c, NULL}
      /\ pc \in {"walk", "armed"} => c0 # NULL /\ c0 \notin active
      /\ pc \in {"lock", "loop", "func", "restart"} => tmr_state = "exception"
      /\ pc = "loop" /\ cur # NULL => cur \in active
  BY QueueFacts
<1> USE DEF NoschedInv
<1> USE DEF Using, Waiting, Sleeping, Masked
<1>2. ASSUME UNCHANGED nosched  PROVE ThreadTypeOK'
  BY <1>2 DEF nosched, localVars, timerVars, ThreadTypeOK
<1>3. ASSUME QueueStep  PROVE NoschedInv'
  <2>0. UNCHANGED nosched /\ ThreadTypeOK'
    BY <1>2, <1>3 DEF QueueStep
  <2>1. CASE Queue!set_one_skip \/ Queue!set_one_insert \/ Queue!callback_lock
             \/ Queue!callback_break
    <3>1. /\ UNCHANGED <<active, cstate, tmr_state, c0>>
          /\ \/ pc = "walk" /\ pc' \in {"walk", "armed"}
             \/ pc = "lock" /\ pc' = "loop"
             \/ pc = "loop" /\ pc' = "restart"
      BY <2>1 DEF Queue!set_one_skip, Queue!set_one_insert, Queue!callback_lock,
         Queue!callback_break, Queue!locals
    <3>2. CodeInv' /\ SleepInv'
      BY <1>0, <1>1, <2>0, <3>1 DEF nosched, CodeInv, SleepInv
    <3>3. WaitInv'
      BY <1>0, <1>1, <2>0, <3>1 DEF nosched, localVars, WaitInv
    <3> QED  BY <2>0, <3>2, <3>3
  <2>2. CASE Queue!set_one_start
    <3>1. /\ pc = "armed" /\ active' = active \cup {c0} /\ c0' = NULL
          /\ UNCHANGED cstate
          /\ \/ tmr_state # "exception" /\ pc' = "idle" /\ tmr_state' = "running"
             \/ tmr_state = "exception" /\ pc' = "loop" /\ UNCHANGED tmr_state
      BY <2>2 DEF Queue!set_one_start, Queue!Leave, Queue!FuncReturn, Queue!InCallback
    <3>2. CodeInv' /\ SleepInv'
      BY <1>0, <1>1, <2>0, <3>1 DEF nosched, CodeInv, SleepInv
    <3>3. WaitInv'
      BY <1>0, <1>1, <2>0, <3>1 DEF nosched, localVars, WaitInv
    <3> QED  BY <2>0, <3>2, <3>3
  <2>3. CASE Queue!callback_fire
    <3>1. /\ pc = "loop" /\ cur # NULL /\ active' = active \ {cur} /\ c0' = cur
          /\ pc' = "func" /\ UNCHANGED tmr_state
          /\ cstate' = [cstate EXCEPT ![cur] = "fired"]
      BY <2>3 DEF Queue!callback_fire
    <3>2. CodeInv' /\ SleepInv'
      BY <1>0, <1>1, <2>0, <3>1 DEF nosched, CodeInv, SleepInv
    <3>3. WaitInv'
      BY <1>0, <1>1, <2>0, <3>1 DEF nosched, localVars, WaitInv
    <3> QED  BY <2>0, <3>2, <3>3
  <2>4. CASE Queue!callback_restart
    <3>1. /\ pc = "restart" /\ pc' = "idle" /\ tmr_state' \in {"running", "ready"}
          /\ UNCHANGED <<active, cstate, c0>>
      BY <2>4 DEF Queue!callback_restart, Queue!CallbackEnd, Queue!Leave
    <3>2. CodeInv' /\ SleepInv'
      BY <1>0, <1>1, <2>0, <3>1 DEF nosched, CodeInv, SleepInv
    <3>3. WaitInv'
      BY <1>0, <1>1, <2>0, <3>1 DEF nosched, localVars, WaitInv
    <3> QED  BY <2>0, <3>2, <3>3
  <2> QED  BY <1>3, <2>1, <2>2, <2>3, <2>4 DEF QueueStep
<1>4. ASSUME Queue!func_return
      PROVE  /\ pc = "func" /\ pc' = "loop" /\ c0' = NULL
             /\ UNCHANGED <<active, cstate, tmr_state>>
  BY <1>4 DEF Queue!func_return, Queue!FuncReturn
<1>5. CASE mdx_sem_cb
  <2>0. Queue!func_return /\ c0 = td_c
    BY <1>5 DEF mdx_sem_cb
  <2>1. ThreadTypeOK'
    BY <1>5 DEF mdx_sem_cb, timerVars, ThreadTypeOK
  <2>2. CodeInv' /\ SleepInv'
    BY <1>0, <1>1, <1>4, <1>5, <2>0 DEF mdx_sem_cb, CodeInv, SleepInv
  <2>3. WaitInv'
    BY <1>0, <1>1, <1>4, <1>5, <2>0 DEF mdx_sem_cb, WaitInv, CodeInv
  <2> QED  BY <2>1, <2>2, <2>3
<1>6. CASE mdx_tsleep_cb
  <2>0. Queue!func_return /\ c0 = slp_c /\ UNCHANGED nosched /\ ThreadTypeOK'
    BY <1>2, <1>6 DEF mdx_tsleep_cb
  <2>2. CodeInv' /\ SleepInv'
    BY <1>0, <1>1, <1>4, <2>0 DEF nosched, CodeInv, SleepInv
  <2>3. WaitInv'
    BY <1>0, <1>1, <1>4, <2>0 DEF nosched, localVars, WaitInv
  <2> QED  BY <2>0, <2>2, <2>3
<1>7. CASE mdx_timer_tick
  <2>0. Period \in Int
    BY NoschedAssumption DEF Period
  <2>1. /\ c0 = tmr_c /\ c0' = tmr_c /\ pc = "func" /\ pc' = "walk"
        /\ UNCHANGED <<active, cstate, tmr_state>>
    BY <1>7 DEF mdx_timer_tick, Queue!mdx_callout_set_ticks_locked, Queue!set_begin
  <2>x. periods' \in 0 .. MaxPeriods
    BY <1>7, NoschedAssumption DEF mdx_timer_tick, ThreadTypeOK
  <2>2. ThreadTypeOK'
    BY <1>7, <2>0, <2>x DEF mdx_timer_tick, localVars, ThreadTypeOK
  <2>3. CodeInv' /\ SleepInv'
    BY <1>0, <1>1, <1>7, <2>1 DEF mdx_timer_tick, CodeInv, SleepInv
  <2>4. WaitInv'
    BY <1>0, <1>1, <1>7, <2>1 DEF mdx_timer_tick, localVars, WaitInv
  <2> QED  BY <2>2, <2>3, <2>4
<1>8. CASE DeviceRaises
  <2>1. ThreadTypeOK' /\ CodeInv' /\ SleepInv'
    BY <1>8 DEF DeviceRaises, queueVars, localVars, timerVars, ThreadTypeOK,
       CodeInv, SleepInv
  <2>2. WaitInv'
    BY <1>8 DEF DeviceRaises, queueVars, localVars, WaitInv
  <2> QED  BY <2>1, <2>2
<1>9. CASE DeviceIntr
  <2>0. ~dev' /\ dev' \in BOOLEAN
    BY <1>9, Zenon DEF DeviceIntr
  <2>1. sem_count' \in 0 .. MaxCount
    BY <1>0, <1>9 DEF DeviceIntr, ThreadTypeOK
  <2>2. ThreadTypeOK'
    BY <1>9, <2>0, <2>1, Zenon DEF DeviceIntr, localVars, timerVars, ThreadTypeOK
  <2>3. CodeInv' /\ SleepInv'
    BY <1>9 DEF DeviceIntr, queueVars, CodeInv, SleepInv
  <2>4. WaitInv'
    BY <1>9 DEF DeviceIntr, queueVars, localVars, WaitInv
  <2> QED  BY <2>2, <2>3, <2>4
<1>10. CASE TimerIntr
  <2>1. /\ ~Masked /\ pc = "idle" /\ pc' \in {"idle", "lock"} /\ UNCHANGED nosched
        /\ UNCHANGED <<active, cstate, c0>>
    BY <1>10 DEF TimerIntr, Queue!TimerIntr, Queue!Leave
  <2>2. ThreadTypeOK' /\ CodeInv' /\ SleepInv'
    BY <1>0, <1>2, <2>1 DEF nosched, CodeInv, SleepInv
  <2>3. WaitInv'
    BY <1>0, <2>1 DEF nosched, localVars, WaitInv
  <2> QED  BY <2>2, <2>3
<1>11. CASE Tick
  <2>1. UNCHANGED <<active, cstate, c0, pc, tmr_state>>
    BY <1>11 DEF Tick, Queue!TimerTick, Queue!locals
  <2>2. UNCHANGED <<tpc, usec, configured, timeout, got, sem_count, dev, started, periods>>
        /\ behind' \in Int
    BY <1>11, NoschedAssumption DEF Tick, localVars, ThreadTypeOK
  <2>3. ThreadTypeOK' /\ CodeInv' /\ SleepInv'
    BY <2>1, <2>2 DEF ThreadTypeOK, CodeInv, SleepInv
  <2>4. WaitInv'
    BY <2>1, <2>2 DEF WaitInv
  <2> QED  BY <2>3, <2>4
<1> QED
  BY <1>3, <1>5, <1>6, <1>7, <1>8, <1>9, <1>10, <1>11 DEF HandlerStep

\* The inductive invariant holds: who owns a callout, and what the thread that
\* owns it has done so far.
THEOREM NoschedInvariant == Spec => [](QueueInvs /\ NoschedInv)
<1>1. Init => QueueInvs /\ NoschedInv
  BY QueueInvsInit, NoschedInvInit
<1>2. QueueInvs /\ NoschedInv /\ [Next]_vars => (QueueInvs /\ NoschedInv)'
  <2> SUFFICES ASSUME QueueInvs, NoschedInv, [Next]_vars
               PROVE  (QueueInvs /\ NoschedInv)'
    OBVIOUS
  <2>1. QueueInvs'
    BY QueueInvsNext DEF NoschedInv
  <2>2. CASE Next
    BY <2>1, <2>2, ThreadStepInv, HandlerStepInv DEF Next
  <2>3. CASE UNCHANGED vars
    <3>1. ThreadTypeOK' /\ CodeInv' /\ SleepInv'
      BY <2>3 DEF vars, queueVars, nosched, localVars, timerVars, NoschedInv,
         ThreadTypeOK, CodeInv, SleepInv, Using, Sleeping, Masked
    <3>2. WaitInv'
      BY <2>3 DEF vars, queueVars, nosched, localVars, NoschedInv,
         WaitInv, Using, Waiting
    <3> QED  BY <2>1, <3>1, <3>2 DEF NoschedInv
  <2> QED  BY <2>2, <2>3
<1> QED  BY <1>1, <1>2, PTL DEF Spec

\* No callout outlives the call that set it: whatever the order of posts,
\* timeouts and interrupts, the queue and mdx_sem_cb never use a callout or a
\* token of a stack frame that is gone.
THEOREM NoDanglingCalloutHolds == Spec => []NoDanglingCallout
<1>1. QueueInvs /\ NoschedInv => NoDanglingCallout
  <2> SUFFICES ASSUME QueueInvs, NoschedInv  PROVE NoDanglingCallout
    OBVIOUS
  <2>1. Queue!TypeOK
    BY DEF QueueInvs, QP!QueueInv, QP!TypeOK, QP!QueueTypeOK, QP!TimerTypeOK,
       QP!LocalTypeOK, QP!PCs, Queue!TypeOK, Queue!QueueTypeOK,
       Queue!TimerTypeOK, Queue!LocalTypeOK, Queue!PCs
  <2>2. TypeOK
    BY <2>1 DEF TypeOK, NoschedInv, ThreadTypeOK
  <2>3. ASSUME NEW k \in {td_c, slp_c, tmr_c},
               NEW i \in DOMAIN callouts_list, callouts_list[i] = k
        PROVE  Using(k)
    BY <2>3 DEF QueueInvs, QP!QueueInv, QP!ListIntegrity, QP!OnList, Using
  <2>4. Using(td_c) => Waiting
    BY DEF NoschedInv, WaitInv
  <2>5. Using(slp_c) => Sleeping
    BY DEF NoschedInv, SleepInv
  <2> QED  BY <2>2, <2>3, <2>4, <2>5 DEF NoDanglingCallout, Using
<1> QED  BY <1>1, NoschedInvariant, PTL

\* No wakeup is lost: a thread that is idle in a wait has left no permit and
\* no timeout behind, and its callout is on the queue with the timer running,
\* for every set of timeouts and any frequency of the timer.
THEOREM NoLostWakeupHolds == Spec => []NoLostWakeup
<1>1. QueueInvs /\ NoschedInv => NoLostWakeup
  <2> SUFFICES ASSUME QueueInvs, NoschedInv, tpc = "idle"
               PROVE  /\ sem_count = 0
                      /\ ~timeout
                      /\ usec_to_ticks(Freq, usec) > 0 =>
                           /\ td_c \in active \/ (c0 = td_c /\ pc \in {"walk", "armed"})
                           /\ pc = "idle" => compare # NULL \/ irq = "raised"
    BY DEF NoLostWakeup
  <2>1. sem_count = 0 /\ ~timeout
    BY DEF NoschedInv, WaitInv
  <2>2. ASSUME usec_to_ticks(Freq, usec) > 0
        PROVE  /\ td_c \in active \/ (c0 = td_c /\ pc \in {"walk", "armed"})
               /\ pc = "idle" => compare # NULL \/ irq = "raised"
    <3>1. usec # 0
      <4>1. ASSUME NEW q \in Int  PROVE (q * 0) \div Word = 0
        BY NoschedAssumption
      <4>2. (Freq * Word) \div Million \in Int
        BY NoschedAssumption
      <4>3. usec_to_ticks(Freq, 0) = 0
        BY <4>1, <4>2 DEF usec_to_ticks
      <4> QED  BY <2>2, <4>3
    <3>2. configured
      BY <3>1 DEF NoschedInv, WaitInv
    <3>3. pc \in {"idle", "walk", "armed"}
      BY DEF NoschedInv, CodeInv, Masked
    <3>4. td_c \in active \/ (c0 = td_c /\ pc \in {"walk", "armed"})
      BY <2>1, <2>2, <3>2, <3>3 DEF NoschedInv, WaitInv, Waiting
    <3>5. ASSUME pc = "idle"  PROVE compare # NULL \/ irq = "raised"
      <4>1. td_c \in active
        BY <3>4, <3>5
      <4>2. callouts_list # <<>> /\ tmr_state = "running"
        BY <3>5, <4>1 DEF QueueInvs, QP!QueueInv, QP!ListIntegrity, QP!OnList,
           QP!Shape, QP!TypeOK, QP!TimerTypeOK
      <4> QED  BY <3>5, <4>2 DEF QueueInvs, QP!ArmedInv, QP!Programmed
    <3> QED  BY <3>4, <3>5
  <2> QED  BY <2>1, <2>2
<1> QED  BY <1>1, NoschedInvariant, PTL

\* The semaphore of the kernel without a scheduler is one: every step of the
\* thread, of the device and of the queue is a step of SemSpec or leaves its
\* variables alone.
THEOREM SemaphoreHolds == Spec => Semaphore
<1> DEFINE w == IF Waiting THEN {"thread"} ELSE {}
           h == IF got THEN {"thread"} ELSE {}
<1>1. Init => Sem!Init
  BY DEF Init, Sem!Init, Waiting
<1>2. NoschedInv /\ [Next]_vars => [Sem!Next]_(Sem!vars)
  <2> SUFFICES ASSUME NoschedInv, [Next]_vars
               PROVE  Sem!Next \/ UNCHANGED <<sem_count, w, h>>
    BY DEF Sem!vars
  <2>1. CASE wait_take
    <3>1. Sem!Take("thread")
      BY <2>1 DEF wait_take, Go, Return, Waiting, Sem!Take, NoschedInv, WaitInv
    <3> QED  BY <3>1 DEF Sem!Next
  <2>2. CASE wait_timeout
    <3>1. Sem!Timeout("thread")
      BY <2>2 DEF wait_timeout, Go, Return, Waiting, Sem!Timeout, NoschedInv, WaitInv
    <3> QED  BY <3>1 DEF Sem!Next
  <2>3. CASE \E us \in WaitUsecs \cup {0} : wait_call(us)
    <3>1. Sem!Wait("thread")
      BY <2>3 DEF wait_call, Go, Waiting, Sem!Wait
    <3> QED  BY <3>1 DEF Sem!Next
  <2>4. CASE mdx_sem_trywait
    <3>1. Sem!TryWait("thread")
      BY <2>4 DEF mdx_sem_trywait, Go, Waiting, Sem!TryWait
    <3> QED  BY <3>1 DEF Sem!Next
  <2>5. CASE DeviceIntr
    <3>1. Sem!Post
      BY <2>5 DEF DeviceIntr, localVars, Waiting, Sem!Post
    <3> QED  BY <3>1 DEF Sem!Next
  <2>6. CASE wait_set \/ wait_idle \/ cpu_idle \/ wait_again \/ sleep_check
    <3>1. UNCHANGED <<sem_count, got>> /\ (Waiting' <=> Waiting)
      BY <2>6 DEF wait_set, wait_idle, cpu_idle, wait_again, sleep_check, Go,
         localVars, Waiting
    <3> QED  BY <3>1
  <2>7. CASE (\E us \in SleepUsecs : mdx_usleep(us)) \/ mdx_uptime_init
    <3>1. UNCHANGED <<sem_count, got>> /\ (Waiting' <=> Waiting)
      BY <2>7 DEF mdx_usleep, mdx_uptime_init, Go, localVars, Waiting
    <3> QED  BY <3>1
  <2>8. CASE HandlerStep \/ DeviceRaises \/ TimerIntr \/ Tick \/ UNCHANGED vars
    <3>1. UNCHANGED <<sem_count, got, tpc>>
      BY <2>8 DEF HandlerStep, QueueStep, mdx_sem_cb, mdx_tsleep_cb,
         mdx_timer_tick, DeviceRaises, TimerIntr, Tick, vars, nosched, localVars
    <3> QED  BY <3>1 DEF Waiting
  <2> QED
    BY <2>1, <2>2, <2>3, <2>4, <2>5, <2>6, <2>7, <2>8
       DEF Next, ThreadStep, CallStep
<1>3. Spec => []NoschedInv
  BY NoschedInvariant, PTL
<1> QED  BY <1>1, <1>2, <1>3, PTL DEF Spec, Semaphore, Sem!Spec

-----------------------------------------------------------------------------
\* The quotient and the remainder of a division.
LEMMA Quotient ==
  ASSUME NEW a \in Nat, NEW b \in Nat \ {0}
  PROVE  /\ a \div b \in Nat
         /\ \E r \in 0 .. b - 1 : a = b * (a \div b) + r
<1>1. a \div b \in Nat
  OBVIOUS
<1>2. a % b \in 0 .. b - 1
  OBVIOUS
<1>3. a = b * (a \div b) + (a % b)
  OBVIOUS
<1> QED  BY <1>1, <1>2, <1>3

\* A product with a smaller factor is smaller.
LEMMA ProductLess ==
  ASSUME NEW a \in Nat, NEW b \in Nat, NEW c \in Nat, a < b, c > 0
  PROVE  a * c < b * c
OBVIOUS

\* usec_to_ticks rounds down, and loses at most one tick beside the fraction:
\* with q, t and e the three quotients, Word * Million * (e - t) lies between
\* - Word * Million and 2 * Word * Million.
LEMMA ConversionBound ==
  ASSUME NEW f \in Nat, NEW us \in 0 .. Word - 1
  PROVE  LET exact == (f * us) \div Million
         IN  usec_to_ticks(f, us) \in {exact, exact - 1}
<1>0. Million \in Nat \ {0} /\ Word \in Nat \ {0}
  BY NoschedAssumption
<1>1. PICK q \in Nat : q = (f * Word) \div Million
  BY <1>0, Quotient
<1>2. PICK r \in 0 .. Million - 1 : f * Word = Million * q + r
  BY <1>0, <1>1, Quotient
<1>x. q * us \in Nat /\ f * us \in Nat
  BY <1>0
<1>3. PICK t \in Nat : t = (q * us) \div Word
  BY <1>0, Quotient
<1>4. PICK s \in 0 .. Word - 1 : q * us = Word * t + s
  BY <1>0, <1>x, <1>3, Quotient
<1>5. PICK e \in Nat : e = (f * us) \div Million
  BY <1>0, Quotient
<1>6. PICK p \in 0 .. Million - 1 : f * us = Million * e + p
  BY <1>0, <1>x, <1>5, Quotient
<1>7. PICK m \in Nat : m = Word * Million
  BY <1>0
<1>8. m * e + Word * p = m * t + s * Million + r * us
  <2>1. (f * Word) * us = (f * us) * Word
    BY <1>0
  <2>2. (f * Word) * us = Million * (q * us) + r * us
    BY <1>0, <1>2
  <2>3. Million * (q * us) = m * t + s * Million
    BY <1>0, <1>4, <1>7
  <2>4. (f * us) * Word = m * e + Word * p
    BY <1>0, <1>6, <1>7
  <2>5. /\ (f * Word) * us \in Int /\ Million * (q * us) \in Int
        /\ r * us \in Int /\ (f * us) * Word \in Int
    BY <1>0
  <2> QED  BY <2>1, <2>2, <2>3, <2>4, <2>5
<1>9. PICK sM \in Nat : sM = s * Million /\ sM < m
  BY <1>0, <1>7, ProductLess
<1>10. PICK Wp \in Nat : Wp = Word * p /\ Wp < m
  <2>1. p * Word < Million * Word
    BY <1>0, ProductLess
  <2>2. p * Word = Word * p /\ Million * Word = m
    BY <1>0, <1>7
  <2> QED  BY <1>0, <2>1, <2>2
<1>11. PICK ru \in Nat : ru = r * us /\ ru < m
  <2>1. CASE us = 0
    <3>1. r * us = 0 /\ m > 0
      BY <1>0, <1>7, <2>1
    <3> QED  BY <3>1
  <2>2. CASE us > 0
    <3>1. r * us < Million * us
      BY <1>0, <2>2, ProductLess
    <3>2. us * Million < Word * Million
      BY <1>0, ProductLess
    <3>3. r * us \in Nat /\ Million * us = us * Million /\ Million * us \in Nat
      BY <1>0
    <3> QED  BY <1>7, <3>1, <3>2, <3>3
  <2> QED  BY <2>1, <2>2
<1>12. m * e + Wp = m * t + sM + ru
  BY <1>8, <1>9, <1>10, <1>11
<1>13. ~ (e < t)
  <2> SUFFICES ASSUME e < t  PROVE FALSE
    OBVIOUS
  <2>1. m * t >= m * (e + 1)
    BY <1>12
  <2>2. m * (e + 1) = m * e + m
    OBVIOUS
  <2>3. m * t \in Nat /\ m * e \in Nat
    OBVIOUS
  <2> QED  BY <1>9, <1>10, <1>11, <1>12, <2>1, <2>2, <2>3
<1>14. ~ (e > t + 1)
  <2> SUFFICES ASSUME e > t + 1  PROVE FALSE
    OBVIOUS
  <2>1. m * e >= m * (t + 2)
    BY <1>12
  <2>2. m * (t + 2) = m * t + m + m
    OBVIOUS
  <2>3. m * t \in Nat /\ m * e \in Nat
    OBVIOUS
  <2> QED  BY <1>9, <1>10, <1>11, <1>12, <2>1, <2>2, <2>3
<1>15. t \in {e, e - 1}
  BY <1>13, <1>14
<1> QED  BY <1>1, <1>3, <1>5, <1>15 DEF usec_to_ticks

\* The conversion to ticks is exact but for one tick and never rounds up, for
\* every frequency, every fixed point and every time below it, and so whenever
\* a thread calls mdx_cputime_usec_to_ticks.
THEOREM ConversionCloseHolds == UsecToTicksClose /\ (Spec => []ConversionClose)
<1>1. 1 .. MaxFreq \subseteq Nat
  BY NoschedAssumption
<1>2. UsecToTicksClose
  BY <1>1, ConversionBound DEF UsecToTicksClose
<1>3. ConversionClose
  BY <1>2 DEF ConversionClose
<1> QED  BY <1>2, <1>3, PTL

-----------------------------------------------------------------------------
(***************************************************************************)
(* The proof that mdx_timer_tick is not called early.                      *)
(*                                                                         *)
(* at[k] is the sum of the ticks up to callout k of the list.  A callout   *)
(* function that sets the timer again may put it before the callout that   *)
(* the loop of mdx_callout_callback looks at, so the elapsed ticks are not *)
(* always charged to the first callout; the invariant says when they are.  *)
(***************************************************************************)

\* The sum of the ticks before place i of list l.
Before(l, at, i) == IF i = 1 THEN 0 ELSE at[l[i - 1]]

\* The ticks tk of list l are the differences of the sums at, which fit a word.
Deltas(l, tk, at) ==
  \A i \in 1 .. Len(l) :
    /\ at[l[i]] \in 0 .. WordMax
    /\ tk[l[i]] = at[l[i]] - Before(l, at, i)

\* The callouts from place p on are due d sooner in bt than in at.
Sooner(l, at, bt, p, d) ==
  \A j \in 1 .. Len(l) : bt[l[j]] = IF j < p THEN at[l[j]] ELSE at[l[j]] - d

\* r is l without its entry at place p.
Without(l, r, p) ==
  /\ Len(r) = Len(l) - 1
  /\ \A j \in 1 .. Len(l) - 1 : r[j] = IF j < p THEN l[j] ELSE l[j + 1]

\* r is l with entry e at place p.
With(l, r, p, e) ==
  /\ Len(r) = Len(l) + 1
  /\ \A j \in 1 .. Len(l) + 1 :
       r[j] = IF j < p THEN l[j] ELSE IF j = p THEN e ELSE l[j - 1]

\* The ticks tl are those of tk for all entries of l but the one at place p.
SameTicks(l, tk, tl, p) == \A j \in 1 .. Len(l) : j # p => tl[l[j]] = tk[l[j]]

\* The types that the lemmas below start from.
ListOf(C, l, tk, at) ==
  l \in Seq(C) /\ Once(l) /\ tk \in [C -> Nat] /\ at \in [C -> Int]

\* What the types say of every place.
LEMMA ListOfFacts ==
  ASSUME NEW C, NEW l, NEW tk, NEW at, ListOf(C, l, tk, at)
  PROVE  /\ Len(l) \in Nat
         /\ \A n \in 1 .. Len(l) : l[n] \in C
         /\ \A n \in 1 .. Len(l) : at[l[n]] \in Int
         /\ \A n \in 1 .. Len(l) : tk[l[n]] \in Nat
BY LenProperties DEF ListOf

\* One place of the list, in terms of numbers.
LEMMA DeltaAt ==
  ASSUME NEW C, NEW l, NEW tk, NEW at, ListOf(C, l, tk, at), Deltas(l, tk, at),
         NEW i \in 1 .. Len(l)
  PROVE  /\ at[l[i]] \in Nat /\ at[l[i]] <= WordMax
         /\ Before(l, at, i) \in Nat
         /\ tk[l[i]] = at[l[i]] - Before(l, at, i)
         /\ tk[l[i]] \in Nat
<1>1. Len(l) \in Nat /\ WordMax \in Nat
  BY ListOfFacts, NoschedAssumption
<1>2. \A n \in 1 .. Len(l) : at[l[n]] \in 0 .. WordMax
  BY DEF Deltas
<1>3. at[l[i]] \in Nat /\ at[l[i]] <= WordMax
  BY <1>1, <1>2
<1>4. Before(l, at, i) \in Nat
  <2>1. CASE i = 1
    BY <2>1 DEF Before
  <2>2. CASE i # 1
    <3>1. i - 1 \in 1 .. Len(l)
      BY <1>1, <2>2
    <3>2. at[l[i - 1]] \in Nat
      BY <1>1, <1>2, <3>1
    <3> QED  BY <2>2, <3>2 DEF Before
  <2> QED  BY <2>1, <2>2
<1>5. tk[l[i]] = at[l[i]] - Before(l, at, i)
  BY DEF Deltas
<1>6. tk[l[i]] \in Nat
  BY ListOfFacts
<1> QED  BY <1>3, <1>4, <1>5, <1>6

\* The sums grow along the list.
LEMMA DeltasSorted ==
  ASSUME NEW C, NEW l, NEW tk, NEW at, ListOf(C, l, tk, at), Deltas(l, tk, at),
         NEW i \in 1 .. Len(l), NEW j \in i .. Len(l)
  PROVE  at[l[i]] <= at[l[j]]
<1>0. Len(l) \in Nat /\ \A n \in 1 .. Len(l) : at[l[n]] \in Int
  BY ListOfFacts
<1> DEFINE P(n) == at[l[i]] <= at[l[n]]
<1>1. P(i)
  BY <1>0
<1>2. ASSUME NEW n \in i .. Len(l) - 1, P(n)  PROVE P(n + 1)
  <2>1. n + 1 \in 1 .. Len(l) /\ n + 1 # 1 /\ (n + 1) - 1 = n /\ n \in 1 .. Len(l)
    BY <1>0
  <2>2. PICK k \in 1 .. Len(l) : k = n + 1
    BY <2>1
  <2>3. Before(l, at, k) = at[l[n]]
    BY <2>1, <2>2 DEF Before
  <2>4. at[l[k]] \in Nat /\ tk[l[k]] = at[l[k]] - at[l[n]] /\ tk[l[k]] \in Nat
    BY <2>3, DeltaAt
  <2> QED  BY <1>0, <1>2, <2>1, <2>2, <2>4
<1> HIDE DEF P
<1>3. P(j)
  <2> SUFFICES ASSUME ~P(j)  PROVE FALSE
    OBVIOUS
  <2> DEFINE U == {n \in i .. Len(l) : ~P(n)}
  <2>1. U \in SUBSET Nat /\ U # {}
    BY <1>0
  <2>2. PICK x \in U : \A y \in U : x <= y
    <3> HIDE DEF U
    <3> QED  BY <2>1, LeastNat
  <2>3. x \in i .. Len(l) /\ ~P(x) /\ x \in Nat
    BY <1>0, <2>2
  <2>4. x - 1 \notin U
    <3> HIDE DEF U
    <3> QED  BY <2>2, <2>3
  <2>5. x # i
    BY <1>1, <2>3
  <2>6. x - 1 \in i .. Len(l) - 1 /\ x - 1 \in i .. Len(l)
    BY <1>0, <2>3, <2>5
  <2>7. P(x - 1)
    BY <2>4, <2>6
  <2>8. P((x - 1) + 1) /\ (x - 1) + 1 = x
    BY <1>2, <2>3, <2>6, <2>7
  <2> QED  BY <2>3, <2>8
<1> QED  BY <1>3 DEF P

\* The sums after the callouts from place p on have become due d sooner.
LEMMA SoonerExists ==
  ASSUME NEW C, NEW l, NEW tk, NEW at, ListOf(C, l, tk, at),
         NEW p \in Nat, NEW d \in Int
  PROVE  \E bt \in [C -> Int] : Sooner(l, at, bt, p, d)
<1>0. /\ Len(l) \in Nat /\ \A n \in 1 .. Len(l) : l[n] \in C
      /\ at \in [C -> Int] /\ Once(l)
  BY ListOfFacts DEF ListOf
<1>1. PICK bt : bt = [c \in C |-> IF \E j \in 1 .. Len(l) : j < p /\ l[j] = c
                                  THEN at[c] ELSE at[c] - d]
  OBVIOUS
<1>2. bt \in [C -> Int]
  BY <1>0, <1>1
<1>3. ASSUME NEW j \in 1 .. Len(l)
      PROVE  bt[l[j]] = IF j < p THEN at[l[j]] ELSE at[l[j]] - d
  <2>1. CASE j < p
    BY <1>0, <1>1, <2>1
  <2>2. CASE j >= p
    <3>1. ~ \E i \in 1 .. Len(l) : i < p /\ l[i] = l[j]
      BY <1>0, <2>2 DEF Once
    <3> QED  BY <1>0, <1>1, <2>2, <3>1
  <2> QED  BY <1>0, <2>1, <2>2
<1> QED  BY <1>2, <1>3 DEF Sooner

\* A callout that has fired takes its ticks away from those behind it.
LEMMA DeltasDrop ==
  ASSUME NEW C, NEW l, NEW tk, NEW at, ListOf(C, l, tk, at), Deltas(l, tk, at),
         NEW p \in 1 .. Len(l), NEW r, Without(l, r, p),
         NEW tl, SameTicks(l, tk, tl, p),
         NEW bt, Sooner(l, at, bt, p, tk[l[p]])
  PROVE  Deltas(r, tl, bt)
<1>0. Len(l) \in Nat /\ Len(r) = Len(l) - 1 /\ WordMax \in Nat
  BY ListOfFacts, NoschedAssumption DEF Without
<1> SUFFICES ASSUME NEW i \in 1 .. Len(r)
             PROVE  bt[r[i]] \in 0 .. WordMax /\ tl[r[i]] = bt[r[i]] - Before(r, bt, i)
  BY DEF Deltas
<1>1. i \in 1 .. Len(l) /\ i \in 1 .. Len(l) - 1 /\ i + 1 \in 1 .. Len(l)
  BY <1>0
<1>2. CASE i < p
  <2>1. r[i] = l[i] /\ bt[l[i]] = at[l[i]] /\ tl[l[i]] = tk[l[i]]
    BY <1>0, <1>1, <1>2 DEF Without, Sooner, SameTicks
  <2>2. Before(r, bt, i) = Before(l, at, i)
    <3>1. CASE i = 1
      BY <3>1 DEF Before
    <3>2. CASE i # 1
      <4>1. i - 1 \in 1 .. Len(l) - 1 /\ i - 1 \in 1 .. Len(l) /\ i - 1 < p
        BY <1>0, <1>1, <1>2, <3>2
      <4>2. r[i - 1] = l[i - 1] /\ bt[l[i - 1]] = at[l[i - 1]]
        BY <4>1 DEF Without, Sooner
      <4> QED  BY <3>2, <4>2 DEF Before
    <3> QED  BY <3>1, <3>2
  <2>3. /\ at[l[i]] \in Nat /\ at[l[i]] <= WordMax
        /\ tk[l[i]] = at[l[i]] - Before(l, at, i)
    BY <1>1, DeltaAt
  <2> QED  BY <1>0, <2>1, <2>2, <2>3
<1>3. CASE i >= p
  <2>1. PICK k \in 1 .. Len(l) : k = i + 1
    BY <1>1
  <2>2. PICK d \in Nat : d = tk[l[p]]
    BY ListOfFacts
  <2>3. ~(i < p) /\ ~(k < p) /\ k # p /\ k # 1 /\ k - 1 = i
    BY <1>0, <1>3, <2>1
  <2>4. r[i] = l[k] /\ bt[l[k]] = at[l[k]] - d /\ tl[l[k]] = tk[l[k]]
    BY <1>1, <2>1, <2>2, <2>3 DEF Without, Sooner, SameTicks
  <2>5. Before(l, at, k) = at[l[i]]
    BY <2>3 DEF Before
  <2>6. at[l[p]] <= at[l[k]]
    <3>1. k \in p .. Len(l)
      BY <1>0, <1>3, <2>1
    <3> QED  BY <3>1, DeltasSorted
  <2>7. PICK b \in Nat : b = Before(l, at, p) /\ d = at[l[p]] - b
    BY <2>2, DeltaAt
  <2>8. at[l[p]] \in Nat /\ at[l[k]] \in Nat /\ at[l[k]] <= WordMax
    BY DeltaAt
  <2>9. bt[r[i]] \in 0 .. WordMax
    <3>1. PICK a \in Nat : a = at[l[k]] /\ a <= WordMax /\ at[l[p]] <= a
      BY <2>6, <2>8
    <3>2. d <= a
      BY <2>7, <2>8, <3>1
    <3>3. a - d \in 0 .. WordMax
      BY <1>0, <3>1, <3>2
    <3> QED  BY <2>4, <3>1, <3>3
  <2>10. tk[l[k]] = at[l[k]] - at[l[i]]
    BY <2>5, DeltaAt
  <2>11. Before(r, bt, i) = at[l[i]] - d
    <3>1. CASE i = p
      <4>1. Before(r, bt, i) = b
        <5>1. CASE i = 1
          BY <2>7, <3>1, <5>1 DEF Before
        <5>2. CASE i # 1
          <6>1. i - 1 \in 1 .. Len(l) - 1 /\ i - 1 \in 1 .. Len(l) /\ i - 1 < p
            BY <1>0, <1>1, <3>1, <5>2
          <6>2. r[i - 1] = l[i - 1] /\ bt[l[i - 1]] = at[l[i - 1]]
            BY <6>1 DEF Without, Sooner
          <6> QED  BY <2>7, <3>1, <5>2, <6>2 DEF Before
        <5> QED  BY <5>1, <5>2
      <4>2. at[l[i]] - d = b
        BY <2>2, <2>7, <2>8, <3>1
      <4> QED  BY <4>1, <4>2
    <3>2. CASE i > p
      <4>1. /\ i - 1 \in 1 .. Len(l) - 1 /\ ~(i - 1 < p) /\ (i - 1) + 1 = i
            /\ ~(i < p) /\ i # 1
        BY <1>0, <1>1, <3>2
      <4>2. r[i - 1] = l[i] /\ bt[l[i]] = at[l[i]] - d
        BY <1>1, <2>2, <4>1 DEF Without, Sooner
      <4> QED  BY <4>1, <4>2 DEF Before
    <3> QED  BY <1>0, <1>3, <3>1, <3>2
  <2>12. at[l[i]] \in Nat
    BY <1>1, DeltaAt
  <2>13. tl[r[i]] = bt[r[i]] - Before(r, bt, i)
    BY <2>2, <2>4, <2>8, <2>10, <2>11, <2>12
  <2> QED  BY <2>9, <2>13
<1> QED  BY <1>0, <1>2, <1>3

\* The callout at place p is charged with d ticks.
LEMMA DeltasCharge ==
  ASSUME NEW C, NEW l, NEW tk, NEW at, ListOf(C, l, tk, at), Deltas(l, tk, at),
         NEW p \in 1 .. Len(l), NEW d \in Nat, d <= tk[l[p]],
         NEW tl, SameTicks(l, tk, tl, p), tl[l[p]] = tk[l[p]] - d,
         NEW bt, Sooner(l, at, bt, p, d)
  PROVE  Deltas(l, tl, bt)
<1>0. Len(l) \in Nat /\ WordMax \in Nat
  BY ListOfFacts, NoschedAssumption
<1> SUFFICES ASSUME NEW i \in 1 .. Len(l)
             PROVE  bt[l[i]] \in 0 .. WordMax /\ tl[l[i]] = bt[l[i]] - Before(l, bt, i)
  BY DEF Deltas
<1>1. ASSUME i <= p  PROVE Before(l, bt, i) = Before(l, at, i)
  <2>1. CASE i = 1
    BY <2>1 DEF Before
  <2>2. CASE i # 1
    <3>1. i - 1 \in 1 .. Len(l) /\ i - 1 < p
      BY <1>0, <1>1, <2>2
    <3>2. bt[l[i - 1]] = at[l[i - 1]]
      BY <3>1 DEF Sooner
    <3> QED  BY <2>2, <3>2 DEF Before
  <2> QED  BY <2>1, <2>2
<1>2. PICK a \in Nat : a = at[l[i]] /\ a <= WordMax
  BY DeltaAt
<1>3. PICK b \in Nat : b = Before(l, at, i) /\ tk[l[i]] = a - b
  BY <1>2, DeltaAt
<1>4. CASE i < p
  <2>1. bt[l[i]] = a /\ tl[l[i]] = tk[l[i]]
    BY <1>0, <1>2, <1>4 DEF Sooner, SameTicks
  <2>2. Before(l, bt, i) = b
    BY <1>0, <1>1, <1>3, <1>4
  <2> QED  BY <1>0, <1>2, <1>3, <2>1, <2>2
<1>5. CASE i >= p
  <2>1. bt[l[i]] = a - d
    BY <1>0, <1>2, <1>5 DEF Sooner
  <2>2. PICK ap \in Nat, bp \in Nat : ap = at[l[p]] /\ tk[l[p]] = ap - bp
    <3>1. /\ at[l[p]] \in Nat /\ Before(l, at, p) \in Nat
          /\ tk[l[p]] = at[l[p]] - Before(l, at, p)
      BY DeltaAt
    <3> QED  BY <3>1, Zenon
  <2>3. ap <= a
    <3>1. i \in p .. Len(l)
      BY <1>0, <1>5
    <3> QED  BY <1>2, <2>2, <3>1, DeltasSorted
  <2>4. bt[l[i]] \in 0 .. WordMax
    BY <1>0, <1>2, <2>1, <2>2, <2>3
  <2>5. CASE i = p
    BY <1>0, <1>1, <1>2, <1>3, <2>1, <2>4, <2>5
  <2>6. CASE i > p
    <3>1. i - 1 \in 1 .. Len(l) /\ i # 1 /\ ~(i - 1 < p) /\ i # p
      BY <1>0, <2>6
    <3>2. bt[l[i - 1]] = at[l[i - 1]] - d /\ tl[l[i]] = tk[l[i]]
      BY <3>1 DEF Sooner, SameTicks
    <3>3. Before(l, bt, i) = b - d
      BY <1>3, <3>1, <3>2 DEF Before
    <3> QED  BY <1>2, <1>3, <2>1, <2>4, <3>2, <3>3
  <2> QED  BY <1>0, <1>5, <2>5, <2>6
<1> QED  BY <1>0, <1>4, <1>5

\* The successor of a cancelled callout takes over its ticks; the sum fits.
LEMMA DeltasMerge ==
  ASSUME NEW C, NEW l, NEW tk, NEW at, ListOf(C, l, tk, at), Deltas(l, tk, at),
         NEW p \in 1 .. Len(l), NEW r, Without(l, r, p),
         NEW tl, SameTicks(l, tk, tl, p + 1),
         p < Len(l) /\ tk[l[p + 1]] + tk[l[p]] <= WordMax
           => tl[l[p + 1]] = tk[l[p + 1]] + tk[l[p]]
  PROVE  Deltas(r, tl, at)
<1>0. Len(l) \in Nat /\ Len(r) = Len(l) - 1 /\ WordMax \in Nat
  BY ListOfFacts, NoschedAssumption DEF Without
<1> SUFFICES ASSUME NEW i \in 1 .. Len(r)
             PROVE  at[r[i]] \in 0 .. WordMax /\ tl[r[i]] = at[r[i]] - Before(r, at, i)
  BY DEF Deltas
<1>1. i \in 1 .. Len(l) /\ i \in 1 .. Len(l) - 1 /\ i + 1 \in 1 .. Len(l)
  BY <1>0
<1>2. ASSUME i <= p  PROVE Before(r, at, i) = Before(l, at, i)
  <2>1. CASE i = 1
    BY <2>1 DEF Before
  <2>2. CASE i # 1
    <3>1. i - 1 \in 1 .. Len(l) - 1 /\ i - 1 < p
      BY <1>0, <1>2, <2>2
    <3>2. r[i - 1] = l[i - 1]
      BY <3>1 DEF Without
    <3> QED  BY <2>2, <3>2 DEF Before
  <2> QED  BY <2>1, <2>2
<1>3. CASE i < p
  <2>1. r[i] = l[i] /\ tl[l[i]] = tk[l[i]]
    BY <1>0, <1>1, <1>3 DEF Without, SameTicks
  <2>2. Before(r, at, i) = Before(l, at, i)
    BY <1>0, <1>2, <1>3
  <2>3. /\ at[l[i]] \in Nat /\ at[l[i]] <= WordMax
        /\ tk[l[i]] = at[l[i]] - Before(l, at, i)
    BY <1>1, DeltaAt
  <2> QED  BY <1>0, <2>1, <2>2, <2>3
<1>4. CASE i >= p
  <2>1. PICK k \in 1 .. Len(l) : k = i + 1
    BY <1>1
  <2>2. r[i] = l[k] /\ k # 1 /\ k - 1 = i /\ ~(i < p)
    BY <1>0, <1>1, <1>4, <2>1 DEF Without
  <2>3. Before(l, at, k) = at[l[i]]
    BY <2>2 DEF Before
  <2>4. PICK a \in Nat : a = at[l[k]] /\ a <= WordMax /\ tk[l[k]] = a - at[l[i]]
    <3>1. at[l[k]] \in Nat /\ at[l[k]] <= WordMax /\ tk[l[k]] = at[l[k]] - Before(l, at, k)
      BY DeltaAt
    <3> QED  BY <2>3, <3>1
  <2>5. CASE i = p
    <3>1. PICK b \in Nat : b = Before(l, at, p) /\ tk[l[p]] = at[l[p]] - b /\ at[l[p]] \in Nat
      BY DeltaAt
    <3>2. tk[l[k]] + tk[l[p]] = a - b
      BY <2>4, <2>5, <3>1
    <3>3. tl[l[k]] = a - b
      BY <1>0, <2>1, <2>4, <2>5, <3>1, <3>2
    <3>4. Before(r, at, i) = b
      BY <1>0, <1>2, <2>5, <3>1
    <3> QED  BY <1>0, <2>2, <2>4, <3>3, <3>4
  <2>6. CASE i > p
    <3>1. tl[l[k]] = tk[l[k]]
      BY <1>0, <2>1, <2>6 DEF SameTicks
    <3>2. i - 1 \in 1 .. Len(l) - 1 /\ ~(i - 1 < p) /\ (i - 1) + 1 = i /\ i # 1
      BY <1>0, <1>1, <2>6
    <3>3. Before(r, at, i) = at[l[i]]
      BY <3>2 DEF Without, Before
    <3> QED  BY <1>0, <2>2, <2>4, <3>1, <3>3
  <2> QED  BY <1>0, <1>4, <2>5, <2>6
<1> QED  BY <1>0, <1>3, <1>4

\* A callout is inserted at place p; the one that was there is counted from it.
LEMMA DeltasInsert ==
  ASSUME NEW C, NEW l, NEW tk, NEW at, ListOf(C, l, tk, at), Deltas(l, tk, at),
         NEW c \in C, NEW p \in 1 .. Len(l) + 1, NEW r, With(l, r, p, c),
         NEW tl, SameTicks(l, tk, tl, p), tl[c] = tk[c],
         at[c] \in 0 .. WordMax, tk[c] = at[c] - Before(l, at, p),
         p <= Len(l) => tl[l[p]] = tk[l[p]] - tk[c]
  PROVE  Deltas(r, tl, at)
<1>0. Len(l) \in Nat /\ Len(r) = Len(l) + 1 /\ WordMax \in Nat
  BY ListOfFacts, NoschedAssumption DEF With
<1> SUFFICES ASSUME NEW i \in 1 .. Len(r)
             PROVE  at[r[i]] \in 0 .. WordMax /\ tl[r[i]] = at[r[i]] - Before(r, at, i)
  BY DEF Deltas
<1>1. i \in 1 .. Len(l) + 1
  BY <1>0
<1>2. ASSUME i <= p  PROVE Before(r, at, i) = Before(l, at, i)
  <2>1. CASE i = 1
    BY <2>1 DEF Before
  <2>2. CASE i # 1
    <3>1. i - 1 \in 1 .. Len(l) + 1 /\ i - 1 < p
      BY <1>0, <1>2, <2>2
    <3>2. r[i - 1] = l[i - 1]
      BY <3>1 DEF With
    <3> QED  BY <2>2, <3>2 DEF Before
  <2> QED  BY <2>1, <2>2
<1>3. CASE i < p
  <2>0. i \in 1 .. Len(l)
    BY <1>0, <1>3
  <2>1. r[i] = l[i] /\ tl[l[i]] = tk[l[i]]
    BY <1>0, <1>1, <1>3, <2>0 DEF With, SameTicks
  <2>2. Before(r, at, i) = Before(l, at, i)
    BY <1>0, <1>2, <1>3
  <2> QED  BY <1>0, <2>0, <2>1, <2>2, DeltaAt
<1>4. CASE i = p
  <2>1. r[i] = c
    BY <1>0, <1>1, <1>4 DEF With
  <2>2. Before(r, at, i) = Before(l, at, p)
    BY <1>0, <1>2, <1>4
  <2> QED  BY <2>1, <2>2
<1>5. CASE i > p
  <2>1. PICK k \in 1 .. Len(l) : k = i - 1
    BY <1>0, <1>1, <1>5
  <2>2. r[i] = l[k] /\ i # 1 /\ ~(i < p) /\ i # p
    BY <1>0, <1>1, <1>5, <2>1 DEF With
  <2>3. PICK a \in Nat : a = at[l[k]] /\ a <= WordMax
    BY DeltaAt
  <2>4. PICK b \in Nat : b = Before(l, at, k) /\ tk[l[k]] = a - b
    BY <2>3, DeltaAt
  <2>5. CASE k = p
    <3>1. Before(r, at, i) = at[c]
      <4>1. r[i - 1] = c
        BY <1>0, <2>1, <2>5 DEF With
      <4> QED  BY <2>2, <4>1 DEF Before
    <3>2. tl[l[k]] = tk[l[k]] - tk[c] /\ tk[c] = at[c] - b
      BY <1>0, <2>4, <2>5
    <3>3. at[c] \in Nat
      BY <1>0
    <3> QED  BY <1>0, <2>2, <2>3, <2>4, <3>1, <3>2, <3>3
  <2>6. CASE k > p
    <3>1. tl[l[k]] = tk[l[k]]
      BY <1>0, <2>6 DEF SameTicks
    <3>2. Before(r, at, i) = b
      <4>1. k \in 1 .. Len(l) + 1 /\ ~(k < p) /\ k # p /\ k # 1
        BY <1>0, <2>6
      <4>2. r[k] = l[k - 1]
        BY <4>1 DEF With
      <4> QED  BY <2>1, <2>2, <2>4, <4>1, <4>2 DEF Before
    <3> QED  BY <1>0, <2>2, <2>3, <2>4, <3>1, <3>2
  <2> QED  BY <1>0, <1>1, <1>5, <2>1, <2>5, <2>6
<1> QED  BY <1>0, <1>3, <1>4, <1>5

-----------------------------------------------------------------------------
K3 == {td_c, slp_c, tmr_c}

\* The q-th entry of list l, NULL beyond its end.
EntryOf(l, q) == IF q \in 1 .. Len(l) THEN l[q] ELSE NULL
Entry(q) == EntryOf(callouts_list, q)

\* The loop of mdx_callout_callback has not come to its end, and the callout
\* that it looks at next.
InLoop ==
  \/ pc \in {"lock", "loop", "func"}
  \/ pc \in {"walk", "armed"} /\ tmr_state = "exception"
Cursor == IF pc = "lock" THEN Entry(1) ELSE IF pc = "loop" THEN cur ELSE tmp

\* The ticks that the loop still takes off the callouts from the first one on.
Charge == IF InLoop /\ Cursor = Entry(1) THEN elapsed ELSE 0

\* The loop is at the first callout, or only the timer has been put before it.
CursorInv ==
  /\ InLoop => /\ elapsed <= MaxCnt
               /\ \/ Cursor = Entry(1)
                  \/ Entry(1) = tmr_c /\ Cursor = Entry(2)
  /\ tmr_state = "exception" /\ pc \in {"walk", "armed"} => c0 = tmr_c
  /\ tmr_state = "exception" /\ pc = "walk" => tmp = Entry(1)
  /\ pc = "func" /\ c0 = tmr_c => tmp = Entry(1)

\* When the function of the timer is called, a period has passed and the ticks
\* by which it is late.
FuncDue ==
  /\ pc = "func" /\ c0 = tmr_c => behind >= Period + elapsed + QP!Reference
  /\ Using(tmr_c) => started

WalkAt(at) ==
  pc = "walk" => /\ at[c0] \in 0 .. WordMax
                 /\ ticks[c0] = at[c0] - Before(callouts_list, at, pos)

\* What is left of the period makes up for what count_us lacks.
Due(at) ==
  tmr_c \in active \/ (c0 = tmr_c /\ pc \in {"walk", "armed"})
    => behind >= Period + QP!Reference + Charge - at[tmr_c]

Sums(at) == Deltas(callouts_list, ticks, at) /\ WalkAt(at) /\ Due(at)

\* The inductive invariant behind UptimeAheadByRounding.
UptimeInv ==
  /\ behind \in Nat /\ CursorInv /\ FuncDue
  /\ \E at \in [K3 -> Int] : Sums(at)

-----------------------------------------------------------------------------
\* The entries of a list without its place p.
LEMMA EntryWithout ==
  ASSUME NEW l, NEW r, Len(l) \in Nat, NEW p \in 1 .. Len(l), Without(l, r, p),
         NEW q \in Nat \ {0}
  PROVE  EntryOf(r, q) = IF q < p THEN EntryOf(l, q) ELSE EntryOf(l, q + 1)
<1>1. Len(r) = Len(l) - 1
  BY DEF Without
<1>2. CASE q \in 1 .. Len(l) - 1
  <2>1. r[q] = IF q < p THEN l[q] ELSE l[q + 1]
    BY <1>2 DEF Without
  <2> QED  BY <1>1, <1>2, <2>1 DEF EntryOf
<1>3. CASE q \notin 1 .. Len(l) - 1
  BY <1>1, <1>3 DEF EntryOf
<1> QED  BY <1>2, <1>3

\* What the invariants say of the numbers.
LEMMA TimerFacts ==
  ASSUME QueueInvs
  PROVE  /\ QP!Reference \in Nat /\ QP!Reference <= MaxCnt
         /\ elapsed \in Nat /\ Charge \in Nat
         /\ Period \in Nat /\ Period <= WordMax
         /\ MaxCnt \in Nat /\ WordMax \in Nat /\ DriftCap \in Nat
         /\ td_c # tmr_c /\ slp_c # tmr_c /\ td_c # slp_c /\ NULL \notin K3
         /\ CursorInv => Charge <= MaxCnt
<1>1. /\ MaxCnt \in Nat /\ WordMax \in Nat /\ DriftCap \in Nat
      /\ td_c # tmr_c /\ slp_c # tmr_c /\ td_c # slp_c /\ NULL \notin K3
  BY NoschedAssumption DEF K3
<1>2. Period \in Nat /\ Period <= WordMax
  BY NoschedAssumption DEF Period
<1>3. count_saved \in 0 .. MaxCnt /\ count \in 0 .. MaxCnt /\ elapsed \in Nat
  BY <1>1 DEF QueueInvs, QP!QueueInv, QP!TypeOK, QP!TimerTypeOK, QP!LocalTypeOK
<1>4. QP!Elapsed \in 0 .. MaxCnt
  BY <1>3, QueueAssumption, QP!ElapsedType DEF QP!Elapsed
<1>5. QP!Reference \in Nat /\ QP!Reference <= MaxCnt
  BY <1>1, <1>4 DEF QP!Reference
<1>6. Charge \in Nat
  BY <1>3 DEF Charge
<1>7. CursorInv => Charge <= MaxCnt
  BY <1>1 DEF Charge, CursorInv
<1> QED  BY <1>1, <1>2, <1>3, <1>5, <1>6, <1>7

\* What the invariant of the queue says of the list.
LEMMA QueueList ==
  ASSUME QueueInvs, NEW at \in [K3 -> Int]
  PROVE  /\ ListOf(K3, callouts_list, ticks, at)
         /\ Len(callouts_list) \in Nat
         /\ \A i \in 1 .. Len(callouts_list) : callouts_list[i] \in K3
         /\ \A k \in K3 :
              (\E i \in 1 .. Len(callouts_list) : callouts_list[i] = k)
                <=> k \in active \/ (pc = "armed" /\ k = c0)
<1>1. callouts_list \in Seq(K3) /\ ticks \in [K3 -> Nat]
  <2>1. callouts_list \in Seq(K3) /\ ticks \in [K3 -> 0 .. WordMax]
    BY DEF QueueInvs, QP!QueueInv, QP!TypeOK, QP!QueueTypeOK, K3
  <2> QED  BY <2>1, NoschedAssumption
<1>2. Len(callouts_list) \in Nat /\ DOMAIN callouts_list = 1 .. Len(callouts_list)
  BY <1>1, LenProperties
<1>3. Once(callouts_list)
  BY <1>2 DEF QueueInvs, QP!QueueInv, QP!ListIntegrity, Once
<1>4. \A k \in K3 :
        (\E i \in 1 .. Len(callouts_list) : callouts_list[i] = k)
          <=> k \in active \/ (pc = "armed" /\ k = c0)
  BY <1>2 DEF QueueInvs, QP!QueueInv, QP!ListIntegrity, QP!OnList, K3
<1> QED  BY <1>1, <1>2, <1>3, <1>4, LenProperties DEF ListOf

\* list_remove and next, in terms of places.
LEMMA RemovePlace ==
  ASSUME QueueInvs, NEW c \in K3, c \in active
  PROVE  \E p \in 1 .. Len(callouts_list) :
           /\ callouts_list[p] = c
           /\ Without(callouts_list, Queue!list_remove(c), p)
           /\ Queue!next(c) = Entry(p + 1)
<1>1. QP!OnList(c) /\ c \in {td_c, slp_c, tmr_c}
  BY DEF QueueInvs, QP!QueueInv, QP!ListIntegrity, K3
<1>2. PICK p : p = QP!Index(c)
  OBVIOUS
<1>3. PICK r : r = QP!list_remove(c)
  OBVIOUS
<1>4. /\ p \in 1 .. Len(callouts_list) /\ callouts_list[p] = c
      /\ Len(callouts_list) \in Nat
      /\ Len(r) = Len(callouts_list) - 1
      /\ \A j \in 1 .. p - 1 : r[j] = callouts_list[j]
      /\ \A j \in p .. Len(callouts_list) - 1 : r[j] = callouts_list[j + 1]
  <2>1. QP!TypeOK /\ QP!ListIntegrity
    BY DEF QueueInvs, QP!QueueInv
  <2> QED  BY <1>1, <1>2, <1>3, <2>1, QueueAssumption, QP!ListRemoveElements
<1>5. Without(callouts_list, r, p)
  BY <1>4 DEF Without
<1>6. r = Queue!list_remove(c)
  BY <1>3 DEF QP!list_remove, Queue!list_remove, QP!OnList, Queue!OnList,
     QP!Index, Queue!Index, QP!RemoveAt, Queue!RemoveAt
<1>7. Queue!next(c) = Entry(p + 1)
  <2>1. Queue!OnList(c) /\ Queue!Index(c) = p
    BY <1>1, <1>2 DEF QP!OnList, Queue!OnList, QP!Index, Queue!Index
  <2> QED  BY <1>4, <2>1 DEF Queue!next, Entry, EntryOf
<1> QED  BY <1>4, <1>5, <1>6, <1>7

\* A step that changes neither the list nor the code that walks it.
LEMMA UptimeFrame ==
  ASSUME QueueInvs, UptimeInv,
         UNCHANGED <<callouts_list, ticks, active, tmr_state, count_saved, count,
                     pc, elapsed, c0, pos, cur, tmp, behind>>,
         started => started'
  PROVE  UptimeInv'
<1> PICK at \in [K3 -> Int] : Sums(at)
  BY DEF UptimeInv
<1>1. QP!Reference' = QP!Reference /\ Entry(1)' = Entry(1) /\ Entry(2)' = Entry(2)
  BY DEF QP!Reference, QP!Elapsed, QP!get_elapsed, Entry, EntryOf
<1>2. InLoop' = InLoop /\ Cursor' = Cursor
  BY <1>1 DEF InLoop, Cursor
<1>3. Charge' = Charge
  BY <1>1, <1>2 DEF Charge
<1>4. CursorInv'
  BY <1>1, <1>2 DEF UptimeInv, CursorInv
<1>5. FuncDue' /\ behind' \in Nat
  BY <1>1 DEF UptimeInv, FuncDue, Using
<1>6. Deltas(callouts_list', ticks', at) /\ WalkAt(at)'
  BY DEF Sums, WalkAt
<1>7. Due(at)'
  BY <1>1, <1>3 DEF Sums, Due
<1> QED  BY <1>4, <1>5, <1>6, <1>7 DEF UptimeInv, Sums

\* A thread sets a callout: the uptime its timer while nothing is pending, or
\* a wait or a sleep its own.
LEMMA UptimeSet ==
  ASSUME QueueInvs, QueueInvs', UptimeInv, NEW k \in K3, NEW us,
         mdx_callout_set(k, us),
         k = tmr_c => us = PeriodUs /\ tmr_state = "ready" /\ started',
         started => started', behind' = behind
  PROVE  UptimeInv'
<1> PICK at \in [K3 -> Int] : Sums(at)
  BY DEF UptimeInv
<1> PICK t : t = usec_to_ticks(Freq, us)
  OBVIOUS
<1>1. CASE t = 0
  <2>1. UNCHANGED <<callouts_list, ticks, active, tmr_state, count_saved, count,
                    pc, elapsed, c0, pos, cur, tmp>>
    BY <1>1 DEF mdx_callout_set, Queue!mdx_callout_set_zero, Queue!hardware, Queue!locals
  <2> QED  BY <2>1, UptimeFrame
<1>2. CASE t # 0
  <2>0. Queue!mdx_callout_set_ticks(k, t)
    BY <1>2 DEF mdx_callout_set
  <2>1. /\ pc = "idle" /\ pc' = "walk" /\ pos' = 1 /\ c0' = k /\ k \notin active
        /\ UNCHANGED <<callouts_list, active, tmr_state, count_saved, count, cur, tmp>>
    BY <2>0 DEF Queue!mdx_callout_set_ticks, Queue!set_begin, Queue!hardware
  <2>2. tmr_state # "exception" /\ tmr_state' # "exception"
    BY <2>1 DEF QueueInvs, QP!QueueInv, QP!Shape
  <2>3. PICK x : ticks' = [ticks EXCEPT ![k] = x]
    BY <2>0 DEF Queue!mdx_callout_set_ticks, Queue!set_begin
  <2>4. ticks \in [K3 -> Nat] /\ ticks' \in [K3 -> 0 .. WordMax]
    <3>1. ticks' \in [K3 -> 0 .. WordMax]
      BY DEF QueueInvs, QP!QueueInv, QP!TypeOK, QP!QueueTypeOK, K3
    <3> QED  BY <3>1, QueueList DEF ListOf
  <2>5. ticks'[k] = x /\ x \in 0 .. WordMax
    BY <2>3, <2>4
  <2>6. PICK bt : bt = [at EXCEPT ![k] = x]
    OBVIOUS
  <2>7. bt \in [K3 -> Int] /\ bt[k] = x /\ \A j \in K3 : j # k => bt[j] = at[j]
    BY <2>5, <2>6
  <2>8. Deltas(callouts_list', ticks', bt)
    <3>1. /\ Len(callouts_list) \in Nat
          /\ \A i \in 1 .. Len(callouts_list) :
               callouts_list[i] \in K3 /\ callouts_list[i] # k
      BY <2>1, QueueList
    <3>2. \A i \in 1 .. Len(callouts_list) :
            /\ bt[callouts_list[i]] = at[callouts_list[i]]
            /\ ticks'[callouts_list[i]] = ticks[callouts_list[i]]
      BY <2>3, <2>4, <2>7, <3>1
    <3>3. ASSUME NEW i \in 1 .. Len(callouts_list)
          PROVE  Before(callouts_list, bt, i) = Before(callouts_list, at, i)
      <4>1. CASE i = 1
        BY <4>1 DEF Before
      <4>2. CASE i # 1
        <5>1. i - 1 \in 1 .. Len(callouts_list)
          BY <3>1, <4>2
        <5> QED  BY <3>2, <4>2, <5>1 DEF Before
      <4> QED  BY <4>1, <4>2
    <3>4. Deltas(callouts_list, ticks, at)
      BY DEF Sums
    <3> QED  BY <2>1, <3>2, <3>3, <3>4 DEF Deltas
  <2>9. WalkAt(bt)'
    BY <2>1, <2>5, <2>7 DEF WalkAt, Before
  <2>10. /\ ~InLoop /\ ~InLoop' /\ Charge = 0 /\ Charge' = 0
         /\ QP!Reference' = QP!Reference
    BY <2>1, <2>2 DEF InLoop, Charge, QP!Reference, QP!Elapsed, QP!get_elapsed
  <2>11. Due(bt)'
    <3>1. CASE k = tmr_c
      <4>1. QP!Reference = 0 /\ behind \in Nat
        BY <3>1 DEF QP!Reference, UptimeInv
      <4>2. x = Period /\ Period \in Nat /\ Period <= WordMax
        <5>1. t = Period
          BY <3>1 DEF Period
        <5>2. Period \in Nat /\ Period <= WordMax /\ WordMax \in Nat
          BY TimerFacts
        <5>3. ticks'[k] = Queue!WordAdd(t, 0)
          BY <2>0, <2>4, <3>1 DEF Queue!mdx_callout_set_ticks, Queue!set_begin
        <5>4. Queue!WordAdd(t, 0) = Period
          BY <5>1, <5>2 DEF Queue!WordAdd
        <5> QED  BY <2>5, <5>2, <5>3, <5>4
      <4> QED  BY <2>7, <2>10, <3>1, <4>1, <4>2 DEF Due
    <3>2. CASE k # tmr_c
      <4>1. tmr_c \in K3
        BY DEF K3
      <4>2. bt[tmr_c] = at[tmr_c]
        BY <2>7, <3>2, <4>1
      <4> QED  BY <2>1, <2>10, <3>2, <4>2 DEF Due, Sums
    <3> QED  BY <3>1, <3>2
  <2>12. CursorInv'
    BY <2>1, <2>2, <2>10 DEF CursorInv
  <2>13. FuncDue'
    BY <2>1 DEF UptimeInv, FuncDue, Using
  <2>14. behind' \in Nat
    BY DEF UptimeInv
  <2> QED  BY <2>7, <2>8, <2>9, <2>11, <2>12, <2>13, <2>14 DEF UptimeInv, Sums
<1> QED  BY <1>1, <1>2

\* A wait that has got its permit cancels its callout: what is due is the same.
LEMMA UptimeCancel ==
  ASSUME QueueInvs, QueueInvs', UptimeInv, td_c \in active, pc = "idle",
         Queue!mdx_callout_cancel(td_c),
         started => started', behind' = behind
  PROVE  UptimeInv'
<1> PICK at \in [K3 -> Int] : Sums(at)
  BY DEF UptimeInv
<1>1. td_c \in K3 /\ tmr_c \in K3 /\ td_c # tmr_c /\ NULL \notin K3
  BY TimerFacts DEF K3
<1>2. PICK p \in 1 .. Len(callouts_list) :
        /\ callouts_list[p] = td_c
        /\ Without(callouts_list, Queue!list_remove(td_c), p)
        /\ Queue!next(td_c) = Entry(p + 1)
  BY <1>1, RemovePlace
<1>3. /\ callouts_list' = Queue!list_remove(td_c)
      /\ ticks' = IF Queue!next(td_c) = NULL THEN ticks
                  ELSE [ticks EXCEPT ![Queue!next(td_c)] =
                          Queue!WordAdd(ticks[Queue!next(td_c)], ticks[td_c])]
      /\ active' = active \ {td_c}
      /\ pc' = "idle"
      /\ UNCHANGED <<tmr_state, count_saved, count, elapsed, c0, pos, cur, tmp>>
  BY DEF Queue!mdx_callout_cancel, Queue!cancel_locked, Queue!hardware, Queue!locals
<1>4. /\ ListOf(K3, callouts_list, ticks, at) /\ Deltas(callouts_list, ticks, at)
      /\ Len(callouts_list) \in Nat /\ ticks \in [K3 -> Nat]
      /\ \A i \in 1 .. Len(callouts_list) : callouts_list[i] \in K3
  BY QueueList DEF Sums, ListOf
<1>5. p < Len(callouts_list) =>
        /\ p + 1 \in 1 .. Len(callouts_list)
        /\ ticks' = [ticks EXCEPT ![callouts_list[p + 1]] =
                       Queue!WordAdd(ticks[callouts_list[p + 1]], ticks[td_c])]
  <2>1. ASSUME p < Len(callouts_list)
        PROVE  /\ p + 1 \in 1 .. Len(callouts_list)
               /\ Queue!next(td_c) = callouts_list[p + 1] /\ Queue!next(td_c) # NULL
    BY <1>1, <1>2, <1>4, <2>1 DEF Entry, EntryOf
  <2> QED  BY <1>3, <2>1
<1>6. p = Len(callouts_list) => ticks' = ticks
  BY <1>2, <1>3, <1>4 DEF Entry, EntryOf
<1>7. p < Len(callouts_list)
        /\ ticks[callouts_list[p + 1]] + ticks[callouts_list[p]] <= WordMax
      => ticks'[callouts_list[p + 1]] = ticks[callouts_list[p + 1]] + ticks[callouts_list[p]]
  <2> SUFFICES ASSUME p < Len(callouts_list),
                      ticks[callouts_list[p + 1]] + ticks[callouts_list[p]] <= WordMax
               PROVE  ticks'[callouts_list[p + 1]]
                        = ticks[callouts_list[p + 1]] + ticks[callouts_list[p]]
    OBVIOUS
  <2>1. PICK a \in Nat : a = ticks[callouts_list[p + 1]]
    BY <1>4, <1>5
  <2>2. PICK b \in Nat : b = ticks[callouts_list[p]]
    BY <1>4
  <2>3. ticks'[callouts_list[p + 1]] = Queue!WordAdd(a, b)
    BY <1>2, <1>4, <1>5, <2>1, <2>2
  <2>4. Queue!WordAdd(a, b) = a + b
    <3>1. a + b <= WordMax /\ WordMax \in Nat
      BY <2>1, <2>2, NoschedAssumption
    <3>2. ~(a + b > WordMax)
      BY <2>1, <2>2, <3>1
    <3> QED  BY <3>2 DEF Queue!WordAdd
  <2> QED  BY <2>1, <2>2, <2>3, <2>4
<1>8. SameTicks(callouts_list, ticks, ticks', p + 1)
  <2>1. Once(callouts_list)
    BY <1>4 DEF ListOf
  <2>2. CASE p = Len(callouts_list)
    BY <1>6, <2>2 DEF SameTicks
  <2>3. CASE p < Len(callouts_list)
    BY <1>4, <1>5, <2>1, <2>3 DEF SameTicks, Once
  <2> QED  BY <1>4, <2>2, <2>3
<1>9. Deltas(callouts_list', ticks', at)
  BY <1>2, <1>3, <1>4, <1>7, <1>8, DeltasMerge
<1>10. tmr_state # "exception" /\ tmr_state' # "exception"
  BY <1>3 DEF QueueInvs, QP!QueueInv, QP!Shape
<1>11. /\ ~InLoop /\ ~InLoop' /\ Charge = 0 /\ Charge' = 0
       /\ QP!Reference' = QP!Reference
  BY <1>3, <1>10 DEF InLoop, Charge, QP!Reference, QP!Elapsed, QP!get_elapsed
<1>12. Due(at)' /\ WalkAt(at)'
  BY <1>3, <1>11 DEF Due, WalkAt, Sums
<1>13. CursorInv' /\ FuncDue' /\ behind' \in Nat
  BY <1>3, <1>10, <1>11 DEF UptimeInv, CursorInv, FuncDue, Using
<1> QED  BY <1>9, <1>12, <1>13 DEF UptimeInv, Sums

\* The function of the timer counts a period and sets its callout again.
LEMMA UptimeRearm ==
  ASSUME QueueInvs, QueueInvs', UptimeInv, c0 = tmr_c,
         Queue!mdx_callout_set_ticks_locked(tmr_c, Period),
         behind' = behind - Period, UNCHANGED started
  PROVE  UptimeInv'
<1> PICK at \in [K3 -> Int] : Sums(at)
  BY DEF UptimeInv
<1>1. /\ tmr_c \in K3 /\ QP!Reference \in Nat /\ elapsed \in Nat
      /\ Period \in Nat /\ Period <= WordMax /\ WordMax \in Nat
  BY TimerFacts DEF K3
<1>2. /\ pc = "func" /\ pc' = "walk" /\ pos' = 1 /\ c0' = tmr_c /\ tmr_c \notin active
      /\ UNCHANGED <<callouts_list, active, tmr_state, count_saved, count, cur, tmp>>
  BY DEF Queue!mdx_callout_set_ticks_locked, Queue!set_begin, Queue!hardware
<1>3. tmr_state = "exception" /\ tmr_state' = "exception"
  BY <1>2 DEF QueueInvs, QP!QueueInv, QP!Shape
<1>4. /\ ticks' = [ticks EXCEPT ![tmr_c] = Queue!WordAdd(Period, 0)]
      /\ elapsed' = elapsed
  BY <1>3 DEF Queue!mdx_callout_set_ticks_locked, Queue!set_begin, Queue!InCallback
<1>5. Queue!WordAdd(Period, 0) = Period
  BY <1>1 DEF Queue!WordAdd
<1>6. ticks \in [K3 -> Nat] /\ ticks' = [ticks EXCEPT ![tmr_c] = Period]
  BY <1>4, <1>5, QueueList DEF ListOf
<1>7. PICK bt : bt = [at EXCEPT ![tmr_c] = Period]
  OBVIOUS
<1>8. bt \in [K3 -> Int] /\ bt[tmr_c] = Period /\ \A j \in K3 : j # tmr_c => bt[j] = at[j]
  BY <1>1, <1>7
<1>9. Deltas(callouts_list', ticks', bt)
  <2>1. /\ Len(callouts_list) \in Nat
        /\ \A i \in 1 .. Len(callouts_list) :
             callouts_list[i] \in K3 /\ callouts_list[i] # tmr_c
    BY <1>1, <1>2, QueueList
  <2>2. \A i \in 1 .. Len(callouts_list) :
          /\ bt[callouts_list[i]] = at[callouts_list[i]]
          /\ ticks'[callouts_list[i]] = ticks[callouts_list[i]]
    BY <1>6, <1>8, <2>1
  <2>3. ASSUME NEW i \in 1 .. Len(callouts_list)
        PROVE  Before(callouts_list, bt, i) = Before(callouts_list, at, i)
    <3>1. CASE i = 1
      BY <3>1 DEF Before
    <3>2. CASE i # 1
      <4>1. i - 1 \in 1 .. Len(callouts_list)
        BY <2>1, <3>2
      <4> QED  BY <2>2, <3>2, <4>1 DEF Before
    <3> QED  BY <3>1, <3>2
  <2>4. Deltas(callouts_list, ticks, at)
    BY DEF Sums
  <2> QED  BY <1>2, <2>2, <2>3, <2>4 DEF Deltas
<1>10. WalkAt(bt)'
  BY <1>1, <1>2, <1>6, <1>8 DEF WalkAt, Before
<1>11. /\ InLoop /\ InLoop' /\ Cursor = tmp /\ Cursor' = tmp
       /\ Entry(1)' = Entry(1) /\ Entry(2)' = Entry(2)
       /\ QP!Reference' = QP!Reference
  BY <1>2, <1>3 DEF InLoop, Cursor, Entry, EntryOf, QP!Reference, QP!Elapsed, QP!get_elapsed
<1>12. tmp = Entry(1) /\ elapsed <= MaxCnt
  BY <1>2, <1>11 DEF UptimeInv, CursorInv
<1>13. Charge' = elapsed
  BY <1>4, <1>11, <1>12 DEF Charge
<1>14. behind \in Nat /\ behind >= Period + elapsed + QP!Reference
  BY <1>2 DEF UptimeInv, FuncDue
<1>15. behind' \in Nat
  BY <1>1, <1>14
<1>16. Due(bt)'
  <2>1. behind' >= Period + QP!Reference + elapsed - Period
    BY <1>1, <1>14
  <2> QED  BY <1>8, <1>11, <1>13, <2>1 DEF Due
<1>17. CursorInv'
  BY <1>2, <1>3, <1>4, <1>11, <1>12 DEF CursorInv
<1>18. FuncDue'
  BY <1>2 DEF UptimeInv, FuncDue, Using
<1> QED  BY <1>8, <1>9, <1>10, <1>15, <1>16, <1>17, <1>18 DEF UptimeInv, Sums

\* The walk of mdx_callout_set_one passes a callout.
LEMMA UptimeSkip ==
  ASSUME QueueInvs, QueueInvs', UptimeInv, Queue!set_one_skip, UNCHANGED nosched
  PROVE  UptimeInv'
<1> PICK at \in [K3 -> Int] : Sums(at)
  BY DEF UptimeInv
<1>1. /\ pc = "walk" /\ pos' = pos + 1 /\ pos <= Len(callouts_list)
      /\ ticks' = [ticks EXCEPT ![c0] = ticks[c0] - ticks[callouts_list[pos]]]
      /\ UNCHANGED <<callouts_list, active, tmr_state, count_saved, count, pc,
                     elapsed, c0, cur, tmp, started, behind>>
  BY DEF Queue!set_one_skip, Queue!hardware, nosched, timerVars
<1>2. /\ c0 \in K3 /\ c0 \notin active /\ pos \in 1 .. Len(callouts_list) + 1
  BY <1>1 DEF QueueInvs, QP!QueueInv, QP!Shape, K3
<1>3. /\ ListOf(K3, callouts_list, ticks, at) /\ Deltas(callouts_list, ticks, at)
      /\ Len(callouts_list) \in Nat /\ ticks \in [K3 -> Nat]
      /\ \A i \in 1 .. Len(callouts_list) :
           callouts_list[i] \in K3 /\ callouts_list[i] # c0
  BY <1>1, <1>2, QueueList DEF Sums, ListOf
<1>4. pos \in 1 .. Len(callouts_list) /\ pos + 1 # 1 /\ (pos + 1) - 1 = pos
  BY <1>1, <1>2, <1>3
<1>5. Deltas(callouts_list', ticks', at)
  <2>1. \A i \in 1 .. Len(callouts_list) : ticks'[callouts_list[i]] = ticks[callouts_list[i]]
    BY <1>1, <1>3
  <2> QED  BY <1>1, <1>3, <2>1 DEF Deltas
<1>6. WalkAt(at)'
  <2>1. at[c0] \in 0 .. WordMax /\ ticks[c0] = at[c0] - Before(callouts_list, at, pos)
    BY <1>1 DEF Sums, WalkAt
  <2>2. /\ at[callouts_list[pos]] \in Nat /\ Before(callouts_list, at, pos) \in Nat
        /\ ticks[callouts_list[pos]] = at[callouts_list[pos]] - Before(callouts_list, at, pos)
    BY <1>3, <1>4, DeltaAt
  <2>3. Before(callouts_list, at, pos + 1) = at[callouts_list[pos]]
    BY <1>4 DEF Before
  <2>4. ticks'[c0] = ticks[c0] - ticks[callouts_list[pos]]
    BY <1>1, <1>2, <1>3
  <2>5. ticks'[c0] = at[c0] - at[callouts_list[pos]]
    <3> WordMax \in Nat
      BY NoschedAssumption
    <3> QED  BY <2>1, <2>2, <2>4
  <2> QED  BY <1>1, <2>1, <2>3, <2>5 DEF WalkAt
<1>7. /\ InLoop' = InLoop /\ Cursor' = Cursor
      /\ Entry(1)' = Entry(1) /\ Entry(2)' = Entry(2)
      /\ QP!Reference' = QP!Reference
  BY <1>1 DEF InLoop, Cursor, Entry, EntryOf, QP!Reference, QP!Elapsed, QP!get_elapsed
<1>8. Charge' = Charge
  BY <1>1, <1>7 DEF Charge
<1>9. Due(at)'
  BY <1>1, <1>7, <1>8 DEF Due, Sums
<1>10. CursorInv' /\ FuncDue' /\ behind' \in Nat
  BY <1>1, <1>7 DEF UptimeInv, CursorInv, FuncDue, Using
<1> QED  BY <1>5, <1>6, <1>9, <1>10 DEF UptimeInv, Sums

\* The callout gets its place in the list, perhaps before the loop's cursor.
LEMMA UptimeInsert ==
  ASSUME QueueInvs, QueueInvs', UptimeInv, Queue!set_one_insert, UNCHANGED nosched
  PROVE  UptimeInv'
<1> PICK at \in [K3 -> Int] : Sums(at)
  BY DEF UptimeInv
<1>1. /\ pc = "walk" /\ pc' = "armed"
      /\ callouts_list' = Queue!InsertAt(callouts_list, pos, c0)
      /\ ticks' = IF pos <= Len(callouts_list)
                  THEN [ticks EXCEPT ![callouts_list[pos]] =
                          ticks[callouts_list[pos]] - ticks[c0]]
                  ELSE ticks
      /\ UNCHANGED <<active, tmr_state, count_saved, count,
                     elapsed, c0, pos, cur, tmp, started, behind>>
  BY DEF Queue!set_one_insert, Queue!hardware, Queue!locals, nosched, timerVars
<1>2. /\ c0 \in K3 /\ c0 \notin active /\ pos \in 1 .. Len(callouts_list) + 1
  BY <1>1 DEF QueueInvs, QP!QueueInv, QP!Shape, K3
<1>3. /\ ListOf(K3, callouts_list, ticks, at) /\ Deltas(callouts_list, ticks, at)
      /\ Len(callouts_list) \in Nat /\ ticks \in [K3 -> Nat] /\ Once(callouts_list)
      /\ \A i \in 1 .. Len(callouts_list) :
           callouts_list[i] \in K3 /\ callouts_list[i] # c0
  BY <1>1, <1>2, QueueList DEF Sums, ListOf
<1>4. With(callouts_list, callouts_list', pos, c0)
  <2>1. QP!TypeOK /\ QP!ListIntegrity /\ ~QP!OnList(c0) /\ c0 \in {td_c, slp_c, tmr_c}
    BY <1>1, <1>2 DEF QueueInvs, QP!QueueInv, QP!ListIntegrity, K3
  <2>2. PICK r : r = QP!InsertAt(callouts_list, pos, c0)
    OBVIOUS
  <2>3. /\ Len(r) = Len(callouts_list) + 1
        /\ \A j \in 1 .. pos - 1 : r[j] = callouts_list[j]
        /\ r[pos] = c0
        /\ \A j \in pos + 1 .. Len(callouts_list) + 1 : r[j] = callouts_list[j - 1]
    BY <1>2, <2>1, <2>2, QueueAssumption, QP!ListInsertElements
  <2>4. r = callouts_list'
    BY <1>1, <2>2 DEF Queue!InsertAt, QP!InsertAt
  <2>5. ASSUME NEW j \in 1 .. Len(callouts_list) + 1
        PROVE  r[j] = IF j < pos THEN callouts_list[j]
                      ELSE IF j = pos THEN c0 ELSE callouts_list[j - 1]
    <3>1. CASE j < pos
      <4>1. j \in 1 .. pos - 1
        BY <1>2, <1>3, <3>1
      <4> QED  BY <2>3, <3>1, <4>1
    <3>2. CASE j = pos
      BY <1>2, <1>3, <2>3, <3>2
    <3>3. CASE j > pos
      <4>1. j \in pos + 1 .. Len(callouts_list) + 1 /\ ~(j < pos) /\ j # pos
        BY <1>2, <1>3, <3>3
      <4> QED  BY <2>3, <4>1
    <3> QED  BY <1>2, <1>3, <3>1, <3>2, <3>3
  <2> QED  BY <2>3, <2>4, <2>5 DEF With
<1>5. at[c0] \in 0 .. WordMax /\ ticks[c0] = at[c0] - Before(callouts_list, at, pos)
  BY <1>1 DEF Sums, WalkAt
<1>6. /\ SameTicks(callouts_list, ticks, ticks', pos) /\ ticks'[c0] = ticks[c0]
      /\ pos <= Len(callouts_list) =>
           ticks'[callouts_list[pos]] = ticks[callouts_list[pos]] - ticks[c0]
  <2>1. CASE pos <= Len(callouts_list)
    <3>1. pos \in 1 .. Len(callouts_list)
      BY <1>2, <1>3, <2>1
    <3> QED  BY <1>1, <1>2, <1>3, <2>1, <3>1 DEF SameTicks, Once
  <2>2. CASE ~(pos <= Len(callouts_list))
    BY <1>1, <2>2 DEF SameTicks
  <2> QED  BY <2>1, <2>2
<1>7. Deltas(callouts_list', ticks', at)
  BY <1>2, <1>3, <1>4, <1>5, <1>6, DeltasInsert
<1>8. WalkAt(at)'
  BY <1>1 DEF WalkAt
<1>9. InLoop' = InLoop /\ QP!Reference' = QP!Reference
  BY <1>1 DEF InLoop, QP!Reference, QP!Elapsed, QP!get_elapsed
<1>10. ASSUME InLoop
       PROVE  /\ c0 = tmr_c /\ Cursor = tmp /\ Cursor' = tmp /\ tmp = Entry(1)
              /\ elapsed <= MaxCnt /\ Charge = elapsed
              /\ \/ Cursor' = Entry(1)'
                 \/ Entry(1)' = tmr_c /\ Cursor' = Entry(2)'
  <2>1. tmr_state = "exception"
    BY <1>1, <1>10 DEF InLoop
  <2>2. c0 = tmr_c /\ Cursor = tmp /\ Cursor' = tmp /\ tmp = Entry(1) /\ elapsed <= MaxCnt
    BY <1>1, <1>10, <2>1 DEF UptimeInv, CursorInv, Cursor
  <2>3. Charge = elapsed
    BY <1>10, <2>2 DEF Charge
  <2>4. CASE pos = 1
    <3>1. Entry(1)' = tmr_c
      BY <1>3, <1>4, <2>2, <2>4 DEF Entry, EntryOf, With
    <3>2. Entry(2)' = Entry(1)
      BY <1>3, <1>4, <2>4 DEF Entry, EntryOf, With
    <3> QED  BY <2>2, <2>3, <3>1, <3>2
  <2>5. CASE pos # 1
    <3>1. Entry(1)' = Entry(1)
      BY <1>2, <1>3, <1>4, <2>5 DEF Entry, EntryOf, With
    <3> QED  BY <2>2, <2>3, <3>1
  <2> QED  BY <1>2, <2>4, <2>5
<1>11. Charge' <= Charge /\ Charge \in Nat /\ Charge' \in Nat
  <2>1. elapsed \in Nat /\ Charge \in Nat
    BY TimerFacts
  <2> QED  BY <1>1, <1>9, <1>10, <2>1 DEF Charge
<1>12. Due(at)'
  <2> SUFFICES ASSUME tmr_c \in active \/ c0 = tmr_c
               PROVE  behind >= Period + QP!Reference + Charge' - at[tmr_c]
    BY <1>1, <1>9 DEF Due
  <2>1. behind >= Period + QP!Reference + Charge - at[tmr_c]
    BY <1>1 DEF Due, Sums
  <2>2. at[tmr_c] \in Int /\ Period \in Nat /\ QP!Reference \in Nat /\ behind \in Nat
    BY TimerFacts DEF K3, UptimeInv
  <2> QED  BY <1>11, <2>1, <2>2
<1>13. CursorInv'
  BY <1>1, <1>9, <1>10 DEF CursorInv, InLoop
<1>14. FuncDue' /\ behind' \in Nat
  BY <1>1 DEF UptimeInv, FuncDue, Using
<1> QED  BY <1>7, <1>8, <1>12, <1>13, <1>14 DEF UptimeInv, Sums

\* The timer is programmed or, in the callback, the loop goes on.
LEMMA UptimeStart ==
  ASSUME QueueInvs, QueueInvs', UptimeInv, Queue!set_one_start, UNCHANGED nosched
  PROVE  UptimeInv'
<1> PICK at \in [K3 -> Int] : Sums(at)
  BY DEF UptimeInv
<1>1. /\ pc = "armed" /\ active' = active \cup {c0} /\ c0' = NULL
      /\ UNCHANGED <<callouts_list, ticks, elapsed, pos, tmp, started, behind>>
  BY DEF Queue!set_one_start, nosched, timerVars
<1>2. /\ at[tmr_c] \in Int /\ Period \in Nat /\ QP!Reference \in Nat /\ behind \in Nat
      /\ Charge \in Nat /\ NULL # tmr_c /\ elapsed \in Nat
  BY TimerFacts DEF K3, UptimeInv
<1>3. /\ Deltas(callouts_list', ticks', at)
      /\ Entry(1)' = Entry(1) /\ Entry(2)' = Entry(2)
  BY <1>1 DEF Sums, Entry, EntryOf
<1>4. QP!Reference' \in Nat /\ QP!Reference' <= QP!Reference
  <2>1. CASE tmr_state = "ready" /\ tmr_state' = "running" /\ count_saved' = count /\ count' = count
    <3>1. count \in Int
      BY DEF QueueInvs, QP!QueueInv, QP!TypeOK, QP!TimerTypeOK
    <3>2. QP!Reference' = 0 /\ QP!Reference = 0
      BY <2>1, <3>1 DEF QP!Reference, QP!Elapsed, QP!get_elapsed
    <3> QED  BY <3>2
  <2>2. CASE UNCHANGED <<tmr_state, count_saved, count>>
    <3>1. QP!Reference' = QP!Reference
      BY <2>2 DEF QP!Reference, QP!Elapsed, QP!get_elapsed
    <3> QED  BY <1>2, <3>1
  <2> QED  BY <2>1, <2>2 DEF Queue!set_one_start, Queue!hardware, Queue!mi_tmr_start
<1>5. CASE tmr_state = "exception"
  <2>1. pc' = "loop" /\ cur' = tmp /\ UNCHANGED tmr_state
    BY <1>5 DEF Queue!set_one_start, Queue!FuncReturn
  <2>2. InLoop /\ InLoop' /\ Cursor = tmp /\ Cursor' = tmp
    BY <1>1, <1>5, <2>1 DEF InLoop, Cursor
  <2>3. Charge' = Charge
    BY <1>1, <1>3, <2>2 DEF Charge
  <2>4. CursorInv'
    BY <1>1, <1>3, <2>1, <2>2 DEF UptimeInv, CursorInv
  <2>5. Due(at)'
    <3> SUFFICES ASSUME tmr_c \in active'
                 PROVE  behind >= Period + QP!Reference' + Charge - at[tmr_c]
      BY <1>1, <1>2, <2>1, <2>3 DEF Due
    <3>1. behind >= Period + QP!Reference + Charge - at[tmr_c]
      BY <1>1 DEF Due, Sums
    <3> QED  BY <1>2, <1>4, <3>1
  <2>6. WalkAt(at)' /\ FuncDue' /\ behind' \in Nat
    BY <1>1, <1>2, <2>1 DEF WalkAt, FuncDue, UptimeInv, Using
  <2> QED  BY <1>3, <2>4, <2>5, <2>6 DEF UptimeInv, Sums
<1>6. CASE tmr_state # "exception"
  <2>1. pc' = "idle" /\ tmr_state' # "exception"
    BY <1>6 DEF Queue!set_one_start, Queue!Leave, Queue!InCallback
  <2>2. ~InLoop /\ ~InLoop' /\ Charge = 0 /\ Charge' = 0
    BY <1>1, <1>6, <2>1 DEF InLoop, Charge
  <2>3. CursorInv'
    BY <2>1, <2>2 DEF CursorInv
  <2>4. Due(at)'
    <3> SUFFICES ASSUME tmr_c \in active'
                 PROVE  behind >= Period + QP!Reference' - at[tmr_c]
      BY <1>1, <1>2, <1>4, <2>1, <2>2 DEF Due
    <3>1. behind >= Period + QP!Reference - at[tmr_c]
      BY <1>1, <1>2, <2>2 DEF Due, Sums
    <3> QED  BY <1>2, <1>4, <3>1
  <2>5. WalkAt(at)' /\ FuncDue' /\ behind' \in Nat
    BY <1>1, <1>2, <2>1 DEF WalkAt, FuncDue, UptimeInv, Using
  <2> QED  BY <1>3, <2>3, <2>4, <2>5 DEF UptimeInv, Sums
<1> QED  BY <1>5, <1>6

\* The loop begins at the first callout.
LEMMA UptimeLock ==
  ASSUME QueueInvs, QueueInvs', UptimeInv, CodeInv, Queue!callback_lock, UNCHANGED nosched
  PROVE  UptimeInv'
<1> PICK at \in [K3 -> Int] : Sums(at)
  BY DEF UptimeInv
<1>1. /\ pc = "lock" /\ pc' = "loop" /\ cur' = Queue!first /\ c0 = NULL
      /\ UNCHANGED <<callouts_list, ticks, active, tmr_state, count_saved, count,
                     elapsed, c0, pos, tmp, started, behind>>
  BY DEF Queue!callback_lock, Queue!hardware, CodeInv, nosched, timerVars
<1>2. Queue!first = Entry(1)
  <2>1. callouts_list \in Seq(K3) /\ Len(callouts_list) \in Nat
    BY QueueList DEF ListOf
  <2>2. callouts_list = <<>> <=> Len(callouts_list) = 0
    BY <2>1, EmptySeq
  <2> QED  BY <2>1, <2>2 DEF Entry, EntryOf, Queue!first
<1>3. /\ InLoop /\ InLoop' /\ Cursor = Entry(1) /\ Cursor' = Entry(1)
      /\ Entry(1)' = Entry(1) /\ Entry(2)' = Entry(2)
      /\ QP!Reference' = QP!Reference
  BY <1>1, <1>2 DEF InLoop, Cursor, Entry, EntryOf, QP!Reference, QP!Elapsed, QP!get_elapsed
<1>4. Charge' = Charge
  BY <1>1, <1>3 DEF Charge
<1>5. NULL # tmr_c
  BY TimerFacts DEF K3
<1>6. CursorInv' /\ FuncDue' /\ behind' \in Nat
  BY <1>1, <1>3, <1>5 DEF UptimeInv, CursorInv, FuncDue, Using
<1>7. Deltas(callouts_list', ticks', at) /\ WalkAt(at)' /\ Due(at)'
  BY <1>1, <1>3, <1>4 DEF Sums, WalkAt, Due
<1> QED  BY <1>6, <1>7 DEF UptimeInv, Sums

\* The function of a wait or a sleep returns.
LEMMA UptimeReturn ==
  ASSUME QueueInvs, QueueInvs', UptimeInv, CodeInv, Queue!func_return, c0 # tmr_c,
         UNCHANGED <<started, behind>>
  PROVE  UptimeInv'
<1> PICK at \in [K3 -> Int] : Sums(at)
  BY DEF UptimeInv
<1>1. /\ pc = "func" /\ pc' = "loop" /\ cur' = tmp /\ c0' = NULL
      /\ UNCHANGED <<callouts_list, ticks, active, tmr_state, count_saved, count,
                     elapsed, pos, tmp>>
  BY DEF Queue!func_return, Queue!FuncReturn, Queue!hardware
<1>2. /\ InLoop /\ InLoop' /\ Cursor = tmp /\ Cursor' = tmp
      /\ Entry(1)' = Entry(1) /\ Entry(2)' = Entry(2)
      /\ QP!Reference' = QP!Reference
  BY <1>1 DEF InLoop, Cursor, Entry, EntryOf, QP!Reference, QP!Elapsed, QP!get_elapsed
<1>3. Charge' = Charge
  BY <1>1, <1>2 DEF Charge
<1>4. NULL # tmr_c
  BY TimerFacts DEF K3
<1>5. CursorInv' /\ FuncDue' /\ behind' \in Nat
  BY <1>1, <1>2, <1>4 DEF UptimeInv, CursorInv, FuncDue, Using
<1>6. Deltas(callouts_list', ticks', at) /\ WalkAt(at)' /\ Due(at)'
  BY <1>1, <1>2, <1>3 DEF Sums, WalkAt, Due
<1> QED  BY <1>5, <1>6 DEF UptimeInv, Sums

\* The callout that the loop looks at is the first or the second.
LEMMA CursorPlace ==
  ASSUME QueueInvs, CursorInv, pc = "loop", cur # NULL
  PROVE  \E p \in 1 .. Len(callouts_list) :
           /\ cur \in K3 /\ cur \in active /\ callouts_list[p] = cur
           /\ Without(callouts_list, Queue!list_remove(cur), p)
           /\ Queue!next(cur) = Entry(p + 1)
           /\ \/ p = 1 /\ Charge = elapsed
              \/ p = 2 /\ callouts_list[1] = tmr_c /\ cur # tmr_c /\ Charge = 0
<1>1. cur \in active /\ cur \in K3
  BY QueueFacts DEF K3
<1>2. PICK p \in 1 .. Len(callouts_list) :
        /\ callouts_list[p] = cur
        /\ Without(callouts_list, Queue!list_remove(cur), p)
        /\ Queue!next(cur) = Entry(p + 1)
  BY <1>1, RemovePlace
<1>3. PICK at \in [K3 -> Int] : TRUE
  <2>1. [k \in K3 |-> 0] \in [K3 -> Int]
    OBVIOUS
  <2> QED  BY <2>1
<1>4. Once(callouts_list) /\ Len(callouts_list) \in Nat
  BY QueueList DEF ListOf
<1>5. InLoop /\ Cursor = cur
  BY DEF InLoop, Cursor
<1>6. CASE cur = Entry(1)
  <2>1. 1 \in 1 .. Len(callouts_list) /\ callouts_list[1] = cur
    BY <1>6 DEF Entry, EntryOf
  <2>2. p = 1
    BY <1>2, <1>4, <2>1 DEF Once
  <2>3. Charge = elapsed
    BY <1>5, <1>6 DEF Charge
  <2> QED  BY <1>1, <1>2, <2>2, <2>3
<1>7. CASE cur # Entry(1)
  <2>1. Entry(1) = tmr_c /\ cur = Entry(2)
    BY <1>5, <1>7 DEF CursorInv
  <2>2. tmr_c # NULL
    BY TimerFacts DEF K3
  <2>3. /\ 1 \in 1 .. Len(callouts_list) /\ callouts_list[1] = tmr_c
        /\ 2 \in 1 .. Len(callouts_list) /\ callouts_list[2] = cur
    BY <2>1, <2>2 DEF Entry, EntryOf
  <2>4. p = 2 /\ cur # tmr_c
    BY <1>2, <1>4, <1>7, <2>1, <2>3 DEF Once
  <2>5. Charge = 0
    BY <1>5, <1>7 DEF Charge
  <2> QED  BY <1>1, <1>2, <2>3, <2>4, <2>5
<1> QED  BY <1>6, <1>7

\* The loop takes a callout that is due off the list and calls its function.
LEMMA UptimeFire ==
  ASSUME QueueInvs, QueueInvs', UptimeInv, CodeInv, Queue!callback_fire,
         UNCHANGED nosched
  PROVE  UptimeInv'
<1> PICK at \in [K3 -> Int] : Sums(at)
  BY DEF UptimeInv
<1>1. /\ pc = "loop" /\ pc' = "func" /\ cur # NULL /\ c0' = cur
      /\ elapsed >= ticks[cur] /\ elapsed' = elapsed - ticks[cur]
      /\ tmp' = Queue!next(cur)
      /\ callouts_list' = Queue!list_remove(cur)
      /\ ticks' = [ticks EXCEPT ![cur] = 0]
      /\ active' = active \ {cur}
      /\ UNCHANGED <<tmr_state, count_saved, count, started, behind>>
  BY DEF Queue!callback_fire, Queue!hardware, nosched, timerVars
<1>2. CursorInv /\ FuncDue /\ behind \in Nat
  BY DEF UptimeInv
<1>3. PICK p \in 1 .. Len(callouts_list) :
           /\ cur \in K3 /\ cur \in active /\ callouts_list[p] = cur
           /\ Without(callouts_list, callouts_list', p)
           /\ tmp' = Entry(p + 1)
           /\ \/ p = 1 /\ Charge = elapsed
              \/ p = 2 /\ callouts_list[1] = tmr_c /\ cur # tmr_c /\ Charge = 0
  BY <1>1, <1>2, CursorPlace
<1>4. /\ ListOf(K3, callouts_list, ticks, at) /\ Deltas(callouts_list, ticks, at)
      /\ Len(callouts_list) \in Nat /\ ticks \in [K3 -> Nat] /\ Once(callouts_list)
      /\ \A i \in 1 .. Len(callouts_list) : callouts_list[i] \in K3
      /\ tmr_c \in K3 /\ tmr_c # NULL
  BY QueueList, TimerFacts DEF Sums, ListOf, K3
<1>5. PICK d \in Nat : d = ticks[cur]
  BY <1>3, <1>4
<1>6. /\ elapsed \in Nat /\ elapsed >= d /\ elapsed' = elapsed - d /\ elapsed <= MaxCnt
      /\ QP!Reference \in Nat /\ Period \in Nat /\ MaxCnt \in Nat
  BY <1>1, <1>2, <1>5, TimerFacts DEF CursorInv, InLoop
<1>7. PICK bt \in [K3 -> Int] : Sooner(callouts_list, at, bt, p, d)
  <2>1. p \in Nat /\ d \in Int
    BY <1>4
  <2> QED  BY <1>4, <2>1, SoonerExists
<1>8. SameTicks(callouts_list, ticks, ticks', p)
  BY <1>1, <1>3, <1>4 DEF SameTicks, Once
<1>9. Deltas(callouts_list', ticks', bt)
  BY <1>3, <1>4, <1>5, <1>7, <1>8, DeltasDrop
<1>10. WalkAt(bt)'
  BY <1>1 DEF WalkAt
<1>11. tmr_state' = "exception"
  BY <1>1 DEF QueueInvs, QP!QueueInv, QP!Shape
<1>12. /\ InLoop' /\ Cursor' = tmp'
       /\ QP!Reference' = QP!Reference
  BY <1>1 DEF InLoop, Cursor, QP!Reference, QP!Elapsed, QP!get_elapsed
<1>13. CASE p = 1
  <2>1. Entry(1)' = Entry(2)
    <3>1. Without(callouts_list, callouts_list', 1) /\ 1 \in 1 .. Len(callouts_list)
      BY <1>3, <1>13
    <3>2. EntryOf(callouts_list', 1) = EntryOf(callouts_list, 1 + 1)
      BY <1>4, <3>1, EntryWithout
    <3> QED  BY <3>2 DEF Entry
  <2>2. Cursor' = Entry(1)' /\ Charge' = elapsed - d /\ Charge = elapsed
    BY <1>3, <1>6, <1>12, <1>13, <2>1 DEF Charge
  <2>3. CursorInv'
    BY <1>1, <1>6, <1>12, <2>2 DEF CursorInv
  <2>4. FuncDue'
    <3>1. CASE cur = tmr_c
      <4>1. behind >= Period + QP!Reference + elapsed - at[tmr_c]
        BY <1>3, <2>2, <3>1 DEF Sums, Due
      <4>2. at[tmr_c] = d
        <5>1. ticks[callouts_list[p]] = at[callouts_list[p]] - Before(callouts_list, at, p)
          BY <1>4, DeltaAt
        <5>2. ticks[tmr_c] = at[tmr_c] - 0 /\ at[tmr_c] \in Int
          BY <1>3, <1>4, <1>13, <3>1, <5>1 DEF Before
        <5> QED  BY <1>5, <3>1, <5>2
      <4>3. behind >= Period + (elapsed - d) + QP!Reference
        BY <1>2, <1>6, <4>1, <4>2
      <4> QED  BY <1>1, <1>2, <1>3, <1>6, <1>12, <3>1, <4>3 DEF FuncDue, Using
    <3>2. CASE cur # tmr_c
      BY <1>1, <1>2, <3>2 DEF FuncDue, Using
    <3> QED  BY <3>1, <3>2
  <2>5. Due(bt)'
    <3> SUFFICES ASSUME tmr_c \in active, tmr_c # cur
                 PROVE  behind >= Period + QP!Reference + (elapsed - d) - bt[tmr_c]
      BY <1>1, <1>12, <2>2 DEF Due
    <3>1. behind >= Period + QP!Reference + elapsed - at[tmr_c]
      BY <2>2 DEF Sums, Due
    <3>2. PICK j \in 1 .. Len(callouts_list) : callouts_list[j] = tmr_c
      BY <1>4, QueueList
    <3>3. bt[tmr_c] = at[tmr_c] - d /\ at[tmr_c] \in Int
      <4>1. ~(j < p)
        BY <1>13
      <4> QED  BY <1>4, <1>7, <3>2, <4>1 DEF Sooner
    <3> QED  BY <1>2, <1>6, <3>1, <3>3
  <2> QED  BY <1>1, <1>2, <1>7, <1>9, <1>10, <2>3, <2>4, <2>5 DEF UptimeInv, Sums
<1>14. CASE p = 2
  <2>0. callouts_list[1] = tmr_c /\ cur # tmr_c /\ Charge = 0
    BY <1>3, <1>14
  <2>1. Entry(1)' = tmr_c /\ Entry(2)' = Entry(3)
    <3>1. Without(callouts_list, callouts_list', 2) /\ 2 \in 1 .. Len(callouts_list)
      BY <1>3, <1>14
    <3>2. /\ EntryOf(callouts_list', 1) = EntryOf(callouts_list, 1)
          /\ EntryOf(callouts_list', 2) = EntryOf(callouts_list, 2 + 1)
      BY <1>4, <3>1, EntryWithout
    <3>3. EntryOf(callouts_list, 1) = tmr_c
      BY <1>4, <2>0, <3>1 DEF EntryOf
    <3> QED  BY <3>2, <3>3 DEF Entry
  <2>2. Cursor' = Entry(2)' /\ Entry(3) # tmr_c
    <3>1. Cursor' = Entry(2)'
      BY <1>3, <1>12, <1>14, <2>1
    <3>2. ASSUME 3 \in 1 .. Len(callouts_list)  PROVE Entry(3) # tmr_c
      <4>1. 1 \in 1 .. Len(callouts_list)
        BY <1>4, <3>2
      <4>2. callouts_list[3] # callouts_list[1]
        BY <1>4, <3>2, <4>1 DEF Once
      <4> QED  BY <2>0, <3>2, <4>2 DEF Entry, EntryOf
    <3>3. ASSUME 3 \notin 1 .. Len(callouts_list)  PROVE Entry(3) # tmr_c
      <4>1. Entry(3) = NULL
        BY <3>3 DEF Entry, EntryOf
      <4> QED  BY <1>4, <4>1
    <3> QED  BY <3>1, <3>2, <3>3
  <2>3. Charge' = 0
    BY <2>1, <2>2 DEF Charge
  <2>4. CursorInv'
    BY <1>1, <1>6, <1>12, <2>0, <2>1, <2>2 DEF CursorInv
  <2>5. FuncDue'
    BY <1>1, <1>2, <2>0 DEF FuncDue, Using
  <2>6. Due(bt)'
    <3> SUFFICES ASSUME tmr_c \in active
                 PROVE  behind >= Period + QP!Reference + 0 - bt[tmr_c]
      BY <1>1, <1>12, <2>0, <2>3 DEF Due
    <3>1. behind >= Period + QP!Reference + 0 - at[tmr_c]
      BY <2>0 DEF Sums, Due
    <3>2. 1 \in 1 .. Len(callouts_list) /\ 1 < p
      BY <1>3, <1>4, <1>14
    <3>3. bt[tmr_c] = at[tmr_c]
      BY <1>7, <2>0, <3>2 DEF Sooner
    <3> QED  BY <3>1, <3>3
  <2> QED  BY <1>1, <1>2, <1>7, <1>9, <1>10, <2>4, <2>5, <2>6 DEF UptimeInv, Sums
<1> QED  BY <1>3, <1>13, <1>14

\* The loop ends and charges what has elapsed to the callout it came to.
LEMMA UptimeBreak ==
  ASSUME QueueInvs, QueueInvs', UptimeInv, CodeInv, Queue!callback_break,
         UNCHANGED nosched
  PROVE  UptimeInv'
<1> PICK at \in [K3 -> Int] : Sums(at)
  BY DEF UptimeInv
<1>1. /\ pc = "loop" /\ pc' = "restart" /\ c0 = NULL
      /\ cur # NULL => elapsed < ticks[cur]
      /\ ticks' = IF cur = NULL THEN ticks
                  ELSE [ticks EXCEPT ![cur] = ticks[cur] - elapsed]
      /\ UNCHANGED <<callouts_list, active, tmr_state, count_saved, count, c0,
                     elapsed, pos, cur, tmp, started, behind>>
  BY DEF Queue!callback_break, Queue!hardware, Queue!locals, CodeInv, nosched, timerVars
<1>2. CursorInv /\ FuncDue /\ behind \in Nat
  BY DEF UptimeInv
<1>3. /\ ListOf(K3, callouts_list, ticks, at) /\ Deltas(callouts_list, ticks, at)
      /\ Len(callouts_list) \in Nat /\ ticks \in [K3 -> Nat] /\ Once(callouts_list)
      /\ \A i \in 1 .. Len(callouts_list) : callouts_list[i] \in K3
      /\ tmr_c \in K3 /\ tmr_c # NULL
  BY QueueList, TimerFacts DEF Sums, ListOf, K3
<1>4. /\ elapsed \in Nat /\ Charge \in Nat
      /\ QP!Reference \in Nat /\ Period \in Nat /\ at[tmr_c] \in Int
  BY <1>3, TimerFacts
<1>5. /\ ~InLoop' /\ Charge' = 0 /\ QP!Reference' = QP!Reference
  BY <1>1 DEF InLoop, Charge, QP!Reference, QP!Elapsed, QP!get_elapsed
<1>6. CursorInv' /\ FuncDue' /\ behind' \in Nat
  BY <1>1, <1>2, <1>3, <1>5 DEF CursorInv, FuncDue, Using
<1>7. ASSUME tmr_c \in active
      PROVE  behind >= Period + QP!Reference + Charge - at[tmr_c]
  BY <1>7 DEF Sums, Due
<1>8. CASE cur = NULL
  <2>1. Deltas(callouts_list', ticks', at) /\ WalkAt(at)'
    BY <1>1, <1>3, <1>8 DEF WalkAt
  <2>2. Due(at)'
    BY <1>1, <1>2, <1>3, <1>4, <1>5, <1>7 DEF Due
  <2> QED  BY <1>6, <2>1, <2>2 DEF UptimeInv, Sums
<1>9. CASE cur # NULL
  <2>1. PICK p \in 1 .. Len(callouts_list) :
           /\ cur \in K3 /\ callouts_list[p] = cur
           /\ \/ p = 1 /\ Charge = elapsed
              \/ p = 2 /\ callouts_list[1] = tmr_c /\ cur # tmr_c /\ Charge = 0
    BY <1>1, <1>2, <1>9, CursorPlace
  <2>2. PICK bt \in [K3 -> Int] : Sooner(callouts_list, at, bt, p, elapsed)
    <3>1. p \in Nat /\ elapsed \in Int
      BY <1>3, <1>4
    <3> QED  BY <1>3, <3>1, SoonerExists
  <2>3. /\ SameTicks(callouts_list, ticks, ticks', p)
        /\ ticks'[callouts_list[p]] = ticks[callouts_list[p]] - elapsed
    BY <1>1, <1>3, <1>9, <2>1 DEF SameTicks, Once
  <2>4. elapsed <= ticks[callouts_list[p]]
    <3>1. ticks[callouts_list[p]] \in Nat
      BY <1>3
    <3> QED  BY <1>1, <1>4, <1>9, <2>1, <3>1
  <2>5. Deltas(callouts_list', ticks', bt)
    <3>1. Deltas(callouts_list, ticks', bt)
      BY <1>3, <1>4, <2>2, <2>3, <2>4, DeltasCharge
    <3> QED  BY <1>1, <3>1
  <2>6. WalkAt(bt)'
    BY <1>1 DEF WalkAt
  <2>7. Due(bt)'
    <3> SUFFICES ASSUME tmr_c \in active
                 PROVE  behind >= Period + QP!Reference + 0 - bt[tmr_c]
      BY <1>1, <1>3, <1>5 DEF Due
    <3>1. CASE p = 1 /\ Charge = elapsed
      <4>1. PICK j \in 1 .. Len(callouts_list) : callouts_list[j] = tmr_c
        BY <1>3, QueueList
      <4>2. ~(j < p)
        BY <3>1
      <4>3. bt[tmr_c] = at[tmr_c] - elapsed
        BY <2>2, <4>1, <4>2 DEF Sooner
      <4> QED  BY <1>2, <1>4, <1>7, <3>1, <4>3
    <3>2. CASE p = 2 /\ callouts_list[1] = tmr_c /\ Charge = 0
      <4>1. 1 \in 1 .. Len(callouts_list) /\ 1 < p
        BY <1>3, <3>2
      <4>2. bt[tmr_c] = at[tmr_c]
        BY <2>2, <3>2, <4>1 DEF Sooner
      <4> QED  BY <1>2, <1>4, <1>7, <3>2, <4>2
    <3> QED  BY <2>1, <3>1, <3>2
  <2> QED  BY <1>6, <2>2, <2>5, <2>6, <2>7 DEF UptimeInv, Sums
<1> QED  BY <1>8, <1>9

\* The timer is programmed again, or stopped when the list is empty.
LEMMA UptimeRestart ==
  ASSUME QueueInvs, QueueInvs', UptimeInv, CodeInv, Queue!callback_restart,
         UNCHANGED nosched
  PROVE  UptimeInv'
<1> PICK at \in [K3 -> Int] : Sums(at)
  BY DEF UptimeInv
<1>1. /\ pc = "restart" /\ pc' = "idle" /\ c0 = NULL /\ c0' = NULL
      /\ UNCHANGED <<callouts_list, ticks, active, count_saved, count, pos,
                     started, behind>>
  BY DEF Queue!callback_restart, Queue!CallbackEnd, Queue!Leave, Queue!hardware,
     Queue!mi_tmr_start, Queue!mi_tmr_stop, CodeInv, nosched, timerVars
<1>2. tmr_state = "exception" /\ tmr_state' # "exception"
  BY <1>1 DEF QueueInvs, QP!QueueInv, QP!Shape
<1>3. CursorInv /\ FuncDue /\ behind \in Nat /\ tmr_c # NULL /\ tmr_c \in K3
  BY TimerFacts DEF UptimeInv, K3
<1>4. ~InLoop /\ ~InLoop' /\ Charge = 0 /\ Charge' = 0
  BY <1>1, <1>2 DEF InLoop, Charge
<1>5. CursorInv' /\ FuncDue' /\ behind' \in Nat
  BY <1>1, <1>2, <1>3, <1>4 DEF CursorInv, FuncDue, Using
<1>6. Deltas(callouts_list', ticks', at) /\ WalkAt(at)'
  BY <1>1 DEF Sums, WalkAt
<1>7. Due(at)'
  <2> SUFFICES ASSUME tmr_c \in active
               PROVE  behind >= Period + QP!Reference' + 0 - at[tmr_c]
    BY <1>1, <1>3, <1>4 DEF Due
  <2>1. callouts_list # <<>>
    <3>1. PICK j \in 1 .. Len(callouts_list) : callouts_list[j] = tmr_c
      BY <1>3, QueueList
    <3> QED  BY <3>1
  <2>2. tmr_state' # "ready"
    BY <1>1, <2>1 DEF QueueInvs, QP!QueueInv, QP!Shape
  <2>3. QP!Reference' = QP!Reference
    BY <1>1, <1>2, <2>2 DEF QP!Reference, QP!Elapsed, QP!get_elapsed
  <2> QED  BY <1>4, <2>3 DEF Sums, Due
<1> QED  BY <1>5, <1>6, <1>7 DEF UptimeInv, Sums

\* The interrupt makes its own moment the origin: what had elapsed is charged.
LEMMA UptimeIntr ==
  ASSUME QueueInvs, QueueInvs', UptimeInv, CodeInv, Queue!TimerIntr, UNCHANGED nosched
  PROVE  UptimeInv'
<1> PICK at \in [K3 -> Int] : Sums(at)
  BY DEF UptimeInv
<1>1. /\ pc = "idle" /\ c0 = NULL
      /\ UNCHANGED <<callouts_list, ticks, active, count, c0, pos, cur, tmp,
                     started, behind>>
  BY DEF Queue!TimerIntr, CodeInv, nosched, timerVars
<1>2. CASE callouts_list = <<>>
  <2>1. pc' = pc /\ UNCHANGED <<elapsed, count_saved, tmr_state>>
    BY <1>1, <1>2 DEF Queue!TimerIntr, Queue!Leave
  <2> QED  BY <1>1, <2>1, UptimeFrame
<1>3. CASE callouts_list # <<>>
  <2>1. elapsed' = Queue!Elapsed /\ count_saved' = count /\ tmr_state' = "exception" /\ pc' = "lock"
    BY <1>3 DEF Queue!TimerIntr
  <2>2. tmr_state = "running"
    BY <1>1, <1>3 DEF QueueInvs, QP!QueueInv, QP!Shape, QP!TypeOK, QP!TimerTypeOK
  <2>3. CursorInv /\ FuncDue /\ behind \in Nat /\ tmr_c # NULL /\ tmr_c \in K3
    BY TimerFacts DEF UptimeInv, K3
  <2>4. elapsed' = QP!Reference
    BY <2>1, <2>2 DEF QP!Reference, QP!Elapsed, Queue!Elapsed, QP!get_elapsed, Queue!get_elapsed
  <2>5. QP!Reference' = 0
    <3>1. count \in Int
      BY DEF QueueInvs, QP!QueueInv, QP!TypeOK, QP!TimerTypeOK
    <3> QED  BY <1>1, <2>1, <3>1 DEF QP!Reference, QP!Elapsed, QP!get_elapsed
  <2>6. InLoop' /\ Cursor' = Entry(1)' /\ ~InLoop /\ Charge = 0 /\ Charge' = QP!Reference
    BY <1>1, <2>1, <2>2, <2>4 DEF InLoop, Cursor, Charge
  <2>7. QP!Reference \in Nat /\ QP!Reference <= MaxCnt /\ Period \in Nat /\ at[tmr_c] \in Int
    BY <2>3, TimerFacts
  <2>8. CursorInv' /\ FuncDue' /\ behind' \in Nat
    BY <1>1, <2>1, <2>3, <2>4, <2>6, <2>7 DEF CursorInv, FuncDue, Using
  <2>9. Deltas(callouts_list', ticks', at) /\ WalkAt(at)'
    BY <1>1, <2>1 DEF Sums, WalkAt
  <2>10. Due(at)'
    <3> SUFFICES ASSUME tmr_c \in active
                 PROVE  behind >= Period + 0 + QP!Reference - at[tmr_c]
      BY <1>1, <2>1, <2>5, <2>6 DEF Due
    <3>1. behind >= Period + QP!Reference + 0 - at[tmr_c]
      BY <2>6 DEF Sums, Due
    <3> QED  BY <2>3, <2>7, <3>1
  <2> QED  BY <2>8, <2>9, <2>10 DEF UptimeInv, Sums
<1> QED  BY <1>2, <1>3

\* Arithmetic of a tick, before the history stops counting and after.
LEMMA OneMore ==
  ASSUME NEW h \in Int, NEW b \in Int, NEW r \in Int, NEW q \in Int,
         h >= b + r, q <= r + 1
  PROVE  h + 1 >= b + q
OBVIOUS

LEMMA NoMore ==
  ASSUME NEW h \in Int, NEW b \in Int, NEW q \in Int, NEW m \in Int, NEW p \in Int,
         h >= p + 2 * m, b <= p + m, q <= m
  PROVE  h >= b + q
OBVIOUS

\* A tick of the counter is a tick that count_us lacks.
LEMMA UptimeTick ==
  ASSUME QueueInvs, QueueInvs', UptimeInv, ThreadTypeOK, Tick,
         DriftCap >= Period + 2 * MaxCnt
  PROVE  UptimeInv'
<1> PICK at \in [K3 -> Int] : Sums(at)
  BY DEF UptimeInv
<1>1. /\ UNCHANGED <<callouts_list, ticks, active, tmr_state, count_saved, pc,
                     elapsed, c0, pos, cur, tmp, started>>
      /\ count' = IF count = MaxCnt THEN 0 ELSE count + 1
      /\ behind' = IF started /\ behind < DriftCap THEN behind + 1 ELSE behind
  BY DEF Tick, Queue!TimerTick, Queue!locals
<1>2. CursorInv /\ FuncDue /\ behind \in Nat /\ tmr_c \in K3
  BY DEF UptimeInv, K3
<1>3. /\ QP!Reference \in Nat /\ QP!Reference <= MaxCnt /\ elapsed \in Nat
      /\ Charge \in Nat /\ Charge <= MaxCnt /\ Period \in Nat /\ MaxCnt \in Nat
      /\ DriftCap \in Nat /\ at[tmr_c] \in Int
  BY <1>2, TimerFacts
<1>4. QP!Reference' \in Nat /\ QP!Reference' <= QP!Reference + 1 /\ QP!Reference' <= MaxCnt
  <2>1. count_saved \in 0 .. MaxCnt /\ count \in 0 .. MaxCnt /\ count' \in 0 .. MaxCnt
    <3>1. count_saved \in 0 .. MaxCnt /\ count \in 0 .. MaxCnt
      BY DEF QueueInvs, QP!QueueInv, QP!TypeOK, QP!TimerTypeOK
    <3> QED  BY <1>1, <1>3, <3>1
  <2>2. QP!get_elapsed(count_saved, count') <= QP!get_elapsed(count_saved, count) + 1
    BY <1>1, <2>1, QueueAssumption, QP!ElapsedStep
  <2>3. /\ QP!get_elapsed(count_saved, count') \in 0 .. MaxCnt
        /\ QP!get_elapsed(count_saved, count) \in 0 .. MaxCnt
    BY <2>1, QueueAssumption, QP!ElapsedType
  <2>4. /\ QP!Reference = IF tmr_state = "ready" THEN 0 ELSE QP!get_elapsed(count_saved, count)
        /\ QP!Reference' = IF tmr_state = "ready" THEN 0 ELSE QP!get_elapsed(count_saved, count')
    BY <1>1 DEF QP!Reference, QP!Elapsed
  <2> QED  BY <1>3, <2>2, <2>3, <2>4
<1>5. /\ InLoop' = InLoop /\ Cursor' = Cursor
      /\ Entry(1)' = Entry(1) /\ Entry(2)' = Entry(2)
  BY <1>1 DEF InLoop, Cursor, Entry
<1>6. Charge' = Charge
  BY <1>1, <1>5 DEF Charge
<1>7. behind' \in Nat
  BY <1>1, <1>2
<1>8. ASSUME started, NEW b \in Int, behind >= b + QP!Reference, b <= Period + MaxCnt
      PROVE  behind' >= b + QP!Reference'
  <2>0. PICK r \in Nat, q \in Nat :
          /\ r = QP!Reference /\ q = QP!Reference' /\ q <= r + 1 /\ q <= MaxCnt
          /\ behind >= b + r
    BY <1>3, <1>4, <1>8
  <2>1. PICK h \in Int : h = behind
    BY <1>2
  <2>2. h >= b + r /\ q <= r + 1
    BY <2>0, <2>1
  <2>3. CASE h < DriftCap
    <3>1. behind' = h + 1
      BY <1>1, <1>8, <2>1, <2>3
    <3>2. h + 1 >= b + q
      BY <2>2, OneMore
    <3> QED  BY <2>0, <3>1, <3>2
  <2>4. CASE ~(h < DriftCap)
    <3>1. PICK p \in Int, m \in Int : p = Period /\ m = MaxCnt
      BY <1>3
    <3>2. behind' = h
      BY <1>1, <2>1, <2>4
    <3>3. h >= p + 2 * m /\ b <= p + m /\ q <= m
      BY <1>3, <1>8, <2>0, <2>4, <3>1
    <3>4. h >= b + q
      BY <3>3, NoMore
    <3> QED  BY <2>0, <3>2, <3>4
  <2> QED  BY <2>3, <2>4
<1>9. CursorInv'
  BY <1>1, <1>2, <1>5 DEF CursorInv
<1>10. FuncDue'
  <2>1. ASSUME pc = "func", c0 = tmr_c
        PROVE  behind' >= Period + elapsed + QP!Reference'
    <3>1. started /\ behind >= Period + elapsed + QP!Reference
      BY <1>2, <2>1 DEF FuncDue, Using
    <3>2. elapsed <= MaxCnt
      BY <1>2, <2>1 DEF CursorInv, InLoop
    <3>3. PICK b \in Int : b = Period + elapsed
      BY <1>3
    <3>4. behind >= b + QP!Reference /\ b <= Period + MaxCnt
      BY <1>3, <3>1, <3>2, <3>3
    <3>5. behind' >= b + QP!Reference'
      BY <1>8, <3>1, <3>4
    <3> QED  BY <3>3, <3>5
  <2> QED  BY <1>1, <1>2, <2>1 DEF FuncDue, Using
<1>11. Deltas(callouts_list', ticks', at) /\ WalkAt(at)'
  BY <1>1 DEF Sums, WalkAt
<1>12. Due(at)'
  <2> SUFFICES ASSUME tmr_c \in active \/ (c0 = tmr_c /\ pc \in {"walk", "armed"})
               PROVE  behind' >= Period + QP!Reference' + Charge - at[tmr_c]
    BY <1>1, <1>6 DEF Due
  <2>1. started /\ behind >= Period + QP!Reference + Charge - at[tmr_c]
    BY <1>2 DEF FuncDue, Using, Sums, Due
  <2>2. at[tmr_c] >= 0
    <3>1. CASE pc = "walk" /\ c0 = tmr_c
      BY <3>1, NoschedAssumption DEF Sums, WalkAt
    <3>2. CASE ~(pc = "walk" /\ c0 = tmr_c)
      <4>1. PICK j \in 1 .. Len(callouts_list) : callouts_list[j] = tmr_c
        BY <1>2, <3>2, QueueList
      <4>2. at[callouts_list[j]] \in Nat
        BY QueueList, DeltaAt DEF Sums
      <4> QED  BY <4>1, <4>2
    <3> QED  BY <3>1, <3>2
  <2>3. PICK b \in Int : b = Period + Charge - at[tmr_c]
    BY <1>3
  <2>4. behind >= b + QP!Reference /\ b <= Period + MaxCnt
    BY <1>2, <1>3, <2>1, <2>2, <2>3
  <2>5. behind' >= b + QP!Reference'
    BY <1>8, <2>1, <2>4
  <2> QED  BY <1>3, <1>4, <1>7, <2>3, <2>5
<1> QED  BY <1>7, <1>9, <1>10, <1>11, <1>12 DEF UptimeInv, Sums

\* The empty queue: nothing is due.
LEMMA UptimeInit == Init => UptimeInv
<1> SUFFICES ASSUME Init  PROVE UptimeInv
  OBVIOUS
<1>1. /\ pc = "idle" /\ callouts_list = <<>> /\ active = {} /\ c0 = NULL
      /\ tmr_state = "ready" /\ behind = 0
  BY DEF Init, Queue!Init
<1>2. PICK at : at = [k \in K3 |-> 0]
  OBVIOUS
<1>3. at \in [K3 -> Int]
  BY <1>2
<1>4. NULL # tmr_c
  BY NoschedAssumption
<1>5. Deltas(callouts_list, ticks, at)
  BY <1>1 DEF Deltas
<1>6. WalkAt(at) /\ Due(at)
  BY <1>1 DEF WalkAt, Due
<1>7. CursorInv /\ FuncDue /\ behind \in Nat
  BY <1>1, <1>4 DEF CursorInv, FuncDue, Using, InLoop
<1> QED  BY <1>3, <1>5, <1>6, <1>7 DEF UptimeInv, Sums

\* One lemma for every kind of step.
LEMMA UptimeInvNext ==
  ASSUME QueueInvs, QueueInvs', NoschedInv, UptimeInv, [Next]_vars,
         DriftCap >= Period + 2 * MaxCnt
  PROVE  UptimeInv'
<1>0. CodeInv /\ ThreadTypeOK /\ td_c \in K3 /\ slp_c \in K3 /\ tmr_c \in K3
  BY DEF NoschedInv, K3
<1>1. td_c # tmr_c /\ slp_c # tmr_c
  BY TimerFacts
<1>2. ASSUME UNCHANGED queueVars, UNCHANGED timerVars  PROVE UptimeInv'
  <2>1. /\ UNCHANGED <<callouts_list, ticks, active, tmr_state, count_saved, count,
                       pc, elapsed, c0, pos, cur, tmp, behind>>
        /\ UNCHANGED started
    BY <1>2 DEF queueVars, timerVars
  <2> QED  BY <2>1, UptimeFrame
<1>3. CASE wait_take
  <2>1. UNCHANGED timerVars /\ pc = "idle"
    BY <1>3 DEF wait_take, Go
  <2>2. UNCHANGED <<started, behind>>
    BY <2>1 DEF timerVars
  <2>3. CASE configured /\ td_c \in active
    BY <1>3, <2>1, <2>2, <2>3, UptimeCancel DEF wait_take
  <2>4. CASE ~(configured /\ td_c \in active)
    BY <1>2, <1>3, <2>1, <2>4 DEF wait_take
  <2> QED  BY <2>3, <2>4
<1>4. CASE wait_set
  <2>1. mdx_callout_set(td_c, usec) /\ UNCHANGED <<started, behind>>
    BY <1>4 DEF wait_set, timerVars
  <2> QED  BY <1>0, <1>1, <2>1, UptimeSet
<1>5. CASE wait_timeout \/ wait_idle \/ cpu_idle \/ wait_again \/ sleep_check
  <2>1. UNCHANGED queueVars /\ UNCHANGED timerVars
    BY <1>5 DEF wait_timeout, wait_idle, cpu_idle, wait_again, sleep_check
  <2> QED  BY <1>2, <2>1
<1>6. CASE (\E us \in WaitUsecs \cup {0} : wait_call(us)) \/ mdx_sem_trywait
           \/ DeviceRaises \/ DeviceIntr
  <2>1. UNCHANGED queueVars /\ UNCHANGED timerVars
    BY <1>6 DEF wait_call, mdx_sem_trywait, DeviceRaises, DeviceIntr
  <2> QED  BY <1>2, <2>1
<1>7. ASSUME NEW us \in SleepUsecs, mdx_usleep(us)  PROVE UptimeInv'
  <2>1. mdx_callout_set(slp_c, us) /\ UNCHANGED <<started, behind>>
    BY <1>7 DEF mdx_usleep, timerVars
  <2> QED  BY <1>0, <1>1, <2>1, UptimeSet
<1>8. CASE mdx_uptime_init
  <2>1. /\ mdx_callout_set(tmr_c, PeriodUs) /\ behind' = behind /\ started' = TRUE
        /\ tmr_state = "ready"
    BY <1>8 DEF mdx_uptime_init
  <2> QED  BY <1>0, <2>1, UptimeSet
<1>9. CASE QueueStep
  <2>1. UNCHANGED nosched
    BY <1>9 DEF QueueStep
  <2>2. CASE Queue!set_one_skip    BY <2>1, <2>2, UptimeSkip
  <2>3. CASE Queue!set_one_insert  BY <2>1, <2>3, UptimeInsert
  <2>4. CASE Queue!set_one_start   BY <2>1, <2>4, UptimeStart
  <2>5. CASE Queue!callback_lock   BY <1>0, <2>1, <2>5, UptimeLock
  <2>6. CASE Queue!callback_fire   BY <1>0, <2>1, <2>6, UptimeFire
  <2>7. CASE Queue!callback_break  BY <1>0, <2>1, <2>7, UptimeBreak
  <2>8. CASE Queue!callback_restart  BY <1>0, <2>1, <2>8, UptimeRestart
  <2> QED
    BY <1>9, <2>2, <2>3, <2>4, <2>5, <2>6, <2>7, <2>8 DEF QueueStep
<1>10. CASE mdx_sem_cb \/ mdx_tsleep_cb
  <2>1. Queue!func_return /\ c0 # tmr_c /\ UNCHANGED <<started, behind>>
    BY <1>1, <1>10 DEF mdx_sem_cb, mdx_tsleep_cb, nosched, timerVars
  <2> QED  BY <1>0, <2>1, UptimeReturn
<1>11. CASE mdx_timer_tick
  <2>1. /\ c0 = tmr_c /\ Queue!mdx_callout_set_ticks_locked(tmr_c, Period)
        /\ behind' = behind - Period /\ UNCHANGED started
    BY <1>11 DEF mdx_timer_tick
  <2> QED  BY <2>1, UptimeRearm
<1>12. CASE TimerIntr
  <2>1. Queue!TimerIntr /\ UNCHANGED nosched
    BY <1>12 DEF TimerIntr
  <2> QED  BY <1>0, <2>1, UptimeIntr
<1>13. CASE Tick
  BY <1>0, <1>13, UptimeTick
<1>14. CASE UNCHANGED vars
  <2>1. UNCHANGED queueVars /\ UNCHANGED timerVars
    BY <1>14 DEF vars, nosched
  <2> QED  BY <1>2, <2>1
<1> QED
  BY <1>3, <1>4, <1>5, <1>6, <1>7, <1>8, <1>9, <1>10, <1>11, <1>12, <1>13, <1>14
     DEF Next, ThreadStep, CallStep, HandlerStep

\* A period is less than two ticks longer than the ticks it is converted to.
LEMMA PeriodBound == Freq * PeriodUs <= Million * (Period + 2)
<1>1. Freq \in Nat /\ Million \in Nat \ {0} /\ PeriodUs \in 0 .. Word - 1 /\ PeriodUs \in Nat
  BY NoschedAssumption
<1>2. PICK n \in Nat : n = Freq * PeriodUs
  BY <1>1
<1>3. PICK e \in Nat : e = n \div Million
  BY <1>1, Quotient
<1>4. PICK r \in 0 .. Million - 1 : n = Million * e + r
  BY <1>1, <1>3, Quotient
<1>5. Period \in {e, e - 1}
  BY <1>1, <1>2, <1>3, ConversionBound DEF Period
<1>6. PICK t \in Int : t = Period /\ t \in {e, e - 1}
  BY <1>5
<1>7. Million * e + Million <= Million * (t + 2)
  BY <1>1, <1>6
<1>8. Million * e \in Nat /\ Million * (t + 2) \in Int
  BY <1>1, <1>6
<1> QED  BY <1>1, <1>2, <1>4, <1>6, <1>7, <1>8

\* The periods counted are ahead of the ticks since the start by less than two
\* ticks for each, once mdx_timer_tick is known not to run early.
LEMMA AheadByRounding ==
  ASSUME periods \in Nat, behind \in Nat
  PROVE  UptimeAheadByRounding
<1>1. Freq \in Nat /\ Million \in Nat /\ PeriodUs \in Nat /\ Period \in Nat
  BY NoschedAssumption DEF Period
<1>2. PICK x \in Nat : x = Freq * PeriodUs
  BY <1>1
<1>3. PICK y \in Nat : y = Million * (Period + 2)
  BY <1>1
<1>4. x <= y
  BY <1>2, <1>3, PeriodBound
<1>5. x * periods <= y * periods
  BY <1>4
<1>6. Freq * count_us = x * periods
  BY <1>1, <1>2 DEF count_us
<1>7. Million * ((behind + periods * Period) + 2 * periods) = Million * behind + y * periods
  BY <1>1, <1>3
<1>8. Million * behind \in Nat /\ x * periods \in Nat /\ y * periods \in Nat
  BY <1>1
<1>9. PICK b \in Nat : b = Million * behind
  BY <1>8
<1>10. x * periods <= b + y * periods
  BY <1>5, <1>8, <1>9
<1> QED  BY <1>6, <1>7, <1>9, <1>10 DEF UptimeAheadByRounding

\* mdx_timer_tick adds a period to count_us only when the ticks of a period
\* have passed, whichever waits and sleeps share the queue and wherever the
\* loop of mdx_callout_callback was when the timer was set again: mdx_uptime
\* is ahead of the time since mdx_uptime_init by the rounding of the period
\* alone, less than two ticks for every period.  The history must not stop
\* counting before it has reached a period and two laps of the counter.
THEOREM UptimeAheadByRoundingHolds ==
  ASSUME DriftCap >= Period + 2 * MaxCnt
  PROVE  Spec => []UptimeAheadByRounding
<1>1. Spec => [](QueueInvs /\ NoschedInv)
  BY NoschedInvariant
<1>2. Init => UptimeInv
  BY UptimeInit
<1>3. /\ QueueInvs /\ NoschedInv /\ (QueueInvs /\ NoschedInv)'
      /\ UptimeInv /\ [Next]_vars
      => UptimeInv'
  BY UptimeInvNext
<1>4. UptimeInv /\ NoschedInv => UptimeAheadByRounding
  <2> SUFFICES ASSUME UptimeInv, NoschedInv  PROVE UptimeAheadByRounding
    OBVIOUS
  <2>1. behind \in Nat
    BY DEF UptimeInv
  <2>2. periods \in Nat
    BY NoschedAssumption DEF NoschedInv, ThreadTypeOK
  <2> QED  BY <2>1, <2>2, AheadByRounding
<1> QED  BY <1>1, <1>2, <1>3, <1>4, PTL DEF Spec
=============================================================================
