----------------------------- MODULE MdxNosched -----------------------------
(***************************************************************************)
(* The kernel without a scheduler (kernel/nosched): one thread, which      *)
(* waits for a semaphore or sleeps with the CPU idle, interrupts of a      *)
(* device that post the semaphore, and the periodic timer of the uptime    *)
(* (kernel/timer).  Timeouts, sleeps and the timer share the callout queue *)
(* of the CPU, which is MdxCallout itself.                                 *)
(*                                                                         *)
(* There is one CPU, so the thread takes a step only while the code of the *)
(* queue is idle; it is interrupted only outside critical sections.        *)
(***************************************************************************)
EXTENDS Integers, Sequences

CONSTANTS
  td_c,        \* the callout of the thread,
  slp_c,       \* the one on the stack of mdx_tsleep,
  tmr_c,       \* and the one of the timer
  NULL,
  MaxCnt, WordMax, Latency, LateCap,  \* as in MdxCallout
  Freq,        \* mi_timer.frequency
  Million,     \* microseconds per second
  Word,        \* 2^32, the fixed point of the conversion
  WaitUsecs,   \* timeouts of mdx_sem_timedwait
  SleepUsecs,  \* arguments of mdx_usleep
  PeriodUs,    \* MDX_TIMER_UPTIME_PERIOD_US
  MaxCount,    \* bound: the device posts up to this count
  MaxPeriods,  \* bound: periods stops counting here
  DriftCap,    \* bound: behind stops counting here
  MaxFreq      \* bound: frequencies for which the conversion is judged

VARIABLES
  callouts_list, ticks, active, cstate, tmr_state, count_saved, count, compare,
  irq, pc, elapsed, c0, pos, cur, tmp, lag, left,  \* MdxCallout
  tpc,         \* where the thread is
  usec,        \* argument of mdx_sem_timedwait, 0 for mdx_sem_wait
  configured,  \* callout_configured
  timeout,     \* t.timeout
  got,         \* has the thread got a permit since it last called a wait?
  sem_count,   \* sem->sem_count
  dev,         \* has the device raised its interrupt?
  started,     \* timer->started
  periods,     \* timer->count_us, in periods
  behind       \* history: ticks since the timer started, less Period ticks
               \* for every time that mdx_timer_tick has run

Queue == INSTANCE MdxCallout WITH
  Callouts <- {td_c, slp_c, tmr_c}, SetTicks <- 0 .. WordMax,
  RearmTicks <- 1 .. WordMax, CbCancel <- FALSE, LapSafe <- FALSE

queueVars ==
  <<callouts_list, ticks, active, cstate, tmr_state, count_saved, count,
    compare, irq, pc, elapsed, c0, pos, cur, tmp, lag, left>>
timerVars == <<started, periods, behind>>
localVars == <<usec, configured, timeout, got>>
nosched == <<tpc, localVars, sem_count, dev, timerVars>>
vars == <<queueVars, nosched>>

-----------------------------------------------------------------------------
\* Mutant: the frequency is divided before it is widened.
usec_to_ticks_narrow(freq, us) == ((freq \div Million) * Word * us) \div Word

\* mdx_cputime_usec_to_ticks, in fixed point.
usec_to_ticks(freq, us) == (((freq * Word) \div Million) * us) \div Word

ASSUME NoschedAssumption ==
  /\ td_c # slp_c /\ td_c # tmr_c /\ slp_c # tmr_c
  /\ NULL \notin {td_c, slp_c, tmr_c} \cup 0 .. MaxCnt
  /\ {MaxCnt, Freq, Million, Word} \subseteq Nat \ {0}
  /\ {WordMax, Latency, LateCap, MaxCount, MaxPeriods, DriftCap, MaxFreq} \subseteq Nat
  /\ PeriodUs \in 0 .. Word - 1
  /\ MaxCnt <= WordMax
  /\ WaitUsecs \cup SleepUsecs \subseteq Nat
  /\ \A us \in WaitUsecs \cup SleepUsecs \cup {PeriodUs} :
       usec_to_ticks(Freq, us) \in 0 .. WordMax

\* "Could not sleep: too many usecs requested".
TooMany(freq, us) == ((Word - 1) * Word) \div ((freq * Word) \div Million) < us

\* mdx_callout_init and mdx_callout_set.
mdx_callout_set(k, us) ==
  LET t == usec_to_ticks(Freq, us)
  IN  IF t = 0 THEN Queue!mdx_callout_set_zero(k)
      ELSE Queue!mdx_callout_set_ticks(k, t)

Init ==
  /\ Queue!Init
  /\ tpc = "user"
  /\ usec = 0 /\ configured = FALSE /\ timeout = FALSE /\ got = FALSE
  /\ sem_count = 0
  /\ dev = FALSE
  /\ started = FALSE /\ periods = 0 /\ behind = 0

\* Mutant: cpu_idle is called outside the critical section.
Masked_idle == tpc = "check"

\* The thread is in a critical section.
Masked == tpc \in {"check", "idle", "sleep_idle"}

\* An interrupt is pending: it ends cpu_idle, and it is taken as soon as the
\* critical section ends.
IntrPending == irq = "raised" \/ dev

\* The thread runs, from label l to label m.
Go(l, m) == pc = "idle" /\ tpc = l /\ tpc' = m

-----------------------------------------------------------------------------
(***************************************************************************)
(* mdx_sem_timedwait, and mdx_sem_wait, which passes 0.                    *)
(***************************************************************************)
wait_call(us) ==
  /\ Go("user", "check")
  /\ ~IntrPending
  /\ usec' = us
  /\ configured' = FALSE
  /\ got' = FALSE
  /\ UNCHANGED <<queueVars, timeout, sem_count, dev, timerVars>>

\* The function returns value; its local variables are gone.
Return(value) ==
  usec' = 0 /\ configured' = FALSE /\ timeout' = FALSE /\ got' = value

\* Mutant: the callout is left in the queue.
wait_take_keep ==
  /\ Go("check", "user")
  /\ sem_count > 0
  /\ sem_count' = sem_count - 1
  /\ Return(TRUE)
  /\ UNCHANGED <<queueVars, dev, timerVars>>

wait_take ==
  /\ Go("check", "user")
  /\ sem_count > 0
  /\ sem_count' = sem_count - 1
  /\ IF configured /\ td_c \in active THEN Queue!mdx_callout_cancel(td_c)
     ELSE UNCHANGED queueVars
  /\ Return(TRUE)
  /\ UNCHANGED <<dev, timerVars>>

wait_set ==
  /\ Go("check", "idle")
  /\ sem_count = 0 /\ usec # 0 /\ ~configured
  /\ timeout' = FALSE
  /\ configured' = TRUE
  /\ mdx_callout_set(td_c, usec)
  /\ UNCHANGED <<usec, got, sem_count, dev, timerVars>>

\* Mutant: a permit that came with the timeout is forgotten.
wait_timeout_take ==
  /\ Go("check", "user")
  /\ configured /\ timeout
  /\ sem_count' = 0
  /\ Return(FALSE)
  /\ UNCHANGED <<queueVars, dev, timerVars>>

wait_timeout ==
  /\ Go("check", "user")
  /\ sem_count = 0 /\ configured /\ timeout
  /\ Return(FALSE)
  /\ UNCHANGED <<queueVars, sem_count, dev, timerVars>>

wait_idle ==
  /\ Go("check", "idle")
  /\ sem_count = 0 /\ (usec = 0 \/ (configured /\ ~timeout))
  /\ UNCHANGED <<queueVars, localVars, sem_count, dev, timerVars>>

\* cpu_idle returns when an interrupt is pending; critical_exit lets it in.
cpu_idle ==
  /\ Go("idle", "open") \/ Go("sleep_idle", "sleep_open")
  /\ IntrPending
  /\ UNCHANGED <<queueVars, localVars, sem_count, dev, timerVars>>

\* critical_enter: interrupts that were pending have been served.
wait_again ==
  /\ Go("open", "check")
  /\ ~IntrPending
  /\ UNCHANGED <<queueVars, localVars, sem_count, dev, timerVars>>

mdx_sem_trywait ==
  /\ Go("user", "user")
  /\ sem_count > 0
  /\ sem_count' = sem_count - 1
  /\ got' = TRUE
  /\ UNCHANGED <<queueVars, usec, configured, timeout, dev, timerVars>>

(***************************************************************************)
(* mdx_usleep and mdx_tsleep.                                              *)
(***************************************************************************)
mdx_usleep(us) ==
  /\ Go("user", "sleep_open")
  /\ mdx_callout_set(slp_c, us)
  /\ UNCHANGED <<localVars, sem_count, dev, timerVars>>

sleep_check ==
  /\ IF cstate[slp_c] = "fired" THEN Go("sleep_open", "user")
     ELSE Go("sleep_open", "sleep_idle")
  /\ ~IntrPending
  /\ UNCHANGED <<queueVars, localVars, sem_count, dev, timerVars>>

\* mdx_uptime_init: mdx_timer_start of the zeroed timer, when the system is
\* initialised and no callout has been set yet.
mdx_uptime_init ==
  /\ Go("user", "user")
  /\ ~started
  /\ tmr_state = "ready"
  /\ started' = TRUE
  /\ mdx_callout_set(tmr_c, PeriodUs)
  /\ UNCHANGED <<localVars, sem_count, dev, periods, behind>>

-----------------------------------------------------------------------------
(***************************************************************************)
(* Interrupts.                                                             *)
(***************************************************************************)
DeviceRaises ==
  /\ ~dev /\ sem_count < MaxCount
  /\ dev' = TRUE
  /\ UNCHANGED <<queueVars, tpc, localVars, sem_count, timerVars>>

\* The handler of the device calls mdx_sem_post.
DeviceIntr ==
  /\ ~Masked /\ pc = "idle" /\ dev
  /\ dev' = FALSE
  /\ sem_count' = sem_count + 1
  /\ UNCHANGED <<queueVars, tpc, localVars, timerVars>>

TimerIntr == ~Masked /\ Queue!TimerIntr /\ UNCHANGED nosched

mdx_sem_cb ==
  /\ c0 = td_c /\ Queue!func_return
  /\ timeout' = TRUE
  /\ UNCHANGED <<tpc, usec, configured, got, sem_count, dev, timerVars>>

mdx_tsleep_cb == c0 = slp_c /\ Queue!func_return /\ UNCHANGED nosched

Period == usec_to_ticks(Freq, PeriodUs)

\* Mutant: the timer is set again for the time that is left of a period
\* after the ticks it was late, which the queue may count once more.
mdx_timer_tick_late ==
  /\ c0 = tmr_c
  /\ Queue!mdx_callout_set_ticks_locked(tmr_c, IF elapsed < Period THEN Period - elapsed ELSE 1)
  /\ periods' = IF periods < MaxPeriods THEN periods + 1 ELSE periods
  /\ behind' = behind - Period
  /\ UNCHANGED <<tpc, localVars, sem_count, dev, started>>

\* count_us grows by period_us, and the callout is set again for as many
\* ticks as usec_to_ticks makes of it.
mdx_timer_tick ==
  /\ c0 = tmr_c
  /\ Queue!mdx_callout_set_ticks_locked(tmr_c, Period)
  /\ periods' = IF periods < MaxPeriods THEN periods + 1 ELSE periods
  /\ behind' = behind - Period
  /\ UNCHANGED <<tpc, localVars, sem_count, dev, started>>

\* mdx_uptime.
count_us == periods * PeriodUs

\* The code of the queue goes on.
QueueStep ==
  /\ \/ Queue!set_one_skip \/ Queue!set_one_insert \/ Queue!set_one_start
     \/ Queue!callback_lock \/ Queue!callback_fire \/ Queue!callback_break
     \/ Queue!callback_restart
  /\ UNCHANGED nosched

\* Time passes.
Tick ==
  /\ Queue!TimerTick
  /\ behind' = IF started /\ behind < DriftCap THEN behind + 1 ELSE behind
  /\ UNCHANGED <<tpc, localVars, sem_count, dev, started, periods>>

ThreadStep ==
  \/ wait_take \/ wait_set \/ wait_timeout \/ wait_idle \/ cpu_idle
  \/ wait_again \/ sleep_check

CallStep ==
  \/ \E us \in WaitUsecs \cup {0} : wait_call(us)
  \/ \E us \in SleepUsecs : mdx_usleep(us)
  \/ mdx_sem_trywait \/ mdx_uptime_init

HandlerStep == QueueStep \/ mdx_sem_cb \/ mdx_tsleep_cb \/ mdx_timer_tick

Next ==
  \/ ThreadStep \/ CallStep \/ HandlerStep
  \/ DeviceRaises \/ DeviceIntr \/ TimerIntr \/ Tick

Spec == Init /\ [][Next]_vars

-----------------------------------------------------------------------------
(***************************************************************************)
(* Properties.                                                             *)
(***************************************************************************)
Waiting == tpc \in {"check", "idle", "open"}
Sleeping == tpc \in {"sleep_open", "sleep_idle"}

\* Every variable has its type, those of the queue included.
TypeOK ==
  /\ Queue!TypeOK
  /\ tpc \in {"user", "check", "idle", "open", "sleep_open", "sleep_idle"}
  /\ usec \in WaitUsecs \cup {0}
  /\ {configured, timeout, got, dev, started} \subseteq BOOLEAN
  /\ sem_count \in 0 .. MaxCount
  /\ periods \in 0 .. MaxPeriods
  /\ behind \in Int

\* The semaphore is one (SemSpec): a post in an interrupt that races the
\* timeout or the test of the count is neither lost nor taken twice.
Sem == INSTANCE SemSpec WITH
  Procs <- {"thread"}, Count <- 0, value <- sem_count,
  waiting <- IF Waiting THEN {"thread"} ELSE {},
  held <- IF got THEN {"thread"} ELSE {}
Semaphore == Sem!Spec

\* With the types: no callout outlives the call that set it.  mdx_sem_cb and
\* the queue never use the token or the callout of a stack frame that is gone.
NoDanglingCallout ==
  LET inUse(k) == k \in active \/ c0 = k \/ \E i \in DOMAIN callouts_list : callouts_list[i] = k
  IN  /\ TypeOK
      /\ inUse(td_c) => Waiting
      /\ inUse(slp_c) => Sleeping

\* A wait does not time out and a sleep does not end before its time, also
\* when the timer sets its callout again in between.
WaitNeverEarly ==
  [][pc = "loop" /\ pc' = "func" /\ cur # tmr_c => left[cur] <= 0]_vars

\* mdx_timer_tick runs at most once for every Period ticks since the timer
\* was started, although a callout that the callback sets again counts from
\* the time it was due on some paths and from the interrupt on others.  So
\* mdx_uptime is ahead of the time only by what usec_to_ticks has cut off
\* the period, less than two ticks for every period counted; and
\* unless interrupts are late, it is ahead whenever the period is not a whole
\* number of ticks.
UptimeAheadByRounding ==
  /\ behind >= 0
  /\ LET since == behind + periods * Period  \* ticks since the start
     IN  Freq * count_us <= Million * (since + 2 * periods)

\* The conversion to ticks is exact but for one tick, and never rounds up.
UsecToTicksClose ==
  \A freq \in 1 .. MaxFreq, us \in 0 .. Word - 1 :
    ~TooMany(freq, us) =>
      LET exact == (freq * us) \div Million
      IN  usec_to_ticks(freq, us) \in {exact, exact - 1}

\* Whatever time a thread that may call wait or sleep now asks for, on a timer
\* of whatever frequency, mdx_cputime_usec_to_ticks is off by one tick at most.
ConversionClose == tpc = "user" => UsecToTicksClose

\* No wakeup is lost: a thread that goes idle in a wait leaves no permit
\* behind, nor a timeout that has come, and if it waits for a time of a tick
\* or more, its callout is on the queue or about to be served, with the timer
\* running.
NoLostWakeup ==
  tpc = "idle" =>
    /\ sem_count = 0
    /\ ~timeout
    /\ usec_to_ticks(Freq, usec) > 0 =>
         /\ td_c \in active \/ (c0 = td_c /\ pc \in {"walk", "armed"})
         /\ pc = "idle" => compare # NULL \/ irq = "raised"
=============================================================================
