----------------------------- MODULE MdxCallout -----------------------------
(***************************************************************************)
(* The callout queue of one CPU (kernel/callout/mdx_callout.c) and the     *)
(* free-running hardware timer that drives it.                             *)
(*                                                                         *)
(* Pending callouts are kept on a delta list: the ticks of a callout are   *)
(* counted from its predecessor, those of the first one from the moment    *)
(* count_saved was read.  The timer is an up-counter that reloads after    *)
(* MaxCnt and raises an interrupt when it meets the compare register.      *)
(*                                                                         *)
(* The two loops of the code (the walk of mdx_callout_set_one and the loop *)
(* of mdx_callout_callback) take one step per iteration, and the counter   *)
(* may advance between any two steps, as it does on the hardware.  The     *)
(* variable left is history: it records, for every pending callout, how    *)
(* much of the interval its caller asked for has not passed yet.           *)
(***************************************************************************)
EXTENDS Integers, Sequences, SequencesExt

CONSTANTS
  Callouts,    \* the struct mdx_callout objects
  NULL,        \* the null pointer
  MaxCnt,      \* mi_timer.maxcnt, the largest value of the counter
  WordMax,     \* largest uint32_t
  SetTicks,    \* the intervals, in ticks, that threads ask for (0 included or not)
  RearmTicks,  \* the intervals that callout functions ask for
  CbCancel,    \* may a callout function cancel another callout?
  Latency,     \* most ticks that pass while the interrupt is pending or masked
  LapSafe,     \* do callers keep every deadline within the counter's present lap?
  LateCap      \* left stops counting at -LateCap

ASSUME CalloutAssumption ==
  /\ NULL \notin Callouts
  /\ NULL \notin 0 .. MaxCnt
  /\ MaxCnt \in Nat \ {0}
  /\ WordMax \in Nat
  /\ MaxCnt <= WordMax
  /\ SetTicks \subseteq 0 .. WordMax
  /\ RearmTicks \subseteq 1 .. WordMax
  /\ CbCancel \in BOOLEAN
  /\ LapSafe \in BOOLEAN
  /\ Latency \in Nat
  /\ LateCap \in Nat

VARIABLES
  callouts_list,  \* callouts_list[cpuid]
  ticks,          \* c->ticks
  active,         \* the callouts with CALLOUT_FLAG_ACTIVE in c->flags
  cstate,         \* c->state
  tmr_state,      \* mi_tmr->state[cpuid]
  count_saved,    \* mi_tmr->count_saved[cpuid]
  count,          \* the counter of the timer device
  compare,        \* its compare register, NULL while the interrupt is disabled
  irq,            \* the timer interrupt: "raised" until it is taken
  pc,             \* where the code that owns the queue is
  elapsed,        \* local variable elapsed / ticks_elapsed
  c0,             \* the callout being set, or the one whose function runs
  pos,            \* position of the walk of mdx_callout_set_one
  cur,            \* local variable c of mdx_callout_callback
  tmp,            \* local variable tmp of mdx_callout_callback
  lag,            \* ticks since the interrupt was raised or masked
  left            \* history: ticks left of the interval asked for

\* Most ticks a function may be late: Latency until the interrupt is taken,
\* Latency more if the timer was programmed that late, and once again with
\* the tick that get_elapsed loses when the counter wraps.
MaxLate == 3 * Latency + 1

hardware == <<count, compare, irq>>
locals == <<elapsed, c0, pos, cur, tmp>>
vars == <<callouts_list, ticks, active, cstate, tmr_state, count_saved,
          hardware, pc, locals, lag, left>>

-----------------------------------------------------------------------------
(***************************************************************************)
(* Operators of the code.                                                  *)
(***************************************************************************)

\* uint32_t addition and subtraction.
WordAdd(a, b) == IF a + b > WordMax THEN a + b - (WordMax + 1) ELSE a + b
WordSub(a, b) == IF a < b THEN a - b + (WordMax + 1) ELSE a - b

first == IF callouts_list = <<>> THEN NULL ELSE callouts_list[1]

OnList(c) == \E i \in DOMAIN callouts_list : callouts_list[i] = c
Index(c) == CHOOSE i \in DOMAIN callouts_list : callouts_list[i] = c

\* The successor of c; a node off the list points to itself (list_init).
next(c) ==
  IF ~OnList(c) THEN c
  ELSE IF Index(c) = Len(callouts_list) THEN NULL
  ELSE callouts_list[Index(c) + 1]

\* The list without node c.
list_remove(c) ==
  IF OnList(c) THEN RemoveAt(callouts_list, Index(c)) ELSE callouts_list

\* The ticks between the reading saved and the reading cnt of the counter.
get_elapsed(saved, cnt) ==
  IF cnt >= saved THEN cnt - saved ELSE MaxCnt - saved + cnt

Elapsed == get_elapsed(count_saved, count)

\* Mutant: the compare register is programmed past the reload value.
mi_tmr_start_nowrap(n) ==
  /\ compare' = count + (IF n > MaxCnt THEN MaxCnt ELSE n)
  /\ irq' \in {irq, "clear"}
  /\ UNCHANGED count

\* Program the compare register n ticks ahead.  A request already pending is
\* dropped by some devices (clint) and kept by others (stm32f4, gd32v).
mi_tmr_start(n) ==
  LET target == count + (IF n > MaxCnt THEN MaxCnt ELSE n)
  IN  /\ compare' = IF target > MaxCnt THEN target - (MaxCnt + 1) ELSE target
      /\ irq' \in {irq, "clear"}
      /\ UNCHANGED count

mi_tmr_stop ==
  /\ compare' = NULL
  /\ irq' = "clear"
  /\ UNCHANGED count

\* The code leaves the queue: interrupts are enabled again.
Leave == pc' = "idle" /\ lag' = IF irq' = "raised" THEN lag ELSE 0

InCallback == tmr_state = "exception"

\* c->func returns and the loop of mdx_callout_callback goes on with tmp.
FuncReturn ==
  /\ pc' = "loop"
  /\ cur' = tmp
  /\ lag' = lag

Init ==
  /\ callouts_list = <<>>
  /\ ticks = [c \in Callouts |-> 0]
  /\ active = {}
  /\ cstate = [c \in Callouts |-> "ready"]
  /\ tmr_state = "ready"
  /\ count_saved = 0
  /\ count \in 0 .. MaxCnt
  /\ compare = NULL
  /\ irq = "clear"
  /\ pc = "idle"
  /\ elapsed = 0
  /\ c0 = NULL
  /\ pos = 1
  /\ cur = NULL
  /\ tmp = NULL
  /\ lag = 0
  /\ left = [c \in Callouts |-> 0]

-----------------------------------------------------------------------------
(***************************************************************************)
(* mdx_callout_set_ticks, called by threads in a critical section (after   *)
(* mdx_callout_init), and mdx_callout_set_ticks_locked, called by a        *)
(* callout function.                                                       *)
(***************************************************************************)

\* From the check of CALLOUT_FLAG_ACTIVE to the start of the walk.
set_begin(c, t) ==
  /\ c \notin active
  /\ t > 0
  /\ LET e == IF tmr_state = "running" THEN Elapsed ELSE 0
     IN  /\ LapSafe => e + t + MaxLate < MaxCnt
         /\ ticks' = [ticks EXCEPT ![c] = WordAdd(t, e)]
         /\ elapsed' = IF InCallback THEN elapsed ELSE e
  /\ c0' = c
  /\ pos' = 1
  /\ pc' = "walk"
  /\ left' = [left EXCEPT ![c] = t]

mdx_callout_set_ticks(c, t) ==
  /\ pc = "idle"
  /\ set_begin(c, t)
  /\ cstate' = [cstate EXCEPT ![c] = "ready"]
  /\ UNCHANGED <<callouts_list, active, tmr_state, count_saved, hardware,
                 cur, tmp, lag>>

\* A zero interval: the callout counts as fired and func is never called.
mdx_callout_set_zero(c) ==
  /\ pc = "idle"
  /\ 0 \in SetTicks
  /\ c \notin active
  /\ cstate' = [cstate EXCEPT ![c] = "fired"]
  /\ UNCHANGED <<callouts_list, ticks, active, tmr_state, count_saved,
                 hardware, pc, locals, lag, left>>

\* A callout function sets a callout: itself again, as mdx_timer_tick does,
\* or another one.
mdx_callout_set_ticks_locked(c, t) ==
  /\ pc = "func"
  /\ set_begin(c, t)
  /\ UNCHANGED <<callouts_list, active, cstate, tmr_state, count_saved,
                 hardware, cur, tmp, lag>>

\* One iteration of the walk that does not find the place yet.
set_one_skip ==
  /\ pc = "walk"
  /\ pos <= Len(callouts_list)
  /\ ticks[callouts_list[pos]] <= ticks[c0]
  /\ ticks' = [ticks EXCEPT ![c0] = @ - ticks[callouts_list[pos]]]
  /\ pos' = pos + 1
  /\ UNCHANGED <<callouts_list, active, cstate, tmr_state, count_saved,
                 hardware, pc, elapsed, c0, cur, tmp, lag, left>>

\* The place is found, or the list ends.
set_one_insert ==
  /\ pc = "walk"
  /\ pos <= Len(callouts_list) => ticks[callouts_list[pos]] > ticks[c0]
  /\ callouts_list' = InsertAt(callouts_list, pos, c0)
  /\ ticks' = IF pos <= Len(callouts_list)
              THEN [ticks EXCEPT ![callouts_list[pos]] = @ - ticks[c0]]
              ELSE ticks
  /\ pc' = "armed"
  /\ UNCHANGED <<active, cstate, tmr_state, count_saved, hardware, locals,
                 lag, left>>

\* The switch on the state of the timer that ends mdx_callout_set_one.
set_one_start ==
  /\ pc = "armed"
  /\ active' = active \cup {c0}
  /\ \/ /\ tmr_state = "running"
        /\ IF c0 = first
           THEN mi_tmr_start(WordSub(ticks[c0], elapsed))
           ELSE UNCHANGED hardware
        /\ Leave
        /\ UNCHANGED <<tmr_state, count_saved, cur>>
     \/ /\ InCallback
        /\ FuncReturn
        /\ UNCHANGED <<tmr_state, count_saved, hardware>>
     \/ /\ tmr_state = "ready"
        /\ tmr_state' = "running"
        /\ count_saved' = count
        /\ mi_tmr_start(ticks[first])
        /\ Leave
        /\ UNCHANGED cur
  /\ c0' = NULL
  /\ UNCHANGED <<callouts_list, ticks, cstate, elapsed, pos, tmp, left>>

(***************************************************************************)
(* mdx_callout_cancel.  It takes the lock of the queue, so a thread of     *)
(* another CPU may also run it while the interrupt handler of this CPU     *)
(* waits for the lock.  The timer is not reprogrammed.                     *)
(***************************************************************************)

\* Mutant: the successor is not given the ticks of the cancelled callout.
cancel_locked_noticks(c) ==
  /\ c \in active
  /\ callouts_list' = list_remove(c)
  /\ active' = active \ {c}
  /\ left' = [left EXCEPT ![c] = 0]
  /\ UNCHANGED ticks

\* Mutant: the flag is cleared but the node stays on the list.
cancel_locked_keep(c) ==
  /\ c \in active
  /\ active' = active \ {c}
  /\ left' = [left EXCEPT ![c] = 0]
  /\ UNCHANGED <<ticks, callouts_list>>

\* Mutant: the node is removed but the flag is not cleared.
cancel_locked_flag(c) ==
  /\ c \in active
  /\ ticks' = IF next(c) = NULL THEN ticks
              ELSE [ticks EXCEPT ![next(c)] = WordAdd(@, ticks[c])]
  /\ callouts_list' = list_remove(c)
  /\ left' = [left EXCEPT ![c] = 0]
  /\ UNCHANGED active

cancel_locked(c) ==
  /\ c \in active
  /\ ticks' = IF next(c) = NULL THEN ticks
              ELSE [ticks EXCEPT ![next(c)] = WordAdd(@, ticks[c])]
  /\ callouts_list' = list_remove(c)
  /\ active' = active \ {c}
  /\ left' = [left EXCEPT ![c] = 0]

mdx_callout_cancel(c) ==
  /\ pc \in {"idle", "lock"}
  /\ cancel_locked(c)
  /\ UNCHANGED <<cstate, tmr_state, count_saved, hardware, pc, locals, lag>>

\* A callout function cancels a callout (mdx_sem_post does, on one CPU).
func_cancel(c) ==
  /\ pc = "func"
  /\ CbCancel
  /\ cancel_locked(c)
  /\ FuncReturn
  /\ c0' = NULL
  /\ UNCHANGED <<cstate, tmr_state, count_saved, hardware, elapsed, pos, tmp>>

-----------------------------------------------------------------------------
(***************************************************************************)
(* mdx_callout_callback, called from the interrupt handler of the timer,   *)
(* which disables the interrupt first.                                     *)
(***************************************************************************)
TimerIntr ==
  /\ pc = "idle"
  /\ irq = "raised"
  /\ compare' = NULL
  /\ irq' = "clear"
  /\ IF callouts_list = <<>>
     THEN /\ Leave
          /\ UNCHANGED <<elapsed, count_saved, tmr_state>>
     ELSE /\ elapsed' = Elapsed
          /\ count_saved' = count
          /\ tmr_state' = "exception"
          /\ pc' = "lock"
          /\ UNCHANGED lag
  /\ UNCHANGED <<callouts_list, ticks, active, cstate, count, c0, pos, cur,
                 tmp, left>>

callback_lock ==
  /\ pc = "lock"
  /\ cur' = first
  /\ pc' = "loop"
  /\ UNCHANGED <<callouts_list, ticks, active, cstate, tmr_state, count_saved,
                 hardware, elapsed, c0, pos, tmp, lag, left>>

\* The interval of cur is over: take it off the list and call its function.
callback_fire ==
  /\ pc = "loop"
  /\ cur # NULL
  /\ elapsed >= ticks[cur]
  /\ tmp' = next(cur)
  /\ elapsed' = elapsed - ticks[cur]
  /\ callouts_list' = list_remove(cur)
  /\ ticks' = [ticks EXCEPT ![cur] = 0]
  /\ cstate' = [cstate EXCEPT ![cur] = "fired"]
  /\ active' = active \ {cur}
  /\ left' = [left EXCEPT ![cur] = 0]
  /\ c0' = cur
  /\ pc' = "func"
  /\ UNCHANGED <<tmr_state, count_saved, hardware, pos, cur, lag>>

func_return ==
  /\ pc = "func"
  /\ FuncReturn
  /\ c0' = NULL
  /\ UNCHANGED <<callouts_list, ticks, active, cstate, tmr_state, count_saved,
                 hardware, elapsed, pos, tmp, left>>

\* Mutant: the first callout left is not charged with the ticks that passed.
callback_break_keep ==
  /\ pc = "loop"
  /\ cur # NULL => elapsed < ticks[cur]
  /\ pc' = "restart"
  /\ UNCHANGED <<callouts_list, ticks, active, cstate, tmr_state, count_saved,
                 hardware, locals, lag, left>>

\* The loop ends: at a callout that is not due yet, or at the end of the list.
callback_break ==
  /\ pc = "loop"
  /\ cur # NULL => elapsed < ticks[cur]
  /\ ticks' = IF cur = NULL THEN ticks
              ELSE [ticks EXCEPT ![cur] = @ - elapsed]
  /\ pc' = "restart"
  /\ UNCHANGED <<callouts_list, active, cstate, tmr_state, count_saved,
                 hardware, locals, lag, left>>

\* What is left to do when mdx_callout_callback has set the timer.
CallbackEnd ==
  /\ Leave
  /\ elapsed' = 0
  /\ cur' = NULL
  /\ tmp' = NULL
  /\ UNCHANGED <<callouts_list, ticks, active, cstate, count_saved, c0, pos,
                 left>>

\* Mutant: the end of the loop is taken for an empty list, although a
\* function may have set a callout behind the loop's back.
callback_restart_cur ==
  /\ pc = "restart"
  /\ IF cur # NULL
     THEN tmr_state' = "running" /\ mi_tmr_start(ticks[cur])
     ELSE tmr_state' = "ready" /\ mi_tmr_stop
  /\ CallbackEnd

\* Mutant: the timer is not programmed again after an interrupt.
callback_restart_nostart ==
  /\ pc = "restart"
  /\ tmr_state' = IF first # NULL THEN "running" ELSE "ready"
  /\ UNCHANGED hardware
  /\ CallbackEnd

\* Program the timer for the first callout left, or stop it.
callback_restart ==
  /\ pc = "restart"
  /\ IF first # NULL
     THEN tmr_state' = "running" /\ mi_tmr_start(ticks[first])
     ELSE tmr_state' = "ready" /\ mi_tmr_stop
  /\ CallbackEnd

-----------------------------------------------------------------------------
(***************************************************************************)
(* The timer device: the counter advances and raises the interrupt when it *)
(* meets the compare register.  At most Latency ticks pass while the       *)
(* interrupt waits or the CPU is inside the framework.                     *)
(***************************************************************************)
Busy == irq = "raised" \/ pc # "idle"

Pending(c) == c \in active \/ (pc \in {"walk", "armed"} /\ c = c0)

TimerTick ==
  /\ Busy => lag < Latency
  /\ count' = IF count = MaxCnt THEN 0 ELSE count + 1
  /\ irq' = IF count' = compare THEN "raised" ELSE irq
  /\ lag' = IF Busy THEN lag + 1 ELSE 0
  /\ left' = [c \in Callouts |->
                IF Pending(c) /\ left[c] > -LateCap THEN left[c] - 1
                ELSE left[c]]
  /\ UNCHANGED <<callouts_list, ticks, active, cstate, tmr_state, count_saved,
                 compare, pc, locals>>

Next ==
  \/ \E c \in Callouts, t \in SetTicks : mdx_callout_set_ticks(c, t)
  \/ \E c \in Callouts : mdx_callout_set_zero(c)
  \/ \E c \in Callouts, t \in RearmTicks : mdx_callout_set_ticks_locked(c, t)
  \/ set_one_skip
  \/ set_one_insert
  \/ set_one_start
  \/ \E c \in Callouts : mdx_callout_cancel(c)
  \/ \E c \in Callouts : func_cancel(c)
  \/ TimerIntr
  \/ callback_lock
  \/ callback_fire
  \/ func_return
  \/ callback_break
  \/ callback_restart
  \/ TimerTick

\* The steps the CPU takes once it is inside the framework.
CodeStep ==
  \/ set_one_skip \/ set_one_insert \/ set_one_start
  \/ callback_lock \/ callback_fire \/ func_return
  \/ callback_break \/ callback_restart

(***************************************************************************)
(* Code that has started goes on, time goes on, and a pending interrupt is *)
(* taken: every critical_exit to level zero lets it in, so callers that    *)
(* enter again and again cannot hold it off (strong fairness).             *)
(***************************************************************************)
Fairness == WF_vars(CodeStep) /\ SF_vars(TimerTick) /\ SF_vars(TimerIntr)

Spec == Init /\ [][Next]_vars
FairSpec == Spec /\ Fairness

-----------------------------------------------------------------------------
\* Mutant: every callout after the first is charged with the elapsed ticks.
mdx_callout_ticks_noreset(c) ==
  LET walk[i \in 0 .. Len(callouts_list)] ==
        IF i = 0 THEN [elapsed |-> Elapsed, val |-> 0]
        ELSE LET acc == walk[i - 1]
                 t == ticks[callouts_list[i]]
             IN  IF acc.elapsed >= t
                 THEN [elapsed |-> acc.elapsed - t, val |-> acc.val]
                 ELSE [elapsed |-> acc.elapsed, val |-> acc.val + t - acc.elapsed]
  IN  IF c \notin active THEN 0 ELSE walk[Index(c)].val

(***************************************************************************)
(* mdx_callout_ticks: the ticks left to run for callout c, worked out from *)
(* the delta list and the counter (a build for one CPU has it).  walk[i]   *)
(* has ticks_elapsed and val after i callouts.                             *)
(***************************************************************************)
mdx_callout_ticks(c) ==
  LET walk[i \in 0 .. Len(callouts_list)] ==
        IF i = 0 THEN [elapsed |-> Elapsed, val |-> 0]
        ELSE LET acc == walk[i - 1]
                 t == ticks[callouts_list[i]]
             IN  IF acc.elapsed >= t
                 THEN [elapsed |-> acc.elapsed - t, val |-> acc.val]
                 ELSE [elapsed |-> 0, val |-> acc.val + t - acc.elapsed]
  IN  IF c \notin active THEN 0 ELSE walk[Index(c)].val

-----------------------------------------------------------------------------
(***************************************************************************)
(* Properties.                                                             *)
(***************************************************************************)

PCs == {"idle", "walk", "armed", "lock", "loop", "func", "restart"}

QueueTypeOK ==
  /\ callouts_list \in Seq(Callouts)
  /\ ticks \in [Callouts -> 0 .. WordMax]
  /\ active \subseteq Callouts
  /\ cstate \in [Callouts -> {"ready", "fired"}]

TimerTypeOK ==
  /\ tmr_state \in {"ready", "running", "exception"}
  /\ count_saved \in 0 .. MaxCnt
  /\ count \in 0 .. MaxCnt
  /\ compare \in (0 .. MaxCnt) \cup {NULL}
  /\ irq \in {"clear", "raised"}
  /\ lag \in Nat

LocalTypeOK ==
  /\ pc \in PCs
  /\ elapsed \in 0 .. WordMax
  /\ c0 \in Callouts \cup {NULL}
  /\ pos \in Nat \ {0}
  /\ cur \in Callouts \cup {NULL}
  /\ tmp \in Callouts \cup {NULL}
  /\ left \in [Callouts -> Int]

\* Every variable has its type; ticks stay uint32_t, the registers in range.
TypeOK == QueueTypeOK /\ TimerTypeOK /\ LocalTypeOK

\* CALLOUT_FLAG_ACTIVE tells the truth whatever the order of sets, cancels
\* and interrupts: a callout carries the flag exactly when it is on the list
\* (the one being set gets it last), and it is there once.  list_insert on a
\* node already linked would cut the list.
ListIntegrity ==
  /\ \A i, j \in DOMAIN callouts_list :
       callouts_list[i] = callouts_list[j] => i = j
  /\ \A c \in Callouts :
       OnList(c) <=> (c \in active \/ (pc = "armed" /\ c = c0))

\* No callout function runs before the interval given to mdx_callout_set has
\* passed, however late the interrupt was, wherever the counter wrapped and
\* whichever callouts were set or cancelled meanwhile.
NeverEarly == [][(pc = "loop" /\ pc' = "func") => left[cur] <= 0]_vars

\* A callout function is only called for a callout that is still pending: a
\* cancelled callout is never called by the loop of mdx_callout_callback.
FiresOnlyPending == [][(pc = "loop" /\ pc' = "func") => cur \in active]_vars

\* A queue that is not empty never loses its interrupt: cancelling the head
\* or setting a later callout leaves the timer programmed (or the request
\* pending), and the state of mi_timer says so.
TimerArmed ==
  pc = "idle" =>
    /\ callouts_list # <<>> =>
         tmr_state = "running" /\ (irq = "raised" \/ compare # NULL)
    /\ tmr_state # "exception"

\* A callout is not forgotten: no pending callout is overdue by more than the
\* latency of the system explains.
Prompt == \A c \in Callouts : Pending(c) => left[c] >= -MaxLate

\* What mdx_callout_ticks works out from the deltas and the counter is never
\* less than the time really left, wherever callouts were set or cancelled:
\* who sleeps that long does not wake before the function has been called.
TicksLeftHonest ==
  pc = "idle" => \A c \in active : mdx_callout_ticks(c) >= left[c]

\* Every callout that is set is called or cancelled in the end.
EventuallyFires == \A c \in Callouts : c \in active ~> c \notin active
=============================================================================
