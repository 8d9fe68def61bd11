# A TLA+ verification project for mdepx

mdepx is a small real-time operating system for microcontrollers and RISC-V
systems, with preemptive and cooperative threads, SMP, and a tick-less timer
framework. This directory holds TLA+ models of its kernel, the TLC
configurations that check them, and proofs checked by TLAPS. `PROJECT.json`
lists components, runs, mutants, the map from definitions to source lines,
findings, hazards and theorems.

## The system

| Component | State | Operations | Interacts with |
|---|---|---|---|
| callout framework (`kernel/callout`) | per CPU: delta list, `mi_timer` state, `count_saved`; per callout: ticks, flags, state | set, set_locked, cancel, callback, ticks | timer device (start, stop, count, interrupt); calls functions of its users in interrupt context, under its lock |
| timer device (`clint_timer.c` and others) | counter, compare register, interrupt | start, stop, count | interrupts a CPU |
| scheduler (`mdx_sched.c`) | `runq` per priority, `pcpu_list`, scheduler lock | add, ack, park, next, cpu_avail | callouts (quantum), IPIs, exception handler |
| exception handler (`trap.c`, `machdep.c`) | per CPU: current thread, interrupt thread, nesting of critical sections | ecall, timer interrupt, software interrupt | drives the scheduler and the callback |
| semaphore, mutex (`mdx_sem.c`, `mdx_mutex.c`) | count, list of waiters, spinlock, owner | wait, timedwait, trywait, post; lock, timedlock, trylock, unlock | scheduler, callouts |
| sleep, threads (`mdx_tsleep.c`, `kernel/thread`) | `td_state`, `td_c`, allocation | tsleep, usleep, create, terminate, yield | scheduler, callouts, malloc |
| SMP, panic (`mdx_smp.c`, `clint_intr.c`, `mdx_panic.c`) | pending IPIs, the two counters of the room, `smp_lock` | rendezvous, ipi_handler, send_ipi, panic | exception handler |
| fifo (`mdx_fifo.c`) | list, spinlock, semaphore | put, get, get_wait | semaphore |
| nosched (`kernel/nosched`) | count, timeout token | the semaphore and sleep interface without scheduler | callouts, `cpu_idle` |
| timer, uptime (`kernel/timer`) | count, period, started | create, start, tick, count | callouts |
| time conversion (`mdx_cputime*.c`) | none | usec to ticks | callouts |
| allocator (`kernel/malloc`) | boundary tags, segregated free lists | malloc, free, realloc, calloc, add_region | threads, drivers |
| MQTT client (`lib/mqtt`) | list of requests, `msg_mtx`, `sem_send`, `next_id`, `connected` | connect, subscribe, publish, ping, disconnect, poll | threads, semaphore, mutex, a connection to a broker |
| ring buffer, mbufs, console (`kernel/systm`) | descriptors with an owner flag | init, join, head, submit | drivers |
| init, of, clock, net, drivers, other libraries | - | - | not modelled, see below |

What is hard here: the counter never stops, so every computation on it races
with time and with its wrap; callout functions run inside the loop that walks
the list they change; threads are handed from CPU to CPU by a handshake of
states (`SEM_WAIT`, `ACK`, `SEM_UNLOCK`, `SEM_UNLOCK_ACK`, `WAKEUP`) outside any
common lock; a post races a timeout; interrupts arrive between the change of a
state and the `ecall`, or between the test of a count and `cpu_idle`; spinlocks
are nested in both orders; CPUs wait for each other with interrupts disabled;
idle CPUs must be woken by IPI; the allocator merges and splits blocks in any
order; answers from the network are late, lost, or read by another thread. What
makes the components correct: callouts fire neither early nor late nor after a
cancel; the list and the flags agree; the timer is armed while anything is
pending; a thread is in one place; permits are conserved; freed threads are gone;
no assertion fails; no CPU spins for ever; the system never goes to rest on a
ready thread; timed waits end; a rendezvous meets and ends; the heap is tiled and its blocks
are apart; a result that a caller is told is true.

## Modules

| Module | Models | Builds on |
|---|---|---|
| `MdxCallout` | the callout queue of one CPU and its timer | - |
| `MdxNosched` | semaphore, sleep and uptime of the kernel without scheduler | `INSTANCE MdxCallout`; refines `SemSpec` |
| `MdxSched` | scheduler, exceptions, threads, sleep, semaphore, mutex | refines `SemSpec` |
| `MdxFifo` | the fifo | `EXTENDS MdxSched` |
| `MdxSmp` | IPIs, rendezvous, panic | refines `RendezvousSpec` |
| `MdxFreelist` | the allocator | refines `MallocSpec` |
| `MdxMqtt` | the MQTT client, a broker and the connection | - |
| `SemSpec`, `RendezvousSpec`, `MallocSpec` | what a semaphore, a rendezvous and a heap promise | - |
| `MC...` | instances for TLC | |
| `ListTheorems` | lemmas on sequences without repetition, least numbers and cardinalities | - |
| `MdxCalloutProofs`, `MdxSmpProofs`, `MdxMqttProofs`, `MdxSchedProofs`, `MdxFreelistProofs` | theorems about the module of that name | the module, and all but `MdxSmpProofs` on `ListTheorems` |
| `MdxFifoProofs` | theorems about the fifo | `MdxFifo`, `MdxSchedProofs` |
| `MdxNoschedProofs` | theorems about the kernel without scheduler | `MdxNosched`, `INSTANCE MdxCalloutProofs` |

### `MdxCallout`: the queue of one CPU and its timer

The variables are the fields of the code (`callouts_list`, `ticks`, the active
flag, `cstate`, `tmr_state`, `count_saved`), the registers of the device
(`count`, `compare`, `irq`), and the local variables and position of the code
that owns the queue (`pc`, `elapsed`, `c0`, `pos`, `cur`, `tmp`). A CPU is inside
the framework in a critical section or in the interrupt handler, so there is one
`pc`. Three variables are not in the code: `lag` bounds the ticks that may pass
while the interrupt is pending or masked, `left` remembers how much of the
interval asked for has not passed, and `pc` itself.

| Actions | Code |
|---|---|
| `mdx_callout_set_ticks`, `mdx_callout_set_zero`, `mdx_callout_set_ticks_locked` (through `set_begin`) | start of a set, by a thread or by a callout function |
| `set_one_skip`, `set_one_insert`, `set_one_start` | iterations and end of `mdx_callout_set_one` |
| `mdx_callout_cancel`, `func_cancel` (through `cancel_locked`) | cancel by a thread of this or another CPU, and by a function |
| `TimerIntr`, `callback_lock`, `callback_fire`, `func_return`, `callback_break`, `callback_restart` | `mdx_callout_callback` |
| `TimerTick` | the device |

Loops take one step per iteration, and the counter may advance between any two
steps. A cancel by another CPU may come between `get_elapsed` and `callout_lock`.
Devices differ in whether `start` drops a request that is already pending
(`mi_tmr_start` allows both). Calls to set a callout that is active return an
error and change nothing; they are not steps. A callout function performs at most
one operation on the queue.

### `MdxSched`: scheduler, exceptions, threads, sleep, semaphore and mutex

A CPU runs the code of its current thread (`hpc[c] = "none"`, the thread is at
label `tpc[t]`) or the exception handler (`hpc`: callback, sem_cb, park, next).
Code between `mdx_sched_lock` and `mdx_sched_unlock` is one step. The lock of the
semaphore is a variable; the lock of a callout queue is held exactly while its
CPU runs callbacks. `callouts` is the set of pending callouts (quantum, timeout
of a wait, sleep) with the CPU whose queue they are on: `MdxCallout` shows what
the queue does, here a pending callout may be due at any timer interrupt. `armed`
keeps the timer programmed after a cancel, so interrupts that find nothing due
occur. Interrupts are taken at the labels of `Interruptible` only, the others are
in critical sections. `stale` is the freed thread that `curthread` of a CPU still
points to: `mdx_sched_ack` frees a thread that has finished, and only a step later
does the CPU switch to its interrupt thread. The call of `free` itself is one step,
the `critical_exit` at its end included. `holding` and `issued` are history.

| Actions | Code |
|---|---|
| `exception` | `riscv_exception` up to the service of the interrupt, with `mdx_sched_cpu_avail` and `mdx_sched_ack` |
| `switch_intr_thread` | the switch to the interrupt thread after a thread was freed; for a thread that lives on, nothing looks at `curthread` in between, and it is part of `exception` |
| `callout_fire` (`mdx_sched_cb`, `mdx_tsleep_cb`), `mdx_sem_cb` | the callbacks |
| `mdx_sched_park`, `mdx_sched_next` | the rest of the handler |
| `wait_call`, `wait_lock`, `wait_block`, `wait_return`, `mutex_own` | `mdx_sem_timedwait`, `mdx_sem_wait`, the mutex locks |
| `mdx_sem_trywait` | `mdx_sem_trywait`, a failing one changes nothing |
| `post_call`, `post_lock`, `post_spin`, `post_cancel`, `post_add` | `mdx_sem_post`, `mdx_mutex_unlock` |
| `mdx_tsleep`, `mdx_thread_terminate`, `mdx_thread_yield`, `mdx_thread_create` | threads |

What threads do is the constant `Ops`; they unlock a mutex only while they hold
it, and end only when they hold nothing. The initial state is the one after
boot: every CPU is about to enter the scheduler from its idle thread, the
secondary ones are available in any order, and the main thread is on the run
queue, its IPI sent or not.

### `MdxNosched`: the kernel without scheduler

`MdxCallout` is instantiated as it is, with three callouts: `td_c` of the thread,
the one on the stack of `mdx_tsleep`, and the one of the uptime timer. The thread
takes a step only while the code of the queue is idle (there is one CPU), and an
interrupt is taken only where the thread is outside critical sections
(`Masked`). `cpu_idle` ends when an interrupt is pending, and `critical_exit`
then lets it in before the loop goes round. `wait_call`, `wait_take`, `wait_set`,
`wait_timeout`, `wait_idle` and `wait_again` are the parts of
`mdx_sem_timedwait`; `mdx_usleep` and `sleep_check` those of the sleep;
`mdx_sem_cb`, `mdx_tsleep_cb` and `mdx_timer_tick` the callout functions. A
device posts from its interrupt. `usec_to_ticks` is the fixed-point conversion
with the width of the word as a constant. `count_us`, in microseconds as in the
code, is `periods` times the period; a period lasts `usec_to_ticks` of it, which
cuts off the fraction. `behind` is history: the ticks since the timer was started,
less the ticks of a period for every call of `mdx_timer_tick`.

### `MdxFifo`: the fifo

The list and a label `fpc` per thread are added to `MdxSched`, whose actions do
the rest: `fifo_put` appends, `fifo_post` is the call of `mdx_sem_post`,
`mdx_fifo_get_wait` and `mdx_fifo_get` begin with `mdx_sem_wait` and
`mdx_sem_trywait`, and `fifo_remove` unlinks the first entry and uses up the
permit. Threads can be preempted, moved to another CPU or blocked between any
two of these.

### `MdxSmp`: IPIs, rendezvous and panic

A CPU runs thread code or is at a label inside `smp_rendezvous_cpus`,
`smp_rendezvous_action`, `send_ipi` or `ipi_handler`, with interrupts disabled;
each access to a shared word is a step. A CPU that does not get `smp_lock` calls
`ipi_handler`, and may so take part in the rendezvous it waits for.
`gathered`, `called` and `left` are history of the rendezvous in progress.

### `MdxFreelist`: the allocator

`mem` maps addresses to headers (size, size of the block before, allocated),
`nodelist` holds the sorted lists. Each call is one step, since it is a critical
section of one CPU. The operators are the pieces of the code: `size2i`,
`mdx_fl_add_node`, `FirstFit`, `Carve` (split), `Merge`; `mdx_fl_realloc` has one
action per branch. `asked` is history: the size each pointer in use was asked for.
A request that finds no block changes nothing and is no step.

### `MdxMqtt`: the MQTT client

`call` is the common beginning of the requests, `append` puts the request on
`msg_list`, `send_wait` and `net_write` are `mqtt_send`, `wait` one round of the
loop around `mdx_sem_timedwait`, `remove` takes the request off the list and
decides the result. Every thread polls: the receive thread for ever, the others
while they wait. No lock is held while a packet is read, and each read may wait for
the network, so `mqtt_poll` is `poll_control` (the control byte), `read_length` and
`read_body`, and another thread may read between any two of them. The stream from
the broker is therefore a sequence of parts (control byte, length, body); a read
that finds the part it is meant for yields its value, one that does not yields
any value that those bytes may have (`ControlRead`, `LengthRead`, any identifier for
a body). A read may also come back short, with the connection open or closed, and a
wrong length makes `mqtt_poll` report a disconnection (`Lose`). A body out of
place is exhausted by two reads; `Garbled` bounds the packets that stray bytes are
taken for. `handle` is the six handlers of answers, which differ in the states they
compare; `PubrelOwner` and `Unlocks` are where `handle_pubrec` keeps `msg_mtx` while
it sends PUBREL.

`net_write` passes the whole packet or a part of it, or fails, with the connection
open or closed: what was written stays on the wire as a packet that is cut.
`other_call` is a request of a thread that is not modelled: it only takes an
identifier, so that `next_id` wraps to one that is in use. `Broker`, `BrokerPublish`
and `Close` are the environment: requests are answered in order or not at all,
messages are published, and the connection may close at any time. A packet is a
type, an identifier and, when it is sent, the number of its request; `serial` and
`released` are history.

Operators called `..._keep`, `..._nocheck` and so on, commented "Mutant", are
plausible mistakes. They are used by no specification; each shows that a property
of a passing run would notice the mistake.

## Runs

Each run takes between a few seconds and a little over three minutes on two workers.

| Run | Instance | Shows |
|---|---|---|
| `callout_timing` | 2 callouts, counter 0..9, intervals 0, 1, 3 within a lap, latency 1 | `Prompt`, `TicksLeftHonest`, `NeverEarly`, `FiresOnlyPending`, `EventuallyFires` |
| `callout_functions` | 3 callouts, counter 0..4, functions set and cancel; 1.6 million states | `TypeOK`, `ListIntegrity`, `TimerArmed` |
| `nosched` | 3 callouts, counter 0..6, waits of 1 and 4, sleeps of 1 and 3, period 4, 2 ticks for 3 microseconds; 3.4 million | `NoDanglingCallout`, `NoLostWakeup`, `UptimeAheadByRounding`, `ConversionClose`, refinement `Semaphore` |
| `sched_mutex` | 2 CPUs, 2 preemptive threads, all operations of a mutex; 1.2 million | `OnePlace`, `NoPanic`, `PermitsConserved`, `NoSpinDeadlock`, refinement `Semaphore` |
| `sched_threads` | 2 CPUs, a preemptive and a cooperative thread of two priorities that sleep, yield, time out, end and are created; 1.7 million | `OnePlace`, `FreedIsGone`, `NoPanic`, `AvailHonest`, `NeverAllAtRest` |
| `fifo` | 2 CPUs, 3 threads, one of them preemptive, 2 entries; 2 million | `PermitMeansEntry`, `NoStrandedEntry` |
| `sched_live` | 1 CPU, 2 preemptive threads and a mutex | `TimedWaitEnds`, `ReadyRuns` |
| `smp` | 3 CPUs that call rendezvous and panic, one of them sends IPIs and is outside the mask; 144 thousand | `NoStrayTryst`, refinement `Rendezvous`, `RendezvousEnds`, `PanicStops` |
| `freelist` | regions of 44 and 17 units of 8 bytes next to each other, headers of 3, requests of 1, 4 and 9 | `Tiling`, `FreeListExact`, `FindsBestFit`, `NoLeakNoClobber`, refinement `Malloc` |
| `mqtt` | 2 callers and the receive thread, 2 requests of any kind or messages from the broker, 2 identifiers, one round of waiting each; 3 million | `NoDanglingRequest`, `ResultHonest`, `WireWhole`, `LockOrder`, and no deadlock |

The type invariant of a module is a conjunct of `NoDanglingCallout`, `OnePlace`,
`PermitMeansEntry`, `NoStrayTryst`, `Tiling` and `LockOrder`.

The bounds. Three callouts are the fewest for a middle node (a predecessor and a
successor) to be set, cancelled or fired; for the timing two are enough, since it
is about a callout and the one before it. The counter is small so that it wraps
several times between a set and the interrupt; the intervals make both orders of
deadlines and equal deadlines occur. `Latency` 1 lets a tick pass inside every
operation; it is the least value with which late interrupts, and programming the
timer late, happen. `LateCap` stops the history variable below the bound `Prompt`
speaks of, `DriftCap` the one of `UptimeAheadByRounding` above the period,
`MaxPeriods` the count after three periods. `LapSafe`
restricts callers to deadlines within a lap (what 32-bit timers meet in practice);
see the limits below. Two CPUs and two threads suffice for each race of the
handshake (a waiter, a poster, a timeout on a third party's CPU); the fifo has a
third thread, so that two consumers wait for one producer. `MaxIssued` bounds the
permits of a semaphore, `MaxCount` those that the device posts. The conversion is
checked for every frequency up to `MaxFreq`, four times `Million`, and every time
below `Word`. Three CPUs let one be outside a rendezvous while two wait for the lock. The second
region of the heap begins where the first one ends, so that a merge over the
border would be noticed; the requests split a block with and without a remainder
and fill it exactly. Two MQTT requests, or a request and a published message
(`MaxReq` bounds both together), are enough for an answer to come to the wrong one
and for a packet to be torn between three pollers; with `IdMod` 2 and `other_call`
both requests may have the same identifier. `Timeouts` 0 has each request poll once
before it gives up: a second round repeats the first. `Garbled` holds PUBCOMP, the
packet that would complete a message out of order. `sched_threads`, `fifo`, `smp` and
`freelist` do not check for deadlock: all threads may end or wait for what nobody
posts, all CPUs may stop in a panic, and a heap may be full.

Two runs end with a violation: each shows a disagreement between the code and
what its documentation says. `PROJECT.json` quotes the lines:

- `sleep_early`: the uptime timer, which sets its callout again in a late
  interrupt, makes the loop of `mdx_callout_callback` end a sleep or a timed wait
  too early;
- `sched_coop_deadlock`: two spinlocks taken in both orders when cooperative
  threads move between CPUs.

### Limits of the code that the passing runs stay within

Drop the bound and TLC finds the property violated:

- callouts: deadlines beyond the present lap of the counter are served a lap late
  (`LapSafe = FALSE`, `Prompt`); an interval longer than the counter may be
  postponed for ever (`EventuallyFires`); an interval so long that the elapsed
  ticks overflow `uint32_t` fires at once (`WordMax = MaxCnt`, `NeverEarly`); a
  callout set by the function of a late callout is charged with ticks that passed
  before (`RearmTicks`, `NeverEarly`); a callout cancelled by the function of the
  one before it is called all the same (`CbCancel`, `FiresOnlyPending`);
- scheduler: a timed wait of less than a tick has no timeout (`"shortwait"` in
  `Ops`, `TimedWaitEnds`); `mdx_thread_yield` of a preemptive thread leaves its
  quantum pending (`"yield_any"`, `NoPanic`).

Not stated as a property, but seen in the models:

- nosched: a callout queue that runs empty by a cancel keeps state running and an old
  `count_saved`, and a lap of the counter later a sleep may take a lap longer; the
  uptime is ahead whenever its period is not a whole number of ticks (in the run 4
  microseconds are counted for 2 ticks, which are 3), by less than two ticks for
  each period, although `Documentation/timer.md` promises the time passed;
  and lateness of a timer alone on its queue is lost each period, so that it may also
  fall behind without bound; the conversion may be a tick short;
- scheduler: with three CPUs or more an idle CPU is not always used.
  `mdx_sched_cpu_notify` wakes the head of `pcpu_list` and leaves it there, so two
  threads made ready in a row wake the same CPU, and the second thread waits for it
  while another CPU idles. What holds for any number of CPUs is `NeverAllAtRest`.
  And `mdx_sched_ack` frees the current thread of the CPU: `FreedIsGone` says that
  the CPU does nothing with it until the switch, but the `critical_exit` inside that
  call of `free` writes `td_critnest` of the freed thread (on ARM the trap handler
  does too, after `mdx_sched_ack`), which is harmless only as long as no other CPU
  has taken the block;
- rendezvous: the lock is not fair, so endless calls of `smp_rendezvous_cpus` may
  keep a panic waiting; a panic inside the function of a rendezvous waits for its
  own lock; the mask `0xff` of panic, counted over `MDX_CPU_MAX`, relies on every CPU
  of it being up, and the model has exactly the CPUs that are;
- allocator: `mdx_fl_add_region` does not check that a region holds the three headers
  it writes (`FreelistAssumption` says it does); on SMP, calls on two CPUs are not excluded; `mdx_fl_realloc` frees to
  the default zone, and copies as many bytes as the block with its header has;
  sizes near the width of the word overflow;
- timer: `mdx_timer_create` leaves `started` and `count_us` as they are in memory, and
  a 64-bit count may be read in two halves while the callback adds to it;
- MQTT: an `ok` does not show that the broker has completed the request. Identifiers
  are used again after 65536 requests, CONNACK and PINGRESP carry none, so that a
  late answer completes a later request, and the bytes of a torn packet may be
  taken for an answer. `ResultHonest` says what is left: the order of PUBREL and
  PUBCOMP, and that no answer is reported as a timeout. A broker that gets the next
  packet after a cut one would take it for the rest; the model has it understand
  nothing more. With preemptive threads `next_id++` may give an identifier twice.
  `mqtt_connect` returns an unset value for an unknown return code; the model
  returns a refusal, and no property depends on which.

Fairness. Callout: code inside the framework goes on (weak); time goes on, and a
pending interrupt is taken although callers enter critical sections again and
again, since each `critical_exit` lets it in (strong). Scheduler: the handler and
an operation that has begun go on; an interrupt that is raised is taken; a thread
reaches its `ecall` although interrupts come first; each pending callout is due
at some timer interrupt of its CPU; a CPU that spins on a lock gets it (strong,
an assumption on the hardware: the spinlock is a plain compare-and-set, which is
not fair by itself; on the one CPU of `sched_live` it is never contended).
Rendezvous: code with interrupts disabled goes on (weak), a raised software
interrupt is taken (strong, as above); nothing is assumed of `smp_lock`. Nothing
makes threads call anything: a thread may compute for ever.

## Proofs

`MdxCalloutProofs` proves properties of `MdxCallout` for every set of callouts,
every width of counter and word, every set of intervals and every latency, from
`CalloutAssumption` alone (`NULL` is neither a callout nor a count, the counter
fits the word, intervals of functions are not zero). TLC checked each statement, and the invariants, before it was proved.

- `QueueInvariant`: `QueueInv` is inductive. It is the conjunction of `TypeOK`,
  `ListIntegrity` and a shape that relates `pc`, the state of the timer, and the
  local variables to the list: the walk has not passed the end of the list, what
  it has not consumed fits, `cur` and `tmp` of the callback are on the list or
  `NULL`, or may have left it only through a function that cancels.
  `TypeCorrect` and `ListIntegrityHolds` follow: they cannot be proved alone, as
  the type of `ticks` depends on the walk and the walk on the flags.
- `TimerArmedHolds`: with the fact that outside the callback a non-empty list
  has state running and a programmed or pending interrupt, also in the steps
  of a set.
- `FiresOnlyPendingHolds`: `tmp` stays on the list while a function runs, if
  functions cancel nothing. The limits above show that the hypothesis is needed.
- `NeverEarlyHolds`: the deadline of the k-th callout is the sum of the ticks up
  to it. Instead of a sum, `EarlyInv` asserts the existence of a function `at`
  from callouts to such deadlines, increasing along the list with `ticks` as
  differences, and that `left` is at most `at` minus the ticks that `get_elapsed`
  has counted. A tick adds at most one to `get_elapsed` (`ElapsedStep`), so the
  code never believes more time to have passed than has. The hypotheses are that
  functions neither set nor cancel callouts and that elapsed plus interval does
  not overflow; `sleep_early` and the limits above show why.
- `TicksLeftHonestHolds`, under the same hypotheses. The loop of
  `mdx_callout_ticks` is a recursive function; that it is defined on the whole list
  is shown by taking the least length where it is not (`LeastNat`). In each
  iteration `val` minus the elapsed ticks not yet used up is `at` of the callout
  minus those that have passed, whether or not the elapsed ticks ended before it;
  so what is returned is not less than `at` minus the elapsed ticks, which
  `EarlyInv` bounds from below by the time left.
- `PromptHolds`: no pending callout is overdue by more than `MaxLate`, three times
  the latency and one tick. `PromptInv` bounds the same schedule from the other
  side, by three sources of lateness: the schedule itself slips by the ticks between
  `mdx_callout_set` and the start of the timer (at most `Latency`), and by one
  tick when the counter wraps, which `get_elapsed` does not count (`SlipOk`; it
  wraps once at most while a callout is pending); the compare register is aimed
  `Latency` too late at most (`AimOk`, `Gap`); and the interrupt waits for as long
  again (`LateOk`). Beside the
  hypotheses on functions it needs `LapSafe`, without which TLC finds a callout
  served a lap late, and `LateCap > MaxLate`, so that it is not the cap of the
  history variable that makes it hold.

`MdxNoschedProofs` instantiates `MdxCalloutProofs` for the three callouts of the
kernel without scheduler: every step of `MdxNosched` is a step of the queue or
leaves it alone, so the invariant of the queue is taken over. `NoschedAssumption`
says that the callouts are different, that the constants are numbers, and that the
ticks of the times that are asked for fit the word.

- `NoschedInvariant`: `NoschedInv` is inductive with the invariant of the queue.
  `CodeInv` says where the code of the queue has a callout at hand, and that it runs
  under a critical section of the thread only to set one; `WaitInv` that `td_c`
  belongs to the wait that set it, until the timeout has come or it is cancelled, and
  that the thread goes idle only when it has seen no permit and no timeout;
  `SleepInv` the same for a sleep. `NoDanglingCalloutHolds` and
  `NoLostWakeupHolds` follow, the latter with the fact that the timer of a queue
  that is not empty is armed.
- `SemaphoreHolds`: the code refines `SemSpec`.
- `ConversionCloseHolds`: `usec_to_ticks` is the exact quotient or one tick less, for
  every frequency (`MaxFreq` is any number), every fixed point and every time below it.
- `UptimeAheadByRoundingHolds`: here a callout function, `mdx_timer_tick`, does set a callout
  inside the loop, and `NeverEarly` fails for the sleeps and waits that share the queue;
  but the timer itself is never early. `UptimeInv` has again a schedule `at`, with
  the sums of the ticks, and `Charge`: the elapsed ticks that the loop of
  `mdx_callout_callback` will still take off from the first callout on, unless the
  timer has been put before the place that the loop has reached, which is the only
  way in which a callout escapes it. `Due` says that `behind` is at
  least the period, minus the ticks to the end of it. So `mdx_timer_tick` runs at
  most once in the ticks of a period, and `ConversionBound` says how much longer
  than those the microseconds are that it adds. The hypothesis is that the
  history variable is not capped below a period and two laps (`DriftCap`). The run
  has a lower cap to be small; with `DriftCap = 14`, which satisfies the
  hypothesis, TLC finds no violation either (10.9 million states).

`MdxSmpProofs` proves, for every finite set of CPUs and all masks that are not
empty (`SmpAssumption`):

- `SmpInvariant`: `SmpInv` is inductive. `LockInv` says by its place in the code
  which CPU holds `smp_lock`; `RoomInv` that the two counters of the room count
  the CPUs that have come and left, and that the function is called by nobody
  before all are there; `PlaceInv` where each CPU of the rendezvous is, and that
  `IPI_TRYST` is in at most one place on its way to the action; `ToldInv` that the
  CPUs still in the loop of `send_ipi` have not been told. The last two are
  needed because the handler serves `IPI_IPI` and `IPI_TRYST` from one word, also
  while its CPU waits for the lock, so that a CPU might come twice.
- `NoStrayTrystHolds` follows at once.
- `RendezvousHolds`: the code refines `RendezvousSpec`. `rendezvous_open` maps to
  `Begin`, the three steps of the action to `Enter`, `Call` and `Leave`,
  `rendezvous_wait` to `End`, all other steps to stuttering. A counter that has
  reached the size of the mask means that all of the mask have come, since what it
  counts is a subset of the mask (`CardCPUs`).

`MdxSchedProofs` proves, for every finite set of CPUs and of threads, every
number of priorities, every mix of preemptive and cooperative threads, and every
initial count (`SchedAssumption`), with all operations except the yield of a preemptive
thread (`"yield_any" \notin Ops`; the limits above show why):

- `SchedInvariant`: `SchedInv` is inductive, the conjunction of `LocInv`, where
  threads are, `PermitInv`, what the semaphore counts, and `StaleInv`, see below. `LocInv` relates the
  label of a thread, `td_state`, the lists and callouts it is on, and the
  position of the handler of its CPU. `Waiting`, `Claiming` and `Locking` are the
  handshake: which states a waiter may have while it is on the list of the
  semaphore, after a poster or its timeout has taken it off, and while the lock is
  held. `Pending` says which callouts a thread has in each place, `Located` on
  which CPU. None of these parts is inductive alone: that a post finds the
  timeout of its target where it cancels it depends on where the target can be,
  that on who may wake it, and that again on the callout.
- `OnePlaceHolds`, `NoPanicHolds`, `PermitsConservedHolds`,
  `AvailHonestHolds` follow. `NoPanic` contains that a CPU in `mdx_sched_next`
  finds the run queue not empty: there are as many idle threads as CPUs, the CPU
  runs none of them and each other CPU at most one, so one is ready.
- `NoSpinDeadlockHolds` needs that all threads are preemptive, which keeps
  `td_c_cpu` the CPU that the thread runs on; `sched_coop_deadlock` shows the
  deadlock without this.
- `FreedIsGoneHolds` rests on `StaleInv`: a CPU whose `curthread` is stale has no
  current thread of its own and has not begun to serve an interrupt.
- `NeverAllAtRestHolds`, for any number of CPUs. `RestInv`: when a thread is on the run
  queue, some CPU is not at rest. A CPU that makes a thread ready runs a thread or its
  handler, and it comes to rest only when `mdx_sched_next` has found nothing but idle
  threads; `NoPanic` and the order of priorities are what that needs.
- `SemaphoreHolds`: the code refines `SemSpec` when it is a mutex: in `SemSpec` a
  process has a permit or has none, and only the threads of a mutex never have two.

`MdxFifoProofs` proves `FifoInvariant`, `PermitMeansEntryHolds` and
`NoStrandedEntryHolds` for every number of CPUs, threads and entries. `FifoInv`
takes `LocInv` and `PermitInv` over, and adds what a thread may be doing in each
half of `put` and `get`, that no permit is in the count while a thread waits, and
that there are as many entries as permits and threads between `put` and `post`. `fifo_remove` is no step of
`MdxSched`, it takes a permit out of circulation, so that its invariance is proved
separately. A fifo begins empty (`FifoAssumption`).

`MdxFreelistProofs` proves, for all sizes of header and alignment, every number
of lists, all regions that are apart and all requests (`FreelistAssumption`):

- `HeapInvariant`: `HeapInv` is inductive. `Sound` says that headers are inside
  the regions and apart, each region has its first and last header, and the next
  and the previous header of each block exist and agree; `Coalesced` that free
  blocks are not neighbours; `Lists` that each free block is once on the list of
  its size, sorted; `Asked` that blocks in use are large enough. `mdx_fl_free`
  passes through heaps in which one free block is on no list yet and may have free
  neighbours: the lemmas on `Merge` and `mdx_fl_add_node` are stated for these.
  A block that is recarved by `mdx_fl_realloc` is shown to be the result of a merge
  and a split, so the lemmas serve for it too.
- `TilingHolds`, `FreeListExactHolds`, `FindsBestFitHolds`, `NoLeakNoClobberHolds`
  follow. Best fit rests on the lists being by size: no block in a list below the
  first one searched is large enough, none in a later list is smaller than one in
  an earlier list, and within a list the first that fits is the smallest.
- `MallocHolds`: the code refines `MallocSpec`. The block a reallocation moves to is
  apart from the old one, since both are in use at the point where the bytes
  are copied.

`MdxMqttProofs` proves, for every number of threads, requests and messages:

- `MqttInvariant`: `MqttInv` is inductive. `Places` says what a caller has at each
  label, `Locks` who holds `msg_mtx` and `sem_send` there, `Listed` that the list
  holds the requests whose callers are between `append` and `remove`, `Outcomes`
  how the state of a request has come about, `Wire` that a packet in two
  parts belongs to the holder of `sem_send`, `Released` that a message which has its
  PUBREC is either one whose PUBREL a holder of `msg_mtx` is about to send, or one for
  which that has ended. `LocksOrdered`, `RequestsDoNotDangle` and
  `PacketsStayWhole` follow.
- `ResultsAreHonest`, from `Released` and `Outcomes`: `handle_pubcomp` needs
  `msg_mtx`, so it finds a message in state PUBREC only when `handle_pubrec` has
  unlocked. It has no hypothesis: identifiers may be used again, and what is
  read may be anything.

`ListTheorems` has the facts the proofs share: what removal and insertion do to
the elements, the order and the repetitions of a list. Where a proof takes the
first position of a list with some property, it cites `LeastNat`, which is
obtained from well-foundedness, as induction over data is out of the prover's reach.

Only model-checked is liveness (`EventuallyFires`, `TimedWaitEnds`, `ReadyRuns`,
`RendezvousEnds`, `PanicStops`): fairness and `ENABLED` are out of the prover's
reach. All other properties of the passing runs are proved, those named above
with a hypothesis under it: `PromptHolds`, `NeverEarlyHolds`,
`TicksLeftHonestHolds`, `FiresOnlyPendingHolds`, `UptimeAheadByRoundingHolds`,
`NoSpinDeadlockHolds`, the theorems on the scheduler
(`"yield_any"`) and `SemaphoreHolds` of it (a mutex).

## Not modelled

Boot, the device framework, the device tree, clocks and the console run once or
only dispatch; drivers are register access; the network stack is unfinished; the
other libraries are vendored; ARM and MIPS provide the same hooks as RISC-V. The ring buffer
between two systems depends on their memory models. In the modelled parts:
floating-point state, fatal exceptions, device interrupts of the SMP kernel,
memory ordering (atomic operations and spinlocks are taken as sequentially
consistent), failing allocations, callout functions that post semaphores on SMP,
timers other than the uptime, the contents of memory blocks and of MQTT packets,
MQTT messages received with qos 2 (which the client does not support), and a
reconnection after the connection has closed.

## Open ends

The models do not have callout functions that post on SMP, two CPUs inside the
allocator, the ring buffer under a relaxed memory model, and the reconnection of
the MQTT client. Of a corrected `mdx_sched_cpu_notify` it could be proved that no CPU
idles beside a ready thread, and `NeverEarly` of a corrected `mdx_callout_callback`
without its hypotheses.
