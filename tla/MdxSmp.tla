------------------------------- MODULE MdxSmp -------------------------------
(***************************************************************************)
(* Inter-processor interrupts and the rendezvous of CPUs                   *)
(* (kernel/sched/mdx_smp.c, arch/riscv/riscv/clint_intr.c), with panic     *)
(* (kernel/systm/mdx_panic.c), which stops the system by a rendezvous.     *)
(*                                                                         *)
(* A CPU runs thread code ("run"), where an interrupt may be late because  *)
(* of a critical section; everything else here runs with interrupts        *)
(* disabled.  Each access to a shared word is a step of its own.           *)
(***************************************************************************)
EXTENDS Naturals, FiniteSets

CONSTANTS
  CPUs,        \* the harts
  NULL,
  Masks,       \* the sets of CPUs that threads ask for
  Notifiers    \* the CPUs whose scheduler sends IPI_IPI as well

ASSUME SmpAssumption ==
  /\ IsFiniteSet(CPUs)
  /\ NULL \notin CPUs
  /\ Masks \subseteq SUBSET CPUs /\ {} \notin Masks
  /\ Notifiers \subseteq CPUs

VARIABLES
  pc,            \* where CPU c is
  hret,          \* where ipi_handler returns to; "self" in the caller's own action
  mask, fn,      \* arguments of smp_rendezvous_cpus called by CPU c
  tosend, ipi,   \* CPUs left in the loop of send_ipi, and what it sends
  bitmap,        \* local variable ipi_bitmap of ipi_handler
  pending_ipis,  \* pc_pending_ipis of CPU c
  msip,          \* CPUs whose software interrupt is raised
  smp_lock,      \* holder of smp_lock
  func,          \* smp_rendezvous_func
  ncpus,         \* smp_rendezvous_ncpus
  room,          \* smp_rendezvous_room
  gathered, called, left  \* history of the rendezvous in progress

localVars == <<hret, mask, fn, tosend, ipi, bitmap>>
roomVars == <<func, ncpus, room>>
history == <<gathered, called, left>>
vars == <<pc, localVars, pending_ipis, msip, smp_lock, roomVars, history>>

Goto(c, l) == pc' = [pc EXCEPT ![c] = l]

Init ==
  /\ pc = [c \in CPUs |-> "run"]
  /\ hret = [c \in CPUs |-> "run"]
  /\ mask = [c \in CPUs |-> {}]
  /\ fn = [c \in CPUs |-> "func"]
  /\ tosend = [c \in CPUs |-> {}]
  /\ ipi = [c \in CPUs |-> "IPI_IPI"]
  /\ bitmap = [c \in CPUs |-> {}]
  /\ pending_ipis = [c \in CPUs |-> {}]
  /\ msip = {}
  /\ smp_lock = NULL
  /\ func = "func"
  /\ ncpus = 0
  /\ room = <<0, 0>>
  /\ gathered = {} /\ called = {} /\ left = {}

-----------------------------------------------------------------------------
(***************************************************************************)
(* Thread code.                                                            *)
(***************************************************************************)
\* A thread enters a critical section and calls smp_rendezvous_cpus.
smp_rendezvous_cpus(c, S) ==
  /\ pc[c] = "run"
  /\ mask' = [mask EXCEPT ![c] = S]
  /\ fn' = [fn EXCEPT ![c] = "func"]
  /\ Goto(c, "try")
  /\ UNCHANGED <<hret, tosend, ipi, bitmap, pending_ipis, msip, smp_lock,
                 roomVars, history>>

\* panic: all the CPUs are to meet in panic_stop.
panic(c) ==
  /\ pc[c] = "run"
  /\ mask' = [mask EXCEPT ![c] = CPUs]
  /\ fn' = [fn EXCEPT ![c] = "panic_stop"]
  /\ Goto(c, "try")
  /\ UNCHANGED <<hret, tosend, ipi, bitmap, pending_ipis, msip, smp_lock,
                 roomVars, history>>

\* mdx_sched_cpu_notify: the scheduler wakes another CPU.
mdx_sched_cpu_notify(c, d) ==
  /\ c \in Notifiers /\ pc[c] = "run" /\ d # c
  /\ tosend' = [tosend EXCEPT ![c] = {d}]
  /\ ipi' = [ipi EXCEPT ![c] = "IPI_IPI"]
  /\ Goto(c, "send")
  /\ UNCHANGED <<hret, mask, fn, bitmap, pending_ipis, msip, smp_lock,
                 roomVars, history>>

-----------------------------------------------------------------------------
(***************************************************************************)
(* smp_rendezvous_cpus.                                                    *)
(***************************************************************************)
\* Mutant: a CPU that waits for the lock does not serve IPIs meanwhile.
sl_trylock_spin(c) ==
  /\ pc[c] = "try"
  /\ smp_lock = NULL
  /\ smp_lock' = c
  /\ Goto(c, "setup")
  /\ UNCHANGED <<localVars, pending_ipis, msip, roomVars, history>>

\* One round of the loop: take the lock, or serve IPIs and try again.
sl_trylock(c) ==
  /\ pc[c] = "try"
  /\ \/ /\ smp_lock = NULL
        /\ smp_lock' = c
        /\ Goto(c, "setup")
        /\ UNCHANGED hret
     \/ /\ smp_lock # NULL
        /\ hret' = [hret EXCEPT ![c] = "try"]
        /\ Goto(c, "ipi")
        /\ UNCHANGED smp_lock
  /\ UNCHANGED <<mask, fn, tosend, ipi, bitmap, pending_ipis, msip, roomVars,
                 history>>

rendezvous_setup(c) ==
  /\ pc[c] = "setup"
  /\ func' = fn[c]
  /\ ncpus' = Cardinality(mask[c])
  /\ room' = [room EXCEPT ![2] = 0]
  /\ Goto(c, "open")
  /\ UNCHANGED <<localVars, pending_ipis, msip, smp_lock, history>>

rendezvous_open(c) ==
  /\ pc[c] = "open"
  /\ room' = [room EXCEPT ![1] = 0]
  /\ tosend' = [tosend EXCEPT ![c] = mask[c] \ {c}]
  /\ ipi' = [ipi EXCEPT ![c] = "IPI_TRYST"]
  /\ Goto(c, "send")
  /\ UNCHANGED <<hret, mask, fn, bitmap, pending_ipis, msip, smp_lock, func,
                 ncpus, history>>

\* The CPU that the loop of send_ipi over pcpu_all serves next.
NextTarget(c) == CHOOSE d \in tosend[c] : TRUE

\* send_ipi: the bit is set, then the interrupt raised, for one CPU of the
\* mask after the other.
send_ipi(c) ==
  /\ pc[c] = "send"
  /\ tosend[c] # {}
  /\ pending_ipis' = [pending_ipis EXCEPT ![NextTarget(c)] = @ \cup {ipi[c]}]
  /\ Goto(c, "sip")
  /\ UNCHANGED <<localVars, msip, smp_lock, roomVars, history>>

clint_set_sip(c) ==
  /\ pc[c] = "sip"
  /\ msip' = msip \cup {NextTarget(c)}
  /\ tosend' = [tosend EXCEPT ![c] = @ \ {NextTarget(c)}]
  /\ Goto(c, "send")
  /\ UNCHANGED <<hret, mask, fn, ipi, bitmap, pending_ipis, smp_lock, roomVars,
                 history>>

\* All are told; the caller takes part itself if it is in the mask.
send_ipi_done(c) ==
  /\ pc[c] = "send"
  /\ tosend[c] = {}
  /\ \/ ipi[c] = "IPI_IPI" /\ Goto(c, "run") /\ UNCHANGED hret
     \/ /\ ipi[c] = "IPI_TRYST" /\ c \in mask[c]
        /\ hret' = [hret EXCEPT ![c] = "self"]
        /\ Goto(c, "enter")
     \/ /\ ipi[c] = "IPI_TRYST" /\ c \notin mask[c]
        /\ Goto(c, "wait")
        /\ UNCHANGED hret
  /\ ipi' = [ipi EXCEPT ![c] = "IPI_IPI"]
  /\ UNCHANGED <<mask, fn, tosend, bitmap, pending_ipis, msip, smp_lock,
                 roomVars, history>>

\* The arguments and the history of the rendezvous are gone with it.
RendezvousReturn(c) ==
  /\ mask' = [mask EXCEPT ![c] = {}]
  /\ hret' = [hret EXCEPT ![c] = "run"]
  /\ gathered' = {} /\ called' = {} /\ left' = {}
  /\ Goto(c, "run")
  /\ UNCHANGED <<fn, tosend, ipi, bitmap, pending_ipis, msip, roomVars>>

\* Mutant: the caller goes on when all have entered, not when all have left.
rendezvous_wait_room(c) ==
  /\ pc[c] = "wait"
  /\ room[1] >= Cardinality(mask[c])
  /\ smp_lock' = NULL
  /\ RendezvousReturn(c)

\* Wait until all have left the room; then sl_unlock and return.
rendezvous_wait(c) ==
  /\ pc[c] = "wait"
  /\ room[2] >= Cardinality(mask[c])
  /\ smp_lock' = NULL
  /\ RendezvousReturn(c)

-----------------------------------------------------------------------------
(***************************************************************************)
(* smp_rendezvous_action.                                                  *)
(***************************************************************************)
action_enter(c) ==
  /\ pc[c] = "enter"
  /\ room' = [room EXCEPT ![1] = @ + 1]
  /\ gathered' = gathered \cup {c}
  /\ Goto(c, "gather")
  /\ UNCHANGED <<localVars, pending_ipis, msip, smp_lock, func, ncpus, called,
                 left>>

\* All are in the room: the function is called.  panic_stop never returns.
action_call(c) ==
  /\ pc[c] = "gather"
  /\ room[1] >= ncpus
  /\ called' = called \cup {c}
  /\ Goto(c, IF func = "panic_stop" THEN "stop" ELSE "leave")
  /\ UNCHANGED <<localVars, pending_ipis, msip, smp_lock, roomVars, gathered,
                 left>>

action_leave(c) ==
  /\ pc[c] = "leave"
  /\ room' = [room EXCEPT ![2] = @ + 1]
  /\ left' = left \cup {c}
  /\ Goto(c, IF hret[c] = "self" THEN "wait" ELSE "bits")
  /\ UNCHANGED <<localVars, pending_ipis, msip, smp_lock, func, ncpus,
                 gathered, called>>

-----------------------------------------------------------------------------
(***************************************************************************)
(* The software interrupt and ipi_handler.                                 *)
(***************************************************************************)
clint_intr_software(c) ==
  /\ pc[c] = "run"
  /\ c \in msip
  /\ msip' = msip \ {c}
  /\ hret' = [hret EXCEPT ![c] = "run"]
  /\ Goto(c, "ipi")
  /\ UNCHANGED <<mask, fn, tosend, ipi, bitmap, pending_ipis, smp_lock,
                 roomVars, history>>

\* Mutant: the bits are read, and cleared when they have been handled.
ipi_handler_late(c) ==
  /\ pc[c] = "ipi"
  /\ bitmap' = [bitmap EXCEPT ![c] = pending_ipis[c]]
  /\ Goto(c, "bits")
  /\ UNCHANGED <<hret, mask, fn, tosend, ipi, pending_ipis, msip, smp_lock,
                 roomVars, history>>

\* atomic_readandclear_int of the pending bits.
ipi_handler(c) ==
  /\ pc[c] = "ipi"
  /\ bitmap' = [bitmap EXCEPT ![c] = pending_ipis[c]]
  /\ pending_ipis' = [pending_ipis EXCEPT ![c] = {}]
  /\ Goto(c, "bits")
  /\ UNCHANGED <<hret, mask, fn, tosend, ipi, msip, smp_lock, roomVars, history>>

\* The loop over the bits, lowest first; IPI_IPI needs no action here.
ipi_bits(c) ==
  /\ pc[c] = "bits"
  /\ \/ /\ "IPI_IPI" \in bitmap[c]
        /\ bitmap' = [bitmap EXCEPT ![c] = @ \ {"IPI_IPI"}]
        /\ UNCHANGED pc
     \/ /\ bitmap[c] = {"IPI_TRYST"}
        /\ bitmap' = [bitmap EXCEPT ![c] = {}]
        /\ Goto(c, "enter")
     \/ /\ bitmap[c] = {}
        /\ Goto(c, hret[c])
        /\ UNCHANGED bitmap
  /\ hret' = IF pc'[c] = "try" THEN [hret EXCEPT ![c] = "run"] ELSE hret
  /\ UNCHANGED <<mask, fn, tosend, ipi, pending_ipis, msip, smp_lock,
                 roomVars, history>>

CodeStep(c) ==
  \/ sl_trylock(c) \/ rendezvous_setup(c) \/ rendezvous_open(c)
  \/ send_ipi(c) \/ clint_set_sip(c) \/ send_ipi_done(c) \/ rendezvous_wait(c)
  \/ action_enter(c) \/ action_call(c) \/ action_leave(c)
  \/ ipi_handler(c) \/ ipi_bits(c)

Next ==
  \E c \in CPUs :
    \/ panic(c) \/ clint_intr_software(c)
    \/ \E S \in Masks : smp_rendezvous_cpus(c, S)
    \/ \E d \in CPUs : mdx_sched_cpu_notify(c, d)
    \/ CodeStep(c)

(***************************************************************************)
(* Code inside these functions goes on.  An interrupt that is raised is    *)
(* taken when a critical section ends, although the thread may enter the   *)
(* next one at once (strong fairness).  The lock is not fair: a CPU may    *)
(* try it for ever while others take it in turn.                           *)
(***************************************************************************)
Fairness ==
  \A c \in CPUs :
    /\ WF_vars(CodeStep(c))
    /\ SF_vars(clint_intr_software(c))

Spec == Init /\ [][Next]_vars
FairSpec == Spec /\ Fairness

-----------------------------------------------------------------------------
(***************************************************************************)
(* Properties.                                                             *)
(***************************************************************************)
Labels == {"run", "try", "setup", "open", "send", "sip", "wait",
           "enter", "gather", "leave", "stop", "ipi", "bits"}
IPIs == {"IPI_IPI", "IPI_TRYST"}

\* Every variable has its type; the counters of the rooms never pass the
\* number of CPUs.
TypeOK ==
  /\ pc \in [CPUs -> Labels]
  /\ hret \in [CPUs -> {"run", "try", "self"}]
  /\ mask \in [CPUs -> SUBSET CPUs]
  /\ fn \in [CPUs -> {"func", "panic_stop"}]
  /\ tosend \in [CPUs -> SUBSET CPUs]
  /\ ipi \in [CPUs -> IPIs]
  /\ bitmap \in [CPUs -> SUBSET IPIs]
  /\ pending_ipis \in [CPUs -> SUBSET IPIs]
  /\ msip \subseteq CPUs
  /\ smp_lock \in CPUs \cup {NULL}
  /\ func \in {"func", "panic_stop"}
  /\ ncpus \in 0 .. Cardinality(CPUs)
  /\ room \in [1 .. 2 -> 0 .. Cardinality(CPUs)]
  /\ gathered \subseteq CPUs /\ called \subseteq CPUs /\ left \subseteq CPUs

\* The holder of smp_lock has opened the room and has not unlocked yet.
Open == smp_lock # NULL /\ pc[smp_lock] \notin {"setup", "open"}
Invited == IF Open THEN mask[smp_lock] ELSE {}

\* A rendezvous keeps its promise (RendezvousSpec): all CPUs of the mask call
\* the function, each once, none before all have gathered, and
\* smp_rendezvous_cpus returns after the last of them, also when several CPUs
\* call it at once and wait for each other.
Abstract == INSTANCE RendezvousSpec WITH
  invited <- Invited, gathered <- gathered, called <- called, left <- left
Rendezvous == Abstract!Spec

\* With the types: a CPU that has been told to meet is one the rendezvous in
\* progress waits for.  IPI_TRYST is never left over for the next rendezvous,
\* which would count a CPU that came for the last one.
NoStrayTryst ==
  /\ TypeOK
  /\ \A c \in CPUs :
       "IPI_TRYST" \in pending_ipis[c] \cup bitmap[c] \/ pc[c] = "enter" =>
         c \in Invited \ gathered

\* A rendezvous that has begun ends, or the system has stopped: CPUs that wait
\* with interrupts disabled, for the lock or in the room, never wait for each
\* other for ever.
RendezvousEnds ==
  smp_lock # NULL ~> smp_lock = NULL \/ \A c \in CPUs : pc[c] = "stop"

\* panic stops all the CPUs, whatever they are doing: no CPU runs thread code
\* any more.  The lock is not fair, so this needs that the threads do not call
\* smp_rendezvous_cpus for ever.
PanicStops ==
  <>[](\A c \in CPUs : pc[c] = "try" => fn[c] = "panic_stop") =>
    (\E c \in CPUs : fn[c] = "panic_stop") ~> [](\A c \in CPUs : pc[c] = "stop")
=============================================================================
