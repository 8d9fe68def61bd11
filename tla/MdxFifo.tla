------------------------------ MODULE MdxFifo -------------------------------
(***************************************************************************)
(* The fifo between threads (kernel/sched/mdx_fifo.c): a list under a      *)
(* spinlock and a semaphore that counts its entries.  The semaphore is the *)
(* one of MdxSched, with its scheduler, and the threads of MdxSched put    *)
(* and get entries.                                                        *)
(*                                                                         *)
(* The code between critical_enter, sl_lock(&f->l) and sl_unlock,          *)
(* critical_exit is one step.                                              *)
(***************************************************************************)
EXTENDS MdxSched

CONSTANT Entries   \* the struct entry objects that are put and got

\* mdx_fifo_init makes a semaphore without permits; it is not a mutex.
ASSUME FifoAssumption == InitCount = 0 /\ ~Mutex

VARIABLES
  list,   \* f->list
  fpc     \* what thread t does: "put" between append and mdx_sem_post,
          \* "get" from the semaphore to the removal, "out" otherwise

fifoVars == <<list, fpc>>
allVars == <<vars, fifoVars>>

\* mdx_fifo_init: an empty list and a semaphore without permits.
FifoInit ==
  /\ Init
  /\ list = <<>>
  /\ fpc = [t \in Threads |-> "out"]

Step(t, from, to) == fpc[t] = from /\ fpc' = [fpc EXCEPT ![t] = to]

\* A caller puts an entry that is not in the fifo.
fifo_put(c, t, e) ==
  /\ At(c, t, "user")
  /\ Step(t, "out", "put")
  /\ \A i \in DOMAIN list : list[i] # e
  /\ list' = Append(list, e)
  /\ UNCHANGED vars

\* The call of mdx_sem_post in mdx_fifo_put.
fifo_post(c, t) ==
  /\ Step(t, "put", "out")
  /\ post_call(c, t)
  /\ UNCHANGED list

\* mdx_fifo_get_wait calls mdx_sem_wait.
mdx_fifo_get_wait(c, t) ==
  /\ Step(t, "out", "get")
  /\ wait_call(c, t) /\ usec'[t] = "wait"
  /\ UNCHANGED list

\* Mutant: mdx_fifo_get does not look at the result of mdx_sem_trywait.
mdx_fifo_get_blind(c, t) ==
  /\ At(c, t, "user")
  /\ Step(t, "out", "get")
  /\ UNCHANGED <<vars, list>>

\* mdx_fifo_get calls mdx_sem_trywait; it returns NULL if that fails.
mdx_fifo_get(c, t) ==
  /\ Step(t, "out", "get")
  /\ mdx_sem_trywait(c, t)
  /\ UNCHANGED list

\* With the permit, the first entry is taken off the list.
fifo_remove(c, t) ==
  /\ At(c, t, "user")
  /\ Step(t, "get", "out")
  /\ list # <<>>
  /\ list' = Tail(list)
  /\ holding' = [holding EXCEPT ![t] = @ - 1]
  /\ issued' = issued - 1
  /\ UNCHANGED <<schedVars, threadVars, cpuVars, tpc, calloutVars, semVars,
                 localVars, m_td>>

\* The other steps of MdxSched; threads are created but call nothing else.
SchedStep ==
  /\ \/ \E c \in CPUs, why \in {"ecall", "timer", "ipi"} : exception(c, why)
     \/ \E c \in CPUs : HandlerStep(c)
     \/ \E c \in CPUs, t \in Threads : OpStep(c, t)
     \/ \E c \in CPUs, t, n \in Threads : mdx_thread_create(c, t, n)
  /\ UNCHANGED fifoVars

FifoNext ==
  \/ SchedStep
  \/ \E c \in CPUs, t \in Threads :
       \/ \E e \in Entries : fifo_put(c, t, e)
       \/ fifo_post(c, t) \/ fifo_remove(c, t)
       \/ mdx_fifo_get_wait(c, t) \/ mdx_fifo_get(c, t)

FifoSpec == FifoInit /\ [][FifoNext]_allVars

-----------------------------------------------------------------------------
(***************************************************************************)
(* Properties.                                                             *)
(***************************************************************************)

\* Every variable has its type; an entry is on the list once.
FifoTypeOK ==
  /\ TypeOK
  /\ list \in Seq(Entries)
  /\ \A i, j \in DOMAIN list : list[i] = list[j] => i = j
  /\ fpc \in [Threads -> {"out", "put", "get"}]

\* With the types: every entry has its permit, or a mdx_fifo_put that is about
\* to give it, and so a thread that has got a permit finds an entry, whatever
\* the order in which producers and consumers are preempted.  mdx_fifo_get and
\* mdx_fifo_get_wait do not look whether the list is empty before they unlink
\* its first entry.
PermitMeansEntry ==
  /\ FifoTypeOK
  /\ Len(list) = issued + Cardinality({t \in Threads : fpc[t] = "put"})
  /\ \A t \in Threads : fpc[t] = "get" /\ tpc[t] = "user" => list # <<>>

\* No entry waits for a consumer that waits for an entry: while a thread is
\* blocked, every entry is on its way to another one.
NoStrandedEntry ==
  LET giving == {t \in Threads : fpc[t] = "put" \/ tpc[t] = "post_lock"}
      taking == {t \in Threads : /\ fpc[t] = "get"
                                 /\ Occurrences(td_list, t) = 0
                                 /\ tpc[t] \notin {"wait_lock", "wait_block"}}
  IN  sem_lock = NULL /\ td_list # <<>> =>
        Len(list) <= Cardinality(giving) + Cardinality(taking)
=============================================================================
