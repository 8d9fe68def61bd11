---------------------------- MODULE MdxSmpProofs ----------------------------
(***************************************************************************)
(* Proofs about the rendezvous, for every set of CPUs and every mask: the  *)
(* code implements RendezvousSpec, and no IPI_TRYST is left over.          *)
(*                                                                         *)
(* SmpInv is inductive.  It says who holds smp_lock (LockInv), that the    *)
(* counters of the room count the CPUs that came and left (RoomInv), where *)
(* each of these CPUs is in the code (PlaceInv), and that send_ipi has not *)
(* told a CPU that is still in its loop (ToldInv).                         *)
(***************************************************************************)
EXTENDS MdxSmp, FiniteSetTheorems, TLAPS

\* CPU c is on its way into the room.
Told(c) ==
  \/ "IPI_TRYST" \in pending_ipis[c] \/ "IPI_TRYST" \in bitmap[c]
  \/ pc[c] = "enter"

\* The holder of smp_lock is the CPU inside smp_rendezvous_cpus past
\* sl_trylock, at a label of its own, in send_ipi or in its own action.
LockInv ==
  \A c \in CPUs :
    /\ smp_lock = c <=> \/ pc[c] \in {"setup", "open", "wait"}
                        \/ ipi[c] = "IPI_TRYST"
                        \/ hret[c] = "self"
    /\ ipi[c] = "IPI_TRYST" => pc[c] \in {"send", "sip"} /\ hret[c] # "self"
    /\ hret[c] = "self" =>
         pc[c] \in {"enter", "gather", "leave", "stop", "wait"}
    /\ hret[c] = "try" =>
         pc[c] \in {"ipi", "bits", "enter", "gather", "leave", "stop"}
    /\ pc[c] = "try" \/ hret[c] = "try" \/ smp_lock = c => mask[c] # {}

\* The counters of the room.
RoomInv ==
  /\ left \subseteq called /\ called \subseteq gathered
  /\ gathered \subseteq Invited
  /\ called # {} => gathered = Invited
  /\ Open => /\ room[1] = Cardinality(gathered)
             /\ room[2] = Cardinality(left)
             /\ ncpus = Cardinality(mask[smp_lock])
  /\ smp_lock # NULL /\ pc[smp_lock] = "open" =>
       room[2] = 0 /\ ncpus = Cardinality(mask[smp_lock])

\* Where the CPUs of the rendezvous are, and that IPI_TRYST reaches each once.
PlaceInv ==
  \A c \in CPUs :
    /\ pc[c] = "gather" <=> c \in gathered \ called
    /\ pc[c] \in {"leave", "stop"} <=> c \in called \ left
    /\ Told(c) => c \in Invited \ gathered
    /\ "IPI_TRYST" \in pending_ipis[c] =>
         "IPI_TRYST" \notin bitmap[c] /\ pc[c] # "enter"
    /\ bitmap[c] # {} => pc[c] = "bits"

\* The CPUs that the holder of smp_lock, in send_ipi, still has to tell.
Untold(l) ==
  (IF pc[l] = "sip" THEN tosend[l] \ {NextTarget(l)} ELSE tosend[l])
    \cup (mask[l] \cap {l})

ToldInv ==
  \A l \in CPUs :
    /\ pc[l] = "sip" => tosend[l] # {}
    /\ ipi[l] = "IPI_TRYST" =>
         /\ tosend[l] \subseteq mask[l] \ {l}
         /\ \A c \in Untold(l) : ~ Told(c) /\ c \notin gathered

SmpInv == TypeOK /\ LockInv /\ RoomInv /\ PlaceInv /\ ToldInv

-----------------------------------------------------------------------------
\* Sets of CPUs are finite; a part as large as the whole is the whole.
LEMMA CardCPUs ==
  /\ Cardinality(CPUs) \in Nat
  /\ Cardinality({}) = 0
  /\ \A S \in SUBSET CPUs :
       /\ Cardinality(S) \in 0 .. Cardinality(CPUs)
       /\ \A c \in CPUs \ S : Cardinality(S \cup {c}) = Cardinality(S) + 1
       /\ \A T \in SUBSET S : Cardinality(T) >= Cardinality(S) => T = S
<1>1. Cardinality(CPUs) \in Nat /\ IsFiniteSet(CPUs)
  BY SmpAssumption, FS_CardinalityType
<1>2. Cardinality({}) = 0
  BY FS_EmptySet
<1>3. ASSUME NEW S \in SUBSET CPUs
      PROVE  /\ Cardinality(S) \in 0 .. Cardinality(CPUs)
             /\ \A c \in CPUs \ S : Cardinality(S \cup {c}) = Cardinality(S)
                   + 1
             /\ \A T \in SUBSET S : Cardinality(T) >= Cardinality(S) => T = S
  <2>1. IsFiniteSet(S) /\ Cardinality(S) <= Cardinality(CPUs)
    BY <1>1, FS_Subset
  <2>2. Cardinality(S) \in Nat
    BY <2>1, FS_CardinalityType
  <2>3. \A c \in CPUs \ S : Cardinality(S \cup {c}) = Cardinality(S) + 1
    BY <2>1, FS_AddElement
  <2>4. ASSUME NEW T \in SUBSET S, Cardinality(T) >= Cardinality(S)
        PROVE  T = S
    <3>1. IsFiniteSet(T) /\ Cardinality(T) <= Cardinality(S)
          /\ (Cardinality(S) = Cardinality(T) => S = T)
      BY <2>1, FS_Subset
    <3>2. Cardinality(T) \in Nat
      BY <3>1, FS_CardinalityType
    <3> QED  BY <2>2, <2>4, <3>1, <3>2
  <2> QED  BY <1>1, <2>1, <2>2, <2>3, <2>4
<1> QED  BY <1>1, <1>2, <1>3

\* The CPU that send_ipi serves next is in its loop.
LEMMA NextTargetIn ==
  ASSUME NEW c \in CPUs, tosend[c] # {}
  PROVE  NextTarget(c) \in tosend[c]
BY DEF NextTarget

\* The loop of send_ipi of one CPU is not moved by the others.
LEMMA NextTargetSame ==
  ASSUME NEW c \in CPUs, tosend'[c] = tosend[c]
  PROVE  NextTarget(c)' = NextTarget(c)
BY DEF NextTarget

-----------------------------------------------------------------------------
\* SmpInv holds after boot: the lock is free and no IPI is pending.
LEMMA InitInv == Init => SmpInv
<1> SUFFICES ASSUME Init PROVE SmpInv
  OBVIOUS
<1>1. TypeOK  BY CardCPUs DEF Init, TypeOK, Labels, IPIs
<1>2. LockInv  BY SmpAssumption DEF Init, LockInv
<1>3. RoomInv  BY DEF Init, RoomInv, Open, Invited
<1>4. PlaceInv  BY DEF Init, PlaceInv, Told
<1>5. ToldInv  BY DEF Init, ToldInv
<1> QED  BY <1>1, <1>2, <1>3, <1>4, <1>5 DEF SmpInv

\* A thread that calls smp_rendezvous_cpus asks for some CPU.
LEMMA smp_rendezvous_cpus_Inv ==
  ASSUME SmpInv, NEW c \in CPUs, NEW S \in Masks, smp_rendezvous_cpus(c, S)
  PROVE  SmpInv'
<1> USE SmpAssumption DEF SmpInv, smp_rendezvous_cpus, Goto, localVars,
      roomVars, history
<1>0. S # {} /\ S \subseteq CPUs
  OBVIOUS
<1>1. TypeOK'  BY DEF TypeOK, Labels
<1>2. LockInv'  BY <1>0 DEF TypeOK, LockInv
<1>3. RoomInv'  BY DEF LockInv, RoomInv, Open, Invited
<1>4. PlaceInv'  BY DEF LockInv, PlaceInv, Told, Open, Invited
<1>5. ToldInv'  BY NextTargetSame DEF LockInv, ToldInv, Told, Untold
<1> QED  BY <1>1, <1>2, <1>3, <1>4, <1>5

\* panic asks for all CPUs.
LEMMA panic_Inv ==
  ASSUME SmpInv, NEW c \in CPUs, panic(c)
  PROVE  SmpInv'
<1> USE SmpAssumption DEF SmpInv, panic, Goto, localVars, roomVars, history
<1>1. TypeOK'  BY DEF TypeOK, Labels
<1>2. LockInv'  BY DEF TypeOK, LockInv
<1>3. RoomInv'  BY DEF LockInv, RoomInv, Open, Invited
<1>4. PlaceInv'  BY DEF PlaceInv, Told, Open, Invited
<1>5. ToldInv'  BY NextTargetSame DEF LockInv, ToldInv, Told, Untold
<1> QED  BY <1>1, <1>2, <1>3, <1>4, <1>5

\* The CPU that wakes another one does not hold smp_lock.
LEMMA mdx_sched_cpu_notify_Inv ==
  ASSUME SmpInv, NEW c \in CPUs, NEW d \in CPUs, mdx_sched_cpu_notify(c, d)
  PROVE  SmpInv'
<1> USE SmpAssumption DEF SmpInv, mdx_sched_cpu_notify, Goto, localVars,
      roomVars, history
<1>1. TypeOK'  BY DEF TypeOK, Labels, IPIs
<1>2. LockInv'  BY DEF LockInv
<1>3. RoomInv'  BY DEF RoomInv, Open, Invited
<1>4. PlaceInv'  BY DEF PlaceInv, Told, Open, Invited
<1>5. ToldInv'  BY NextTargetSame DEF LockInv, ToldInv, Told, Untold
<1> QED  BY <1>1, <1>2, <1>3, <1>4, <1>5

\* The new holder of smp_lock finds an empty room.
LEMMA sl_trylock_Inv ==
  ASSUME SmpInv, NEW c \in CPUs, sl_trylock(c)
  PROVE  SmpInv'
<1> USE SmpAssumption DEF SmpInv, sl_trylock, Goto, localVars, roomVars,
      history
<1>1. TypeOK'  BY DEF TypeOK, Labels
<1>2. LockInv'  BY DEF TypeOK, LockInv
<1>3. RoomInv'  BY DEF TypeOK, RoomInv, Open, Invited
<1>4. PlaceInv'  BY DEF TypeOK, PlaceInv, Told, Open, Invited
<1>5. ToldInv'  BY NextTargetSame DEF TypeOK, ToldInv, Told, Untold
<1> QED  BY <1>1, <1>2, <1>3, <1>4, <1>5

\* The number of CPUs is set while the room is closed.
LEMMA rendezvous_setup_Inv ==
  ASSUME SmpInv, NEW c \in CPUs, rendezvous_setup(c)
  PROVE  SmpInv'
<1> USE SmpAssumption DEF SmpInv, rendezvous_setup, Goto, localVars,
      roomVars, history
<1>1. TypeOK'  BY CardCPUs DEF TypeOK, Labels
<1>2. LockInv'  BY DEF LockInv
<1>3. RoomInv'  BY DEF TypeOK, LockInv, RoomInv, Open, Invited
<1>4. PlaceInv'  BY DEF PlaceInv, Told, Open, Invited
<1>5. ToldInv'  BY DEF LockInv, ToldInv
<1> QED  BY <1>1, <1>2, <1>3, <1>4, <1>5

\* When the room opens nobody is in it or on the way to it.
LEMMA rendezvous_open_Inv ==
  ASSUME SmpInv, NEW c \in CPUs, rendezvous_open(c)
  PROVE  SmpInv'
<1> USE SmpAssumption DEF SmpInv, rendezvous_open, Goto, localVars,
      roomVars, history
<1>0. smp_lock = c /\ ~ Open /\ gathered = {} /\ \A d \in CPUs : ~ Told(d)
  BY DEF LockInv, RoomInv, PlaceInv, Open, Invited
<1>1. TypeOK'  BY CardCPUs DEF TypeOK, Labels, IPIs
<1>2. LockInv'  BY DEF TypeOK, LockInv
<1>3. RoomInv'  BY <1>0, CardCPUs DEF TypeOK, RoomInv
<1>4. PlaceInv'  BY DEF PlaceInv, Told, Open, Invited
<1>5. ToldInv'  BY <1>0 DEF TypeOK, ToldInv, Told, Untold
<1> QED  BY <1>1, <1>2, <1>3, <1>4, <1>5

\* send_ipi tells a CPU that has not been told and has not come.
LEMMA send_ipi_Inv ==
  ASSUME SmpInv, NEW c \in CPUs, send_ipi(c)
  PROVE  SmpInv'
<1> USE SmpAssumption DEF SmpInv, send_ipi, Goto, localVars, roomVars, history
<1>1. TypeOK'  BY DEF TypeOK, Labels, IPIs
<1>2. LockInv'  BY DEF LockInv
<1>3. RoomInv'  BY DEF RoomInv, Open, Invited
<1>4. PlaceInv'
  <2>1. NextTarget(c) \in tosend[c] /\ NextTarget(c) \in CPUs
    BY NextTargetIn DEF TypeOK
  <2>2. ipi[c] = "IPI_TRYST" =>
          /\ NextTarget(c) \in Invited \ gathered
          /\ ~ Told(NextTarget(c))
    BY <2>1 DEF LockInv, ToldInv, Untold, Open, Invited
  <2> QED  BY <2>2 DEF PlaceInv, Told, Open, Invited
<1>5. ToldInv'
  BY NextTargetIn, NextTargetSame DEF TypeOK, LockInv, ToldInv, Told, Untold
<1> QED  BY <1>1, <1>2, <1>3, <1>4, <1>5

\* The loop of send_ipi goes on to the CPUs not told yet.
LEMMA clint_set_sip_Inv ==
  ASSUME SmpInv, NEW c \in CPUs, clint_set_sip(c)
  PROVE  SmpInv'
<1> USE SmpAssumption DEF SmpInv, clint_set_sip, Goto, localVars, roomVars,
      history
<1>1. TypeOK'  BY NextTargetIn DEF ToldInv, TypeOK, Labels
<1>2. LockInv'  BY DEF LockInv
<1>3. RoomInv'  BY DEF RoomInv, Open, Invited
<1>4. PlaceInv'  BY DEF PlaceInv, Told, Open, Invited
<1>5. ToldInv'  BY NextTargetSame DEF TypeOK, ToldInv, Told, Untold
<1> QED  BY <1>1, <1>2, <1>3, <1>4, <1>5

\* The caller, in the mask, has been told by nobody and goes in itself.
LEMMA send_ipi_done_Inv ==
  ASSUME SmpInv, NEW c \in CPUs, send_ipi_done(c)
  PROVE  SmpInv'
<1> USE SmpAssumption DEF SmpInv, send_ipi_done, Goto, localVars, roomVars,
      history
<1>1. TypeOK'  BY DEF TypeOK, Labels, IPIs
<1>2. LockInv'  BY DEF TypeOK, LockInv
<1>3. RoomInv'  BY DEF TypeOK, RoomInv, Open, Invited
<1>4. PlaceInv'
  <2>1. ipi[c] = "IPI_TRYST" /\ c \in mask[c] =>
          c \in Invited \ gathered /\ ~ Told(c)
    BY DEF LockInv, ToldInv, Untold, Open, Invited
  <2> QED  BY <2>1 DEF TypeOK, PlaceInv, Told, Open, Invited
<1>5. ToldInv'  BY NextTargetSame DEF TypeOK, LockInv, ToldInv, Told, Untold
<1> QED  BY <1>1, <1>2, <1>3, <1>4, <1>5

\* When room[2] is full all of the mask have left: none is on the way.
LEMMA rendezvous_wait_Inv ==
  ASSUME SmpInv, NEW c \in CPUs, rendezvous_wait(c)
  PROVE  SmpInv'
<1> USE SmpAssumption DEF SmpInv, rendezvous_wait, Goto, localVars,
      roomVars, history, RendezvousReturn
<1>1. TypeOK'  BY DEF TypeOK, Labels
<1>2. LockInv'  BY DEF TypeOK, LockInv
<1>3. RoomInv'  BY DEF RoomInv, Open
<1>4. PlaceInv'
  BY CardCPUs DEF TypeOK, LockInv, RoomInv, PlaceInv, Told, Invited
<1>5. ToldInv'  BY DEF LockInv, ToldInv
<1> QED  BY <1>1, <1>2, <1>3, <1>4, <1>5

\* A CPU that enters is counted once.
LEMMA action_enter_Inv ==
  ASSUME SmpInv, NEW c \in CPUs, action_enter(c)
  PROVE  SmpInv'
<1> USE SmpAssumption DEF SmpInv, action_enter, Goto, localVars, roomVars,
      history
<1>0. Open /\ c \in CPUs \ gathered /\ gathered \cup {c} \subseteq CPUs
  BY DEF TypeOK, PlaceInv, Told, Invited
<1>1. TypeOK'
  <2>1. room[1] + 1 \in 0 .. Cardinality(CPUs)
    BY <1>0, CardCPUs DEF RoomInv
  <2> QED  BY <2>1 DEF TypeOK, Labels
<1>2. LockInv'  BY DEF LockInv
<1>3. RoomInv'
  BY CardCPUs DEF TypeOK, LockInv, RoomInv, PlaceInv, Told, Open, Invited
<1>4. PlaceInv'  BY DEF TypeOK, RoomInv, PlaceInv, Told, Open, Invited
<1>5. ToldInv'  BY NextTargetSame DEF ToldInv, Told, Untold
<1> QED  BY <1>1, <1>2, <1>3, <1>4, <1>5

\* A CPU that calls the function leaves those that gather.
LEMMA action_call_Inv ==
  ASSUME SmpInv, NEW c \in CPUs, action_call(c)
  PROVE  SmpInv'
<1> USE SmpAssumption DEF SmpInv, action_call, Goto, localVars, roomVars,
      history
<1>1. TypeOK'  BY DEF TypeOK, Labels
<1>2. LockInv'  BY DEF LockInv
<1>3. RoomInv'  BY CardCPUs DEF TypeOK, RoomInv, PlaceInv, Open, Invited
<1>4. PlaceInv'  BY DEF TypeOK, RoomInv, PlaceInv, Told, Open, Invited
<1>5. ToldInv'  BY NextTargetSame DEF ToldInv, Told, Untold
<1> QED  BY <1>1, <1>2, <1>3, <1>4, <1>5

\* A CPU that leaves is counted once.
LEMMA action_leave_Inv ==
  ASSUME SmpInv, NEW c \in CPUs, action_leave(c)
  PROVE  SmpInv'
<1> USE SmpAssumption DEF SmpInv, action_leave, Goto, localVars, roomVars,
      history
<1>0. Open /\ c \in CPUs \ left /\ left \cup {c} \subseteq CPUs
  BY DEF TypeOK, RoomInv, PlaceInv, Invited
<1>1. TypeOK'
  <2>1. room[2] + 1 \in 0 .. Cardinality(CPUs)
    BY <1>0, CardCPUs DEF RoomInv
  <2> QED  BY <2>1 DEF TypeOK, Labels
<1>2. LockInv'  BY DEF LockInv
<1>3. RoomInv'  BY CardCPUs DEF TypeOK, RoomInv, PlaceInv, Open, Invited
<1>4. PlaceInv'  BY DEF TypeOK, PlaceInv, Told, Open, Invited
<1>5. ToldInv'  BY NextTargetSame DEF ToldInv, Told, Untold
<1> QED  BY <1>1, <1>2, <1>3, <1>4, <1>5

\* The interrupt is taken in thread code, outside the rendezvous.
LEMMA clint_intr_software_Inv ==
  ASSUME SmpInv, NEW c \in CPUs, clint_intr_software(c)
  PROVE  SmpInv'
<1> USE SmpAssumption DEF SmpInv, clint_intr_software, Goto, localVars,
      roomVars, history
<1>1. TypeOK'  BY DEF TypeOK, Labels
<1>2. LockInv'  BY DEF LockInv
<1>3. RoomInv'  BY DEF RoomInv, Open, Invited
<1>4. PlaceInv'  BY DEF PlaceInv, Told, Open, Invited
<1>5. ToldInv'  BY NextTargetSame DEF ToldInv, Told, Untold
<1> QED  BY <1>1, <1>2, <1>3, <1>4, <1>5

\* The pending bits move to the local variable as a whole.
LEMMA ipi_handler_Inv ==
  ASSUME SmpInv, NEW c \in CPUs, ipi_handler(c)
  PROVE  SmpInv'
<1> USE SmpAssumption DEF SmpInv, ipi_handler, Goto, localVars, roomVars,
      history
<1>1. TypeOK'  BY DEF TypeOK, Labels
<1>2. LockInv'  BY DEF LockInv
<1>3. RoomInv'  BY DEF RoomInv, Open, Invited
<1>4. PlaceInv'  BY DEF TypeOK, PlaceInv, Told, Open, Invited
<1>5. ToldInv'  BY NextTargetSame DEF ToldInv, Told, Untold
<1> QED  BY <1>1, <1>2, <1>3, <1>4, <1>5

\* The bit that is handled is gone before the action begins.
LEMMA ipi_bits_Inv ==
  ASSUME SmpInv, NEW c \in CPUs, ipi_bits(c)
  PROVE  SmpInv'
<1> USE SmpAssumption DEF SmpInv, ipi_bits, Goto, localVars, roomVars, history
<1>0. hret[c] \in {"run", "try"}
  BY DEF TypeOK, LockInv
<1>1. TypeOK'  BY <1>0 DEF TypeOK, Labels
<1>2. LockInv'  BY DEF TypeOK, LockInv
<1>3. RoomInv'  BY DEF TypeOK, RoomInv, Open, Invited
<1>4. PlaceInv'  BY DEF TypeOK, PlaceInv, Told, Open, Invited
<1>5. ToldInv'  BY NextTargetSame DEF TypeOK, ToldInv, Told, Untold
<1> QED  BY <1>1, <1>2, <1>3, <1>4, <1>5

-----------------------------------------------------------------------------
\* SmpInv is preserved by every step.
LEMMA NextInv == SmpInv /\ [Next]_vars => SmpInv'
<1> SUFFICES ASSUME SmpInv, [Next]_vars PROVE SmpInv'
  OBVIOUS
<1>1. CASE UNCHANGED vars
  <2> USE <1>1 DEF SmpInv, vars, localVars, roomVars, history
  <2>1. TypeOK' /\ LockInv'  BY DEF TypeOK, LockInv
  <2>2. RoomInv'  BY DEF RoomInv, Open, Invited
  <2>3. PlaceInv'  BY DEF PlaceInv, Told, Open, Invited
  <2>4. ToldInv'  BY DEF ToldInv, Told, Untold, NextTarget
  <2> QED  BY <2>1, <2>2, <2>3, <2>4
<1>2. CASE Next
  BY <1>2, smp_rendezvous_cpus_Inv, panic_Inv, mdx_sched_cpu_notify_Inv,
     sl_trylock_Inv, rendezvous_setup_Inv, rendezvous_open_Inv, send_ipi_Inv,
     clint_set_sip_Inv, send_ipi_done_Inv, rendezvous_wait_Inv, action_enter_Inv,
     action_call_Inv, action_leave_Inv, clint_intr_software_Inv, ipi_handler_Inv,
     ipi_bits_Inv
  DEF Next, CodeStep
<1> QED  BY <1>1, <1>2

\* SmpInv holds of every reachable state.
THEOREM SmpInvariant == Spec => []SmpInv
BY InitInv, NextInv, PTL DEF Spec

\* A CPU that IPI_TRYST has been sent to is one that the rendezvous in progress
\* waits for (NoStrayTryst), whatever the CPUs and the masks.
THEOREM NoStrayTrystHolds == Spec => []NoStrayTryst
<1>1. SmpInv => NoStrayTryst
  BY DEF SmpInv, NoStrayTryst, PlaceInv, Told
<1> QED  BY <1>1, SmpInvariant, PTL

-----------------------------------------------------------------------------
\* A step that leaves the history and the holder of smp_lock alone, and moves
\* the holder neither in nor out of the two labels before the room is open,
\* is a stuttering step of RendezvousSpec.
LEMMA Stutter ==
  ASSUME UNCHANGED history, Invited' = Invited
  PROVE  UNCHANGED Abstract!vars
BY DEF Abstract!vars, history

\* A call of smp_rendezvous_cpus begins no rendezvous yet.
LEMMA smp_rendezvous_cpus_Ref ==
  ASSUME SmpInv, NEW c \in CPUs, NEW S \in Masks, smp_rendezvous_cpus(c, S)
  PROVE  UNCHANGED Abstract!vars
BY Stutter DEF SmpInv, LockInv, smp_rendezvous_cpus, Goto, Open, Invited

\* Nor does panic.
LEMMA panic_Ref ==
  ASSUME SmpInv, NEW c \in CPUs, panic(c)
  PROVE  UNCHANGED Abstract!vars
BY Stutter DEF SmpInv, LockInv, panic, Goto, Open, Invited

\* The scheduler takes no part in a rendezvous.
LEMMA mdx_sched_cpu_notify_Ref ==
  ASSUME SmpInv, NEW c \in CPUs, NEW d \in CPUs, mdx_sched_cpu_notify(c, d)
  PROVE  UNCHANGED Abstract!vars
BY Stutter DEF mdx_sched_cpu_notify, Goto, Open, Invited

\* The holder of smp_lock has not opened the room, and handlers change
\* nothing.
LEMMA sl_trylock_Ref ==
  ASSUME SmpInv, NEW c \in CPUs, sl_trylock(c)
  PROVE  UNCHANGED Abstract!vars
BY Stutter DEF SmpInv, TypeOK, sl_trylock, Goto, Open, Invited

\* The room is still closed.
LEMMA rendezvous_setup_Ref ==
  ASSUME SmpInv, NEW c \in CPUs, rendezvous_setup(c)
  PROVE  UNCHANGED Abstract!vars
BY Stutter DEF rendezvous_setup, Goto, localVars, Open, Invited

\* The rendezvous begins when the room opens.
LEMMA rendezvous_open_Ref ==
  ASSUME SmpInv, NEW c \in CPUs, rendezvous_open(c)
  PROVE  Abstract!Begin(mask[c])
<1>1. smp_lock = c /\ mask[c] # {} /\ Invited = {}
  BY DEF SmpInv, LockInv, rendezvous_open, Open, Invited
<1>2. Invited' = mask[c]
  BY SmpAssumption
  DEF SmpInv, TypeOK, LockInv, rendezvous_open, Goto, Open, Invited
<1> QED  BY <1>1, <1>2 DEF Abstract!Begin, rendezvous_open, history

\* To tell a CPU is a stuttering step.
LEMMA send_ipi_Ref ==
  ASSUME SmpInv, NEW c \in CPUs, send_ipi(c)
  PROVE  UNCHANGED Abstract!vars
BY Stutter DEF send_ipi, Goto, localVars, Open, Invited

\* To interrupt it is one.
LEMMA clint_set_sip_Ref ==
  ASSUME SmpInv, NEW c \in CPUs, clint_set_sip(c)
  PROVE  UNCHANGED Abstract!vars
BY Stutter DEF clint_set_sip, Goto, Open, Invited

\* The end of the loop of send_ipi is one.
LEMMA send_ipi_done_Ref ==
  ASSUME SmpInv, NEW c \in CPUs, send_ipi_done(c)
  PROVE  UNCHANGED Abstract!vars
BY Stutter DEF SmpInv, TypeOK, send_ipi_done, Goto, Open, Invited

\* The rendezvous ends, all of its CPUs having left.
LEMMA rendezvous_wait_Ref ==
  ASSUME SmpInv, NEW c \in CPUs, rendezvous_wait(c)
  PROVE  Abstract!End
<1>1. Open /\ smp_lock = c /\ mask[c] # {} /\ Invited = mask[c]
  BY SmpAssumption DEF SmpInv, LockInv, rendezvous_wait, Open, Invited
<1>2. left = Invited
  BY <1>1, CardCPUs DEF SmpInv, TypeOK, RoomInv, rendezvous_wait
<1>3. Invited' = {}
  BY DEF rendezvous_wait, Open, Invited
<1> QED
  BY <1>1, <1>2, <1>3 DEF Abstract!End, rendezvous_wait, RendezvousReturn

\* A CPU that enters the room has been invited and comes once.
LEMMA action_enter_Ref ==
  ASSUME SmpInv, NEW c \in CPUs, action_enter(c)
  PROVE  Abstract!Enter(c)
<1>1. Invited' = Invited
  BY DEF action_enter, Goto, localVars, Open, Invited
<1> QED  BY <1>1 DEF Abstract!Enter, SmpInv, PlaceInv, Told, action_enter

\* A CPU that goes on from room[1] has seen all the others come.
LEMMA action_call_Ref ==
  ASSUME SmpInv, NEW c \in CPUs, action_call(c)
  PROVE  Abstract!Call(c)
<1>1. Invited' = Invited
  BY DEF action_call, Goto, localVars, Open, Invited
<1>2. gathered = Invited /\ Invited # {}
  BY CardCPUs
  DEF SmpInv, TypeOK, RoomInv, PlaceInv, Open, Invited, action_call
<1> QED  BY <1>1, <1>2 DEF Abstract!Call, SmpInv, PlaceInv, action_call

\* A CPU that leaves has called the function.
LEMMA action_leave_Ref ==
  ASSUME SmpInv, NEW c \in CPUs, action_leave(c)
  PROVE  Abstract!Leave(c)
<1>1. Invited' = Invited
  BY DEF action_leave, Goto, localVars, Open, Invited
<1> QED  BY <1>1 DEF Abstract!Leave, SmpInv, PlaceInv, action_leave

\* The software interrupt is a stuttering step.
LEMMA clint_intr_software_Ref ==
  ASSUME SmpInv, NEW c \in CPUs, clint_intr_software(c)
  PROVE  UNCHANGED Abstract!vars
BY Stutter DEF clint_intr_software, Goto, Open, Invited

\* So is the reading of the pending bits.
LEMMA ipi_handler_Ref ==
  ASSUME SmpInv, NEW c \in CPUs, ipi_handler(c)
  PROVE  UNCHANGED Abstract!vars
BY Stutter DEF ipi_handler, Goto, Open, Invited

\* So is the loop over the bits.
LEMMA ipi_bits_Ref ==
  ASSUME SmpInv, NEW c \in CPUs, ipi_bits(c)
  PROVE  UNCHANGED Abstract!vars
BY Stutter DEF SmpInv, TypeOK, ipi_bits, Goto, Open, Invited

\* smp_rendezvous_cpus implements RendezvousSpec for every set of CPUs and
\* masks: each CPU of the mask calls the function once, none before all have
\* come, and the caller returns after the last.
THEOREM RendezvousHolds == Spec => Rendezvous
<1>1. Init => Abstract!Init
  BY DEF Init, Abstract!Init, Open, Invited
<1>2. SmpInv /\ [Next]_vars => [Abstract!Next]_(Abstract!vars)
  <2> SUFFICES ASSUME SmpInv, [Next]_vars
               PROVE  [Abstract!Next]_(Abstract!vars)
    OBVIOUS
  <2>1. CASE UNCHANGED vars
    <3>1. Invited' = Invited  BY <2>1 DEF vars, localVars, Open, Invited
    <3> QED  BY <2>1, <3>1, Stutter DEF vars
  <2>2. ASSUME NEW c \in CPUs, rendezvous_open(c) PROVE Abstract!Next
    <3>1. mask[c] \in SUBSET CPUs  BY DEF SmpInv, TypeOK
    <3> QED  BY <2>2, <3>1, rendezvous_open_Ref DEF Abstract!Next
  <2>3. ASSUME NEW c \in CPUs,
            action_enter(c) \/ action_call(c) \/ action_leave(c)
        PROVE  Abstract!Next
    BY <2>3, action_enter_Ref, action_call_Ref, action_leave_Ref
    DEF Abstract!Next
  <2>4. ASSUME NEW c \in CPUs, rendezvous_wait(c) PROVE Abstract!Next
    BY <2>4, rendezvous_wait_Ref DEF Abstract!Next
  <2>5. CASE Next
    BY <2>5, <2>2, <2>3, <2>4, smp_rendezvous_cpus_Ref, panic_Ref,
       mdx_sched_cpu_notify_Ref, sl_trylock_Ref, rendezvous_setup_Ref,
       send_ipi_Ref, clint_set_sip_Ref, send_ipi_done_Ref,
       clint_intr_software_Ref, ipi_handler_Ref, ipi_bits_Ref
    DEF Next, CodeStep
  <2> QED  BY <2>1, <2>5
<1> QED  BY <1>1, <1>2, SmpInvariant, PTL DEF Spec, Rendezvous, Abstract!Spec
=============================================================================
