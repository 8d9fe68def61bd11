--------------------------- MODULE RendezvousSpec ---------------------------
(***************************************************************************)
(* What smp_rendezvous_cpus promises: a function is called on a set of     *)
(* CPUs, one rendezvous at a time.  Every CPU of the set calls it once, no *)
(* CPU calls it before all of them have gathered, and the caller goes on   *)
(* only when all have returned from it.                                    *)
(***************************************************************************)
CONSTANT CPUs

VARIABLES
  invited,   \* the CPUs of the rendezvous in progress, {} if there is none
  gathered,  \* those that have entered the room
  called,    \* those that have started the function
  left       \* those that have returned from it

vars == <<invited, gathered, called, left>>

Init == invited = {} /\ gathered = {} /\ called = {} /\ left = {}

Begin(S) ==
  /\ invited = {}
  /\ S # {}
  /\ invited' = S
  /\ UNCHANGED <<gathered, called, left>>

Enter(c) ==
  /\ c \in invited \ gathered
  /\ gathered' = gathered \cup {c}
  /\ UNCHANGED <<invited, called, left>>

Call(c) ==
  /\ invited # {} /\ gathered = invited
  /\ c \in gathered \ called
  /\ called' = called \cup {c}
  /\ UNCHANGED <<invited, gathered, left>>

Leave(c) ==
  /\ c \in called \ left
  /\ left' = left \cup {c}
  /\ UNCHANGED <<invited, gathered, called>>

End ==
  /\ invited # {} /\ left = invited
  /\ invited' = {} /\ gathered' = {} /\ called' = {} /\ left' = {}

Next ==
  \/ \E S \in SUBSET CPUs : Begin(S)
  \/ \E c \in CPUs : Enter(c) \/ Call(c) \/ Leave(c)
  \/ End

Spec == Init /\ [][Next]_vars
=============================================================================
