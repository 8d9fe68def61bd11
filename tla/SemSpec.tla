------------------------------ MODULE SemSpec -------------------------------
(***************************************************************************)
(* What a counting semaphore with timeouts promises: a wait that succeeds  *)
(* takes one permit that was given and that nobody else takes; a wait that *)
(* times out takes none.                                                   *)
(***************************************************************************)
EXTENDS Naturals

CONSTANTS
  Procs,   \* those that wait
  Count    \* the permits given by mdx_sem_init

VARIABLES
  value,   \* permits given and not taken
  waiting, \* the processes inside a wait
  held     \* those whose last call got a permit that they have not given back

vars == <<value, waiting, held>>

Init == value = Count /\ waiting = {} /\ held = {}

\* A new permit is given, or the one a process has is given back.
Post ==
  /\ value' = value + 1
  /\ UNCHANGED held \/ \E p \in held : held' = held \ {p}
  /\ UNCHANGED waiting

Wait(p) ==
  /\ p \notin waiting
  /\ waiting' = waiting \cup {p}
  /\ held' = held \ {p}
  /\ UNCHANGED value

\* The wait succeeds.
Take(p) ==
  /\ p \in waiting /\ value > 0
  /\ value' = value - 1
  /\ waiting' = waiting \ {p}
  /\ held' = held \cup {p}

\* The wait times out.
Timeout(p) == p \in waiting /\ waiting' = waiting \ {p} /\ UNCHANGED <<value, held>>

\* A process that does not wait takes a permit at once.
TryWait(p) ==
  /\ p \notin waiting /\ value > 0
  /\ value' = value - 1
  /\ held' = held \cup {p}
  /\ UNCHANGED waiting

Next ==
  \/ Post
  \/ \E p \in Procs : Wait(p) \/ Take(p) \/ Timeout(p) \/ TryWait(p)

Spec == Init /\ [][Next]_vars
=============================================================================
