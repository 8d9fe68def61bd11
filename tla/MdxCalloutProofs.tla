-------------------------- MODULE MdxCalloutProofs --------------------------
(***************************************************************************)
(* Proofs about the callout queue: type correctness, the agreement of the  *)
(* list with CALLOUT_FLAG_ACTIVE, the timer that stays programmed, the     *)
(* loop that calls pending callouts only and never early.                  *)
(*                                                                         *)
(* QueueInv is inductive for every value of the constants.  It adds to the *)
(* two properties where the callout being set is while it is on no list    *)
(* and which states of mi_timer go with which place in the code.           *)
(***************************************************************************)
EXTENDS MdxCallout, ListTheorems

-----------------------------------------------------------------------------
\* What holds of the locals and of the state of mi_timer at every place in the
\* code: the callout being set is not on the list, the walk stays on it, the
\* timer is in its callback exactly from the interrupt to the restart, and it
\* is only ready when nothing is pending.
Shape ==
  /\ pc \in {"walk", "armed"} => c0 \in Callouts /\ c0 \notin active
  /\ pc = "walk" => pos \in 1 .. Len(callouts_list) + 1
  /\ pc = "idle" => tmr_state # "exception"
  /\ pc \in {"lock", "loop", "func", "restart"} => tmr_state = "exception"
  /\ tmr_state = "ready" /\ pc # "armed" => callouts_list = <<>>

\* The inductive invariant of the queue.
QueueInv == TypeOK /\ ListIntegrity /\ Shape

\* Index finds the place of a node that is on the list.
LEMMA IndexElement ==
  ASSUME NEW c, OnList(c)
  PROVE  Index(c) \in DOMAIN callouts_list /\ callouts_list[Index(c)] = c
BY DEF OnList, Index

\* get_elapsed never leaves the range of the counter.
LEMMA ElapsedType ==
  ASSUME NEW s \in 0 .. MaxCnt, NEW n \in 0 .. MaxCnt
  PROVE  get_elapsed(s, n) \in 0 .. MaxCnt
BY CalloutAssumption DEF get_elapsed

\* list_remove takes exactly the one node off the list and keeps the order of
\* the others.
LEMMA ListRemoveElements ==
  ASSUME TypeOK, ListIntegrity, NEW c \in Callouts, OnList(c)
  PROVE  LET l == callouts_list
             r == list_remove(c)
             k == Index(c)
         IN  /\ k \in 1 .. Len(l) /\ l[k] = c
             /\ r \in Seq(Callouts)
             /\ Len(l) \in Nat
             /\ Len(r) = Len(l) - 1
             /\ \A j \in 1 .. k - 1 : r[j] = l[j]
             /\ \A j \in k .. Len(l) - 1 : r[j] = l[j + 1]
             /\ \A i, j \in DOMAIN r : r[i] = r[j] => i = j
             /\ \A d \in Callouts :
                  (\E i \in DOMAIN r : r[i] = d) <=> OnList(d) /\ d # c
<1> DEFINE l == callouts_list
           r == list_remove(c)
           k == Index(c)
<1>1. l \in Seq(Callouts) /\ Len(l) \in Nat /\ DOMAIN l = 1 .. Len(l)
  BY LenProperties DEF TypeOK, QueueTypeOK, TimerTypeOK, LocalTypeOK
<1>2. k \in 1 .. Len(l) /\ l[k] = c
  BY <1>1, IndexElement
<1>3. r = RemoveAt(l, k)
  BY DEF list_remove
<1> HIDE DEF k, r
<1>4. /\ r \in Seq(Callouts)
      /\ Len(r) = Len(l) - 1
      /\ \A j \in 1 .. k - 1 : r[j] = l[j]
      /\ \A j \in k .. Len(l) - 1 : r[j] = l[j + 1]
  BY <1>1, <1>2, <1>3, RemoveAtElements
<1>5. DOMAIN r = 1 .. Len(l) - 1
  BY <1>1, <1>4, LenProperties
<1>6. \A i, j \in 1 .. Len(l) : l[i] = l[j] => i = j
  BY <1>1 DEF ListIntegrity
<1>7. \A i, j \in DOMAIN r : r[i] = r[j] => i = j
  <2> SUFFICES ASSUME NEW i \in 1 .. Len(l) - 1, NEW j \in 1 .. Len(l) - 1,
                      r[i] = r[j]
               PROVE  i = j
    BY <1>5
  <2> DEFINE f(n) == IF n < k THEN n ELSE n + 1
  <2>1. r[i] = l[f(i)] /\ r[j] = l[f(j)]
    BY <1>1, <1>2, <1>4
  <2>2. f(i) \in 1 .. Len(l) /\ f(j) \in 1 .. Len(l)
    BY <1>1, <1>2
  <2>3. f(i) = f(j)
    BY <1>6, <2>1, <2>2
  <2> QED  BY <1>1, <1>2, <2>3
<1>8. ASSUME NEW d \in Callouts
      PROVE  (\E i \in DOMAIN r : r[i] = d) <=> OnList(d) /\ d # c
  <2>1. ASSUME NEW i \in DOMAIN r, r[i] = d
        PROVE  OnList(d) /\ d # c
    <3> DEFINE f == IF i < k THEN i ELSE i + 1
    <3>1. f \in 1 .. Len(l) /\ f # k /\ l[f] = d
      BY <1>1, <1>2, <1>4, <1>5, <2>1
    <3>2. OnList(d)  BY <1>1, <3>1 DEF OnList
    <3>3. d # c  BY <1>2, <1>6, <3>1
    <3> QED  BY <3>2, <3>3
  <2>2. ASSUME OnList(d), d # c
        PROVE  \E i \in DOMAIN r : r[i] = d
    <3> PICK i \in 1 .. Len(l) : l[i] = d  BY <1>1, <2>2 DEF OnList
    <3>1. i # k  BY <1>2, <2>2
    <3>2. CASE i < k
      <4>1. i \in DOMAIN r /\ r[i] = d  BY <1>1, <1>2, <1>4, <1>5, <3>2
      <4> QED  BY <4>1
    <3>3. CASE i > k
      <4>1. i - 1 \in DOMAIN r /\ r[i - 1] = d  BY <1>1, <1>2, <1>4, <1>5, <3>3
      <4> QED  BY <4>1
    <3> QED  BY <1>1, <1>2, <3>1, <3>2, <3>3
  <2> QED  BY <2>1, <2>2
<1> QED  BY <1>1, <1>2, <1>4, <1>7, <1>8 DEF k, r

\* list_insert_before and list_append add exactly the one node, at its place.
LEMMA ListInsertElements ==
  ASSUME TypeOK, ListIntegrity, NEW c \in Callouts, ~OnList(c),
         NEW k \in 1 .. Len(callouts_list) + 1
  PROVE  LET l == callouts_list
             r == InsertAt(l, k, c)
         IN  /\ r \in Seq(Callouts)
             /\ Len(l) \in Nat
             /\ Len(r) = Len(l) + 1
             /\ \A j \in 1 .. k - 1 : r[j] = l[j]
             /\ r[k] = c
             /\ \A j \in k + 1 .. Len(l) + 1 : r[j] = l[j - 1]
             /\ \A i, j \in DOMAIN r : r[i] = r[j] => i = j
             /\ \A d \in Callouts :
                  (\E i \in DOMAIN r : r[i] = d) <=> OnList(d) \/ d = c
<1> DEFINE l == callouts_list
           r == InsertAt(l, k, c)
<1>1. l \in Seq(Callouts) /\ Len(l) \in Nat /\ DOMAIN l = 1 .. Len(l)
  BY LenProperties DEF TypeOK, QueueTypeOK, TimerTypeOK, LocalTypeOK
<1>2. /\ r \in Seq(Callouts)
      /\ Len(r) = Len(l) + 1
      /\ \A j \in 1 .. k - 1 : r[j] = l[j]
      /\ r[k] = c
      /\ \A j \in k + 1 .. Len(l) + 1 : r[j] = l[j - 1]
  <2>1. l \in Seq(Callouts)  BY <1>1
  <2> QED  BY <2>1, InsertAtElements, SMTT(30)
<1> HIDE DEF r
<1>3. DOMAIN r = 1 .. Len(l) + 1
  BY <1>1, <1>2, LenProperties
<1>4. \A i, j \in 1 .. Len(l) : l[i] = l[j] => i = j
  BY <1>1 DEF ListIntegrity
<1>5. \A i \in 1 .. Len(l) : l[i] # c
  BY <1>1 DEF OnList
<1> DEFINE f(n) == IF n < k THEN n ELSE n - 1
<1>6. \A i \in DOMAIN r : i # k => f(i) \in 1 .. Len(l) /\ r[i] = l[f(i)]
  BY <1>1, <1>2, <1>3
<1>7. \A i, j \in DOMAIN r : r[i] = r[j] => i = j
  <2> SUFFICES ASSUME NEW i \in DOMAIN r, NEW j \in DOMAIN r, r[i] = r[j]
               PROVE  i = j
    OBVIOUS
  <2>1. CASE i = k \/ j = k
    BY <1>2, <1>5, <1>6, <2>1
  <2>2. CASE i # k /\ j # k
    <3>1. f(i) = f(j)  BY <1>4, <1>6, <2>2
    <3> QED  BY <1>1, <1>3, <2>2, <3>1
  <2> QED  BY <2>1, <2>2
<1>8. ASSUME NEW d \in Callouts
      PROVE  (\E i \in DOMAIN r : r[i] = d) <=> OnList(d) \/ d = c
  <2>1. ASSUME NEW i \in DOMAIN r, r[i] = d
        PROVE  OnList(d) \/ d = c
    BY <1>1, <1>2, <1>6, <2>1 DEF OnList
  <2>2. ASSUME OnList(d)
        PROVE  \E i \in DOMAIN r : r[i] = d
    <3> PICK i \in 1 .. Len(l) : l[i] = d  BY <1>1, <2>2 DEF OnList
    <3>1. CASE i < k
      <4>1. i \in DOMAIN r /\ r[i] = d  BY <1>1, <1>2, <1>3, <3>1
      <4> QED  BY <4>1
    <3>2. CASE i >= k
      <4>1. i + 1 \in DOMAIN r /\ r[i + 1] = d  BY <1>1, <1>2, <1>3, <3>2
      <4> QED  BY <4>1
    <3> QED  BY <1>1, <3>1, <3>2
  <2>3. k \in DOMAIN r /\ r[k] = c
    BY <1>1, <1>2, <1>3
  <2> QED  BY <2>1, <2>2, <2>3
<1> QED  BY <1>1, <1>2, <1>7, <1>8 DEF r

-----------------------------------------------------------------------------
\* The first node of a list that is not empty.
LEMMA FirstElement ==
  ASSUME TypeOK, callouts_list # <<>>
  PROVE  /\ first = callouts_list[1]
         /\ first \in Callouts
         /\ Len(callouts_list) \in Nat \ {0}
         /\ DOMAIN callouts_list = 1 .. Len(callouts_list)
         /\ OnList(first)
<1>1. /\ Len(callouts_list) \in Nat \ {0}
      /\ DOMAIN callouts_list = 1 .. Len(callouts_list)
  BY LenProperties, EmptySeq DEF TypeOK, QueueTypeOK, TimerTypeOK, LocalTypeOK
<1>2. first = callouts_list[1]
  BY DEF first
<1>3. callouts_list[1] \in Callouts
  BY <1>1, ElementOfSeq DEF TypeOK, QueueTypeOK, TimerTypeOK, LocalTypeOK
<1> QED  BY <1>1, <1>2, <1>3 DEF OnList

\* The queue invariant holds once mdx_callout_register has set the timer up.
LEMMA QueueInvInit == Init => QueueInv
<1> SUFFICES ASSUME Init PROVE QueueInv
  OBVIOUS
<1>1. callouts_list = <<>> /\ callouts_list \in Seq(Callouts)
  BY EmptySeq DEF Init
<1>2. TypeOK
  BY <1>1, CalloutAssumption DEF Init, TypeOK, QueueTypeOK, TimerTypeOK, LocalTypeOK, PCs
<1>3. DOMAIN callouts_list = {}
  BY <1>1
<1>4. ListIntegrity
  BY <1>3 DEF Init, ListIntegrity, OnList
<1>5. Shape
  BY <1>1 DEF Init, Shape
<1> QED  BY <1>2, <1>4, <1>5 DEF QueueInv

\* Entering mdx_callout_set_one keeps the queue invariant.
LEMMA SetBeginQueue ==
  ASSUME QueueInv, NEW c \in Callouts, NEW t \in 0 .. WordMax,
         set_begin(c, t), pc \in {"idle", "func"},
         UNCHANGED <<callouts_list, active, tmr_state, count_saved, hardware,
                     cur, tmp, lag>>,
         cstate' \in [Callouts -> {"ready", "fired"}]
  PROVE  QueueInv'
<1>1. Elapsed \in 0 .. MaxCnt
  BY ElapsedType DEF QueueInv, TypeOK, QueueTypeOK, TimerTypeOK, LocalTypeOK, Elapsed
<1>2. TypeOK'
  <2> DEFINE e == IF tmr_state = "running" THEN Elapsed ELSE 0
  <2>1. e \in 0 .. WordMax
    BY <1>1, CalloutAssumption
  <2> HIDE DEF e
  <2>2. WordAdd(t, e) \in 0 .. WordMax
    BY <2>1, CalloutAssumption DEF WordAdd
  <2>3. ticks' = [ticks EXCEPT ![c] = WordAdd(t, e)]
    BY DEF set_begin, e
  <2>4. elapsed' \in {elapsed, e}
    BY DEF set_begin, e
  <2>5. ticks' \in [Callouts -> 0 .. WordMax] /\ elapsed' \in 0 .. WordMax
    BY <2>1, <2>2, <2>3, <2>4 DEF QueueInv, TypeOK, QueueTypeOK, TimerTypeOK, LocalTypeOK
  <2>6. left' \in [Callouts -> Int]
    BY CalloutAssumption DEF QueueInv, TypeOK, QueueTypeOK, TimerTypeOK, LocalTypeOK, set_begin
  <2>7. pc' = "walk" /\ pos' = 1 /\ c0' = c
    BY DEF set_begin
  <2>8. /\ callouts_list' = callouts_list /\ active' = active
        /\ tmr_state' = tmr_state /\ count_saved' = count_saved
        /\ count' = count /\ compare' = compare /\ irq' = irq
        /\ cur' = cur /\ tmp' = tmp /\ lag' = lag
    BY DEF hardware
  <2>9. TypeOK
    BY DEF QueueInv
  <2>10. QueueTypeOK'
    BY <2>5, <2>8, <2>9 DEF TypeOK, QueueTypeOK
  <2>11. TimerTypeOK'
    BY <2>8, <2>9 DEF TypeOK, TimerTypeOK
  <2>12. LocalTypeOK'
    BY <2>5, <2>6, <2>7, <2>8, <2>9 DEF TypeOK, LocalTypeOK, PCs
  <2> QED  BY <2>10, <2>11, <2>12 DEF TypeOK
<1>3. ListIntegrity'
  BY DEF QueueInv, ListIntegrity, OnList, set_begin
<1>4. Shape'
  BY LenProperties DEF QueueInv, Shape, TypeOK, QueueTypeOK, TimerTypeOK, LocalTypeOK, set_begin
<1> QED  BY <1>2, <1>3, <1>4 DEF QueueInv

\* mi_tmr_start programs a value of the counter, also for long intervals.
LEMMA StartType ==
  ASSUME TypeOK, NEW n \in 0 .. WordMax, mi_tmr_start(n)
  PROVE  count' = count /\ compare' \in 0 .. MaxCnt /\ irq' \in {irq, "clear"}
<1>1. MaxCnt \in Nat /\ WordMax \in Nat /\ count \in 0 .. MaxCnt
  BY CalloutAssumption DEF TypeOK, TimerTypeOK
<1>2. CASE n > MaxCnt
  BY <1>1, <1>2 DEF mi_tmr_start
<1>3. CASE n <= MaxCnt
  BY <1>1, <1>3 DEF mi_tmr_start
<1> QED  BY <1>1, <1>2, <1>3

\* One iteration of the walk keeps the queue invariant: no tick underflows.
LEMMA SkipQueue ==
  ASSUME QueueInv, set_one_skip
  PROVE  QueueInv'
<1>1. /\ callouts_list \in Seq(Callouts)
      /\ Len(callouts_list) \in Nat
      /\ pos \in 1 .. Len(callouts_list)
      /\ c0 \in Callouts
  BY LenProperties
  DEF QueueInv, TypeOK, QueueTypeOK, LocalTypeOK, Shape, set_one_skip
<1>2. callouts_list[pos] \in Callouts
  BY <1>1, ElementOfSeq
<1>3. ticks' \in [Callouts -> 0 .. WordMax]
  BY <1>1, <1>2, CalloutAssumption
  DEF QueueInv, TypeOK, QueueTypeOK, set_one_skip
<1>4. TypeOK'
  <2>1. QueueTypeOK'
    BY <1>3 DEF QueueInv, TypeOK, QueueTypeOK, set_one_skip
  <2>2. TimerTypeOK'
    BY DEF QueueInv, TypeOK, TimerTypeOK, set_one_skip, hardware
  <2>3. LocalTypeOK'
    BY <1>1 DEF QueueInv, TypeOK, LocalTypeOK, set_one_skip
  <2> QED  BY <2>1, <2>2, <2>3 DEF TypeOK
<1>5. ListIntegrity'
  BY DEF QueueInv, ListIntegrity, OnList, set_one_skip
<1>6. Shape'
  BY <1>1 DEF QueueInv, Shape, set_one_skip
<1> QED  BY <1>4, <1>5, <1>6 DEF QueueInv

\* Inserting the callout keeps the queue invariant.
LEMMA InsertQueue ==
  ASSUME QueueInv, set_one_insert
  PROVE  QueueInv'
<1>1. /\ pos \in 1 .. Len(callouts_list) + 1
      /\ c0 \in Callouts /\ c0 \notin active
      /\ ~OnList(c0)
  BY DEF QueueInv, Shape, ListIntegrity, set_one_insert
<1> DEFINE l == callouts_list
           r == callouts_list'
<1>2. /\ r \in Seq(Callouts)
      /\ \A i, j \in DOMAIN r : r[i] = r[j] => i = j
      /\ \A d \in Callouts :
           (\E i \in DOMAIN r : r[i] = d) <=> OnList(d) \/ d = c0
  <2>1. r = InsertAt(l, pos, c0)  BY DEF set_one_insert
  <2> QED  BY <1>1, <2>1, ListInsertElements DEF QueueInv
<1>3. ticks' \in [Callouts -> 0 .. WordMax]
  <2>1. CASE pos <= Len(l)
    <3>1. l \in Seq(Callouts) /\ Len(l) \in Nat
      BY LenProperties DEF QueueInv, TypeOK, QueueTypeOK
    <3>2. l[pos] \in Callouts
      BY <1>1, <2>1, <3>1, ElementOfSeq
    <3>3. ticks[l[pos]] \in 0 .. WordMax /\ ticks[c0] \in 0 .. WordMax
      BY <1>1, <3>2 DEF QueueInv, TypeOK, QueueTypeOK
    <3>4. ticks[l[pos]] - ticks[c0] \in 0 .. WordMax
      BY <2>1, <3>3, CalloutAssumption DEF set_one_insert
    <3>5. ticks' = [ticks EXCEPT ![l[pos]] = ticks[l[pos]] - ticks[c0]]
      BY <2>1, <3>2 DEF set_one_insert, QueueInv, TypeOK, QueueTypeOK
    <3> QED  BY <3>4, <3>5 DEF QueueInv, TypeOK, QueueTypeOK
  <2>2. CASE ~(pos <= Len(l))
    BY <2>2 DEF QueueInv, TypeOK, QueueTypeOK, set_one_insert
  <2> QED  BY <2>1, <2>2
<1>4. TypeOK'
  <2>1. QueueTypeOK'
    BY <1>2, <1>3 DEF QueueInv, TypeOK, QueueTypeOK, set_one_insert
  <2>2. TimerTypeOK'
    BY DEF QueueInv, TypeOK, TimerTypeOK, set_one_insert, hardware
  <2>3. LocalTypeOK'
    BY DEF QueueInv, TypeOK, LocalTypeOK, set_one_insert, locals, PCs
  <2> QED  BY <2>1, <2>2, <2>3 DEF TypeOK
<1>5. ListIntegrity'
  <2>1. pc' = "armed" /\ c0' = c0 /\ active' = active /\ pc = "walk"
    BY DEF set_one_insert, locals
  <2>2. \A d \in Callouts : OnList(d) <=> d \in active
    BY <2>1 DEF QueueInv, ListIntegrity
  <2>3. \A d \in Callouts : OnList(d)' <=> OnList(d) \/ d = c0
    BY <1>2 DEF OnList
  <2> QED  BY <1>2, <2>1, <2>2, <2>3 DEF ListIntegrity
<1>6. Shape'
  BY <1>1 DEF QueueInv, Shape, set_one_insert, locals
<1> QED  BY <1>4, <1>5, <1>6 DEF QueueInv

\* uint32_t subtraction stays in the word.
LEMMA WordSubType ==
  ASSUME NEW a \in 0 .. WordMax, NEW b \in 0 .. WordMax
  PROVE  WordSub(a, b) \in 0 .. WordMax
BY CalloutAssumption DEF WordSub

\* The end of mdx_callout_set_one keeps the queue invariant.
LEMMA StartQueue ==
  ASSUME QueueInv, set_one_start
  PROVE  QueueInv'
<1>1. c0 \in Callouts /\ c0 \notin active /\ OnList(c0) /\ pc = "armed"
  BY DEF QueueInv, Shape, ListIntegrity, set_one_start
<1>2. callouts_list # <<>>
  BY <1>1 DEF OnList
<1>3. first \in Callouts
  BY <1>2, FirstElement DEF QueueInv
<1>4. WordSub(ticks[c0], elapsed) \in 0 .. WordMax /\ ticks[first] \in 0 .. WordMax
  <2>1. /\ ticks \in [Callouts -> 0 .. WordMax]
        /\ elapsed \in 0 .. WordMax
    BY DEF QueueInv, TypeOK, QueueTypeOK, LocalTypeOK
  <2> QED  BY <1>1, <1>3, <2>1, WordSubType
<1>5. /\ count' = count
      /\ compare' \in (0 .. MaxCnt) \cup {NULL}
      /\ irq' \in {"clear", "raised"}
  <2> DEFINE ok == /\ count' = count
                   /\ compare' \in (0 .. MaxCnt) \cup {NULL}
                   /\ irq' \in {"clear", "raised"}
  <2>1. UNCHANGED hardware => ok
    BY DEF QueueInv, TypeOK, TimerTypeOK, hardware
  <2>2. ASSUME NEW n \in 0 .. WordMax, mi_tmr_start(n)
        PROVE  ok
    BY <2>2, StartType DEF QueueInv, TypeOK, TimerTypeOK
  <2> HIDE DEF ok
  <2>3. \/ UNCHANGED hardware
        \/ mi_tmr_start(WordSub(ticks[c0], elapsed))
        \/ mi_tmr_start(ticks[first])
    BY DEF set_one_start
  <2>4. ok
    BY <1>4, <2>1, <2>2, <2>3
  <2> QED  BY <2>4 DEF ok
<1>6. /\ pc' \in {"idle", "loop"}
      /\ tmr_state' \in {"running", "exception"}
      /\ pc' = "idle" => tmr_state' = "running"
      /\ pc' = "loop" => tmr_state' = "exception"
      /\ count_saved' \in {count_saved, count}
      /\ cur' \in {cur, tmp}
      /\ lag' \in {lag, 0}
  BY DEF set_one_start, Leave, FuncReturn, InCallback
<1>7. TypeOK'
  <2>1. QueueTypeOK'
    BY <1>1 DEF QueueInv, TypeOK, QueueTypeOK, set_one_start
  <2>2. TimerTypeOK'
    BY <1>5, <1>6 DEF QueueInv, TypeOK, TimerTypeOK
  <2>3. LocalTypeOK'
    BY <1>6 DEF QueueInv, TypeOK, LocalTypeOK, set_one_start, PCs
  <2> QED  BY <2>1, <2>2, <2>3 DEF TypeOK
<1>8. ListIntegrity'
  <2>1. callouts_list' = callouts_list /\ active' = active \cup {c0}
    BY DEF set_one_start
  <2> QED  BY <1>1, <1>6, <2>1 DEF QueueInv, ListIntegrity, OnList
<1>9. Shape'
  BY <1>6 DEF QueueInv, Shape, set_one_start
<1> QED  BY <1>7, <1>8, <1>9 DEF QueueInv

\* mdx_callout_cancel, also from a callout function, keeps the queue invariant.
LEMMA CancelQueue ==
  ASSUME QueueInv, NEW c \in Callouts, cancel_locked(c),
         pc \in {"idle", "lock", "func"},
         pc' \in {pc, "loop"},
         pc' = "loop" => pc = "func",
         cur' \in {cur, tmp},
         c0' \in {c0, NULL},
         UNCHANGED <<cstate, tmr_state, count_saved, hardware, elapsed, pos,
                     tmp, lag>>
  PROVE  QueueInv'
<1>1. c \in active /\ OnList(c)
  BY DEF QueueInv, ListIntegrity, cancel_locked
<1> DEFINE r == callouts_list'
<1>2. /\ Index(c) \in 1 .. Len(callouts_list)
      /\ Len(callouts_list) \in Nat
      /\ r \in Seq(Callouts)
      /\ \A i, j \in DOMAIN r : r[i] = r[j] => i = j
      /\ \A d \in Callouts :
           (\E i \in DOMAIN r : r[i] = d) <=> OnList(d) /\ d # c
  <2>1. r = list_remove(c)  BY DEF cancel_locked
  <2> QED  BY <1>1, <2>1, ListRemoveElements DEF QueueInv
<1>3. next(c) \in Callouts \cup {NULL}
  BY <1>1, <1>2, ElementOfSeq DEF next, QueueInv, TypeOK, QueueTypeOK
<1>4. ticks' \in [Callouts -> 0 .. WordMax]
  <2>1. CASE next(c) = NULL
    BY <2>1 DEF QueueInv, TypeOK, QueueTypeOK, cancel_locked
  <2>2. CASE next(c) # NULL
    <3>1. next(c) \in Callouts  BY <1>3, <2>2
    <3> DEFINE n == next(c)
    <3>2. WordAdd(ticks[n], ticks[c]) \in 0 .. WordMax
      BY <3>1, CalloutAssumption DEF QueueInv, TypeOK, QueueTypeOK, WordAdd
    <3>3. ticks' = [ticks EXCEPT ![n] = WordAdd(ticks[n], ticks[c])]
      BY <2>2, <3>1 DEF cancel_locked, QueueInv, TypeOK, QueueTypeOK
    <3> HIDE DEF n
    <3> QED  BY <3>2, <3>3 DEF QueueInv, TypeOK, QueueTypeOK
  <2> QED  BY <2>1, <2>2
<1>5. TypeOK'
  <2>1. QueueTypeOK'
    BY <1>2, <1>4 DEF QueueInv, TypeOK, QueueTypeOK, cancel_locked
  <2>2. TimerTypeOK'
    BY DEF QueueInv, TypeOK, TimerTypeOK, hardware
  <2>3. LocalTypeOK'
    BY DEF QueueInv, TypeOK, LocalTypeOK, cancel_locked, PCs
  <2> QED  BY <2>1, <2>2, <2>3 DEF TypeOK
<1>6. ListIntegrity'
  <2>1. active' = active \ {c}
    BY DEF cancel_locked
  <2>2. \A d \in Callouts : OnList(d)' <=> OnList(d) /\ d # c
    BY <1>2 DEF OnList
  <2>3. \A d \in Callouts : OnList(d) <=> d \in active
    BY DEF QueueInv, ListIntegrity
  <2> QED  BY <1>2, <2>1, <2>2, <2>3 DEF ListIntegrity
<1>7. Shape'
  <2>1. tmr_state # "ready"
    BY <1>1 DEF QueueInv, Shape, OnList
  <2> QED  BY <2>1 DEF QueueInv, Shape
<1> QED  BY <1>5, <1>6, <1>7 DEF QueueInv

\* Taking a callout off the list to call its function keeps the queue invariant.
LEMMA FireQueue ==
  ASSUME QueueInv, callback_fire
  PROVE  QueueInv'
<1>1. cur \in Callouts /\ tmr_state = "exception" /\ pc = "loop" /\ pc' = "func"
  BY DEF QueueInv, TypeOK, LocalTypeOK, Shape, callback_fire
<1> DEFINE r == callouts_list'
<1>2. /\ r \in Seq(Callouts)
      /\ \A i, j \in DOMAIN r : r[i] = r[j] => i = j
      /\ \A d \in Callouts :
           (\E i \in DOMAIN r : r[i] = d) <=> OnList(d) /\ d # cur
  <2>1. r = list_remove(cur)  BY DEF callback_fire
  <2>2. CASE OnList(cur)
    BY <1>1, <2>1, <2>2, ListRemoveElements DEF QueueInv
  <2>3. CASE ~OnList(cur)
    BY <2>1, <2>3
    DEF list_remove, QueueInv, TypeOK, QueueTypeOK, ListIntegrity, OnList
  <2> QED  BY <2>2, <2>3
<1>3. next(cur) \in Callouts \cup {NULL}
  <2>1. CASE OnList(cur)
    BY <1>1, <2>1, ListRemoveElements, ElementOfSeq
    DEF next, QueueInv, TypeOK, QueueTypeOK
  <2>2. CASE ~OnList(cur)
    BY <1>1, <2>2 DEF next
  <2> QED  BY <2>1, <2>2
<1>4. elapsed' \in 0 .. WordMax
  BY <1>1, CalloutAssumption
  DEF QueueInv, TypeOK, QueueTypeOK, LocalTypeOK, callback_fire
<1>5. TypeOK'
  <2>1. QueueTypeOK'
    BY <1>1, <1>2, CalloutAssumption
    DEF QueueInv, TypeOK, QueueTypeOK, callback_fire
  <2>2. TimerTypeOK'
    BY DEF QueueInv, TypeOK, TimerTypeOK, callback_fire, hardware
  <2>3. LocalTypeOK'
    BY <1>1, <1>3, <1>4 DEF QueueInv, TypeOK, LocalTypeOK, callback_fire, PCs
  <2> QED  BY <2>1, <2>2, <2>3 DEF TypeOK
<1>6. ListIntegrity'
  <2>1. active' = active \ {cur}
    BY DEF callback_fire
  <2>2. \A d \in Callouts : OnList(d)' <=> OnList(d) /\ d # cur
    BY <1>2 DEF OnList
  <2>3. \A d \in Callouts : OnList(d) <=> d \in active
    BY <1>1 DEF QueueInv, ListIntegrity
  <2> QED  BY <1>1, <1>2, <2>1, <2>2, <2>3 DEF ListIntegrity
<1>7. Shape'
  BY <1>1 DEF QueueInv, Shape, callback_fire
<1> QED  BY <1>5, <1>6, <1>7 DEF QueueInv

\* Leaving the loop of mdx_callout_callback keeps the queue invariant.
LEMMA BreakQueue ==
  ASSUME QueueInv, callback_break
  PROVE  QueueInv'
<1>1. ticks' \in [Callouts -> 0 .. WordMax]
  <2>1. CASE cur = NULL
    BY <2>1 DEF QueueInv, TypeOK, QueueTypeOK, callback_break
  <2>2. CASE cur # NULL
    <3>1. cur \in Callouts
      BY <2>2 DEF QueueInv, TypeOK, LocalTypeOK
    <3>2. ticks[cur] - elapsed \in 0 .. WordMax
      BY <2>2, <3>1, CalloutAssumption
      DEF QueueInv, TypeOK, QueueTypeOK, LocalTypeOK, callback_break
    <3> QED  BY <2>2, <3>1, <3>2 DEF QueueInv, TypeOK, QueueTypeOK, callback_break
  <2> QED  BY <2>1, <2>2
<1>2. TypeOK'
  <2>1. QueueTypeOK'
    BY <1>1 DEF QueueInv, TypeOK, QueueTypeOK, callback_break
  <2>2. TimerTypeOK'
    BY DEF QueueInv, TypeOK, TimerTypeOK, callback_break, hardware
  <2>3. LocalTypeOK'
    BY DEF QueueInv, TypeOK, LocalTypeOK, callback_break, locals, PCs
  <2> QED  BY <2>1, <2>2, <2>3 DEF TypeOK
<1>3. ListIntegrity'
  BY DEF QueueInv, ListIntegrity, OnList, callback_break
<1>4. Shape'
  BY DEF QueueInv, Shape, callback_break
<1> QED  BY <1>2, <1>3, <1>4 DEF QueueInv

\* Programming or stopping the timer at the end of mdx_callout_callback keeps
\* the queue invariant.
LEMMA RestartQueue ==
  ASSUME QueueInv, callback_restart
  PROVE  QueueInv'
<1>1. /\ count' = count
      /\ compare' \in (0 .. MaxCnt) \cup {NULL}
      /\ irq' \in {"clear", "raised"}
      /\ tmr_state' \in {"ready", "running"}
      /\ tmr_state' = "ready" => callouts_list = <<>>
  <2>1. CASE callouts_list # <<>>
    <3>1. first # NULL /\ first \in Callouts
      BY <2>1, FirstElement, CalloutAssumption DEF QueueInv
    <3>2. ticks[first] \in 0 .. WordMax
      BY <3>1 DEF QueueInv, TypeOK, QueueTypeOK
    <3>3. mi_tmr_start(ticks[first]) /\ tmr_state' = "running"
      BY <3>1 DEF callback_restart, CallbackEnd
    <3> QED  BY <3>2, <3>3, StartType DEF QueueInv, TypeOK, TimerTypeOK
  <2>2. CASE callouts_list = <<>>
    BY <2>2 DEF callback_restart, CallbackEnd, first, mi_tmr_stop
  <2> QED  BY <2>1, <2>2
<1>2. pc' = "idle" /\ lag' \in {lag, 0} /\ elapsed' = 0 /\ cur' = NULL /\ tmp' = NULL
  BY DEF callback_restart, CallbackEnd, Leave
<1>3. TypeOK'
  <2>1. QueueTypeOK'
    BY DEF QueueInv, TypeOK, QueueTypeOK, callback_restart, CallbackEnd
  <2>2. TimerTypeOK'
    BY <1>1, <1>2 DEF QueueInv, TypeOK, TimerTypeOK, callback_restart, CallbackEnd
  <2>3. LocalTypeOK'
    BY <1>2, CalloutAssumption DEF QueueInv, TypeOK, LocalTypeOK, callback_restart, CallbackEnd, PCs
  <2> QED  BY <2>1, <2>2, <2>3 DEF TypeOK
<1>4. ListIntegrity'
  BY <1>2 DEF QueueInv, ListIntegrity, OnList, callback_restart, CallbackEnd
<1>5. Shape'
  BY <1>1, <1>2 DEF QueueInv, Shape, callback_restart, CallbackEnd
<1> QED  BY <1>3, <1>4, <1>5 DEF QueueInv

\* Taking the timer interrupt keeps the queue invariant.
LEMMA IntrQueue ==
  ASSUME QueueInv, TimerIntr
  PROVE  QueueInv'
<1>1. Elapsed \in 0 .. MaxCnt
  BY ElapsedType DEF QueueInv, TypeOK, TimerTypeOK, Elapsed
<1>2. /\ elapsed' \in {elapsed, Elapsed}
      /\ count_saved' \in {count_saved, count}
      /\ lag' \in {lag, 0}
      /\ compare' = NULL /\ irq' = "clear"
      /\ \/ pc' = "idle" /\ tmr_state' = tmr_state
         \/ pc' = "lock" /\ tmr_state' = "exception"
      /\ pc = "idle"
  BY DEF TimerIntr, Leave
<1>3. TypeOK'
  <2>1. QueueTypeOK'
    BY DEF QueueInv, TypeOK, QueueTypeOK, TimerIntr
  <2>2. TimerTypeOK'
    BY <1>2 DEF QueueInv, TypeOK, TimerTypeOK, TimerIntr
  <2>3. elapsed' \in 0 .. WordMax
    BY <1>1, <1>2, CalloutAssumption DEF QueueInv, TypeOK, LocalTypeOK
  <2>4. LocalTypeOK'
    BY <1>2, <2>3 DEF QueueInv, TypeOK, LocalTypeOK, TimerIntr, PCs
  <2> QED  BY <2>1, <2>2, <2>4 DEF TypeOK
<1>4. ListIntegrity'
  BY <1>2 DEF QueueInv, ListIntegrity, OnList, TimerIntr
<1>5. Shape'
  BY <1>2 DEF QueueInv, Shape, TimerIntr
<1> QED  BY <1>3, <1>4, <1>5 DEF QueueInv

\* The counter advancing keeps the queue invariant.
LEMMA TickQueue ==
  ASSUME QueueInv, TimerTick
  PROVE  QueueInv'
<1>1. count' \in 0 .. MaxCnt /\ irq' \in {irq, "raised"} /\ lag' \in {lag + 1, 0}
  BY CalloutAssumption DEF QueueInv, TypeOK, TimerTypeOK, TimerTick
<1>2. left' \in [Callouts -> Int]
  BY DEF QueueInv, TypeOK, LocalTypeOK, TimerTick
<1>3. TypeOK'
  <2>1. QueueTypeOK'
    BY DEF QueueInv, TypeOK, QueueTypeOK, TimerTick
  <2>2. TimerTypeOK'
    BY <1>1 DEF QueueInv, TypeOK, TimerTypeOK, TimerTick
  <2>3. LocalTypeOK'
    BY <1>2 DEF QueueInv, TypeOK, LocalTypeOK, TimerTick, locals
  <2> QED  BY <2>1, <2>2, <2>3 DEF TypeOK
<1>4. ListIntegrity'
  BY DEF QueueInv, ListIntegrity, OnList, TimerTick, locals
<1>5. Shape'
  BY DEF QueueInv, Shape, TimerTick, locals
<1> QED  BY <1>3, <1>4, <1>5 DEF QueueInv

\* Every step keeps the queue invariant.
LEMMA QueueInvNext == QueueInv /\ [Next]_vars => QueueInv'
<1> SUFFICES ASSUME QueueInv, [Next]_vars PROVE QueueInv'
  OBVIOUS
<1>1. ASSUME NEW c \in Callouts, NEW t \in SetTicks, mdx_callout_set_ticks(c, t)
      PROVE  QueueInv'
  <2>1. t \in 0 .. WordMax
    BY CalloutAssumption
  <2>2. cstate' \in [Callouts -> {"ready", "fired"}]
    BY <1>1 DEF mdx_callout_set_ticks, QueueInv, TypeOK, QueueTypeOK
  <2> QED  BY <1>1, <2>1, <2>2, SetBeginQueue DEF mdx_callout_set_ticks
<1>2. ASSUME NEW c \in Callouts, mdx_callout_set_zero(c)
      PROVE  QueueInv'
  <2>1. QueueTypeOK'
    BY <1>2 DEF mdx_callout_set_zero, QueueInv, TypeOK, QueueTypeOK
  <2>2. TimerTypeOK'
    BY <1>2 DEF mdx_callout_set_zero, QueueInv, TypeOK, TimerTypeOK, hardware
  <2>3. LocalTypeOK'
    BY <1>2 DEF mdx_callout_set_zero, QueueInv, TypeOK, LocalTypeOK, locals
  <2>4. ListIntegrity'
    BY <1>2 DEF mdx_callout_set_zero, QueueInv, ListIntegrity, OnList, locals
  <2>5. Shape'
    BY <1>2 DEF mdx_callout_set_zero, QueueInv, Shape, locals
  <2> QED  BY <2>1, <2>2, <2>3, <2>4, <2>5 DEF QueueInv, TypeOK
<1>3. ASSUME NEW c \in Callouts, NEW t \in RearmTicks,
             mdx_callout_set_ticks_locked(c, t)
      PROVE  QueueInv'
  <2>1. t \in 0 .. WordMax
    BY CalloutAssumption
  <2>2. cstate' \in [Callouts -> {"ready", "fired"}]
    BY <1>3 DEF mdx_callout_set_ticks_locked, QueueInv, TypeOK, QueueTypeOK
  <2> QED  BY <1>3, <2>1, <2>2, SetBeginQueue DEF mdx_callout_set_ticks_locked
<1>4. CASE set_one_skip  BY <1>4, SkipQueue
<1>5. CASE set_one_insert  BY <1>5, InsertQueue
<1>6. CASE set_one_start  BY <1>6, StartQueue
<1>7. ASSUME NEW c \in Callouts, mdx_callout_cancel(c)
      PROVE  QueueInv'
  BY <1>7, CancelQueue DEF mdx_callout_cancel, locals
<1>8. ASSUME NEW c \in Callouts, func_cancel(c)
      PROVE  QueueInv'
  BY <1>8, CancelQueue DEF func_cancel, FuncReturn
<1>9. CASE TimerIntr  BY <1>9, IntrQueue
<1>10. CASE callback_lock
  <2>1. first \in Callouts \cup {NULL}
    BY FirstElement DEF QueueInv, first
  <2>2. QueueTypeOK'
    BY <1>10 DEF callback_lock, QueueInv, TypeOK, QueueTypeOK
  <2>3. TimerTypeOK'
    BY <1>10 DEF callback_lock, QueueInv, TypeOK, TimerTypeOK, hardware
  <2>4. LocalTypeOK'
    BY <1>10, <2>1 DEF callback_lock, QueueInv, TypeOK, LocalTypeOK, PCs
  <2>5. ListIntegrity'
    BY <1>10 DEF callback_lock, QueueInv, ListIntegrity, OnList
  <2>6. Shape'
    BY <1>10 DEF callback_lock, QueueInv, Shape
  <2> QED  BY <2>2, <2>3, <2>4, <2>5, <2>6 DEF QueueInv, TypeOK
<1>11. CASE callback_fire  BY <1>11, FireQueue
<1>12. CASE func_return
  <2>1. QueueTypeOK'
    BY <1>12 DEF func_return, QueueInv, TypeOK, QueueTypeOK
  <2>2. TimerTypeOK'
    BY <1>12 DEF func_return, FuncReturn, QueueInv, TypeOK, TimerTypeOK, hardware
  <2>3. LocalTypeOK'
    BY <1>12 DEF func_return, FuncReturn, QueueInv, TypeOK, LocalTypeOK, PCs
  <2>4. ListIntegrity'
    BY <1>12 DEF func_return, FuncReturn, QueueInv, ListIntegrity, OnList
  <2>5. Shape'
    BY <1>12 DEF func_return, FuncReturn, QueueInv, Shape
  <2> QED  BY <2>1, <2>2, <2>3, <2>4, <2>5 DEF QueueInv, TypeOK
<1>13. CASE callback_break  BY <1>13, BreakQueue
<1>14. CASE callback_restart  BY <1>14, RestartQueue
<1>15. CASE TimerTick  BY <1>15, TickQueue
<1>16. CASE UNCHANGED vars
  <2>1. TypeOK'
    BY <1>16 DEF vars, hardware, locals, QueueInv, TypeOK, QueueTypeOK,
                 TimerTypeOK, LocalTypeOK
  <2>2. ListIntegrity'
    BY <1>16 DEF vars, locals, QueueInv, ListIntegrity, OnList
  <2>3. Shape'
    BY <1>16 DEF vars, locals, QueueInv, Shape
  <2> QED  BY <2>1, <2>2, <2>3 DEF QueueInv
<1> QED
  BY <1>1, <1>2, <1>3, <1>4, <1>5, <1>6, <1>7, <1>8, <1>9, <1>10, <1>11,
     <1>12, <1>13, <1>14, <1>15, <1>16
  DEF Next

\* The queue invariant holds in every reachable state, whatever the constants:
\* also with callout functions that set and cancel callouts.
THEOREM QueueInvariant == Spec => []QueueInv
BY QueueInvInit, QueueInvNext, PTL DEF Spec

\* The types hold: ticks of every callout stay uint32_t (the subtractions of
\* mdx_callout_set_one and mdx_callout_callback never underflow) and the timer
\* registers stay in range.
THEOREM TypeCorrect == Spec => []TypeOK
BY QueueInvariant, PTL DEF QueueInv

\* CALLOUT_FLAG_ACTIVE and the list agree, and no callout is linked twice, after
\* any interleaving of sets, cancels and timer interrupts.
THEOREM ListIntegrityHolds == Spec => []ListIntegrity
BY QueueInvariant, PTL DEF QueueInv

-----------------------------------------------------------------------------
\* The timer will interrupt.
Programmed == irq = "raised" \/ compare # NULL

\* A running timer with something to wait for is programmed; while a callout
\* that became the first one is being set it need not be yet.
ArmedInv ==
  tmr_state = "running" =>
    /\ pc \in {"idle", "walk"} /\ callouts_list # <<>> => Programmed
    /\ pc = "armed" /\ first # c0 => Programmed

\* What the type of the list says of its elements.
LEMMA ListFacts ==
  ASSUME QueueInv
  PROVE  /\ callouts_list \in Seq(Callouts)
         /\ Len(callouts_list) \in Nat
         /\ DOMAIN callouts_list = 1 .. Len(callouts_list)
         /\ \A i \in 1 .. Len(callouts_list) : callouts_list[i] \in Callouts
         /\ callouts_list = <<>> <=> Len(callouts_list) = 0
BY LenProperties, ElementOfSeq, EmptySeq DEF QueueInv, TypeOK, QueueTypeOK

\* mi_tmr_start leaves the timer programmed.
LEMMA StartProgrammed ==
  ASSUME QueueInv, NEW n \in 0 .. WordMax, mi_tmr_start(n)
  PROVE  compare' # NULL
<1>1. TypeOK
  BY DEF QueueInv
<1>2. compare' \in 0 .. MaxCnt
  BY <1>1, StartType
<1> QED  BY <1>2, CalloutAssumption

\* Every step keeps a timer with something to wait for programmed.
LEMMA ArmedInvNext == QueueInv /\ ArmedInv /\ [Next]_vars => ArmedInv'
<1> SUFFICES ASSUME QueueInv, ArmedInv, [Next]_vars PROVE ArmedInv'
  OBVIOUS
<1>1. ASSUME NEW c \in Callouts, NEW t \in SetTicks, mdx_callout_set_ticks(c, t)
      PROVE  ArmedInv'
  BY <1>1 DEF mdx_callout_set_ticks, set_begin, ArmedInv, Programmed, hardware
<1>2. ASSUME NEW c \in Callouts, mdx_callout_set_zero(c)
      PROVE  ArmedInv'
  BY <1>2 DEF mdx_callout_set_zero, ArmedInv, Programmed, hardware
<1>3. CASE set_one_skip
  BY <1>3 DEF set_one_skip, ArmedInv, Programmed, hardware, first
<1>4. CASE set_one_insert
  <2>1. callouts_list = <<>> => first' = c0
    <3> SUFFICES ASSUME callouts_list = <<>> PROVE first' = c0
      OBVIOUS
    <3>1. /\ pos \in 1 .. Len(callouts_list) + 1 /\ Len(callouts_list) = 0
          /\ c0 \in Callouts /\ ~OnList(c0)
      BY <1>4, ListFacts DEF set_one_insert, QueueInv, Shape, ListIntegrity
    <3>2. TypeOK /\ ListIntegrity  BY DEF QueueInv
    <3>3. callouts_list' = InsertAt(callouts_list, pos, c0)
      BY <1>4 DEF set_one_insert
    <3>4. callouts_list'[pos] = c0 /\ Len(callouts_list') = 1
      BY <3>1, <3>2, <3>3, ListInsertElements, SMTT(30)
    <3>5. pos = 1  BY <3>1
    <3>6. callouts_list' # <<>>  BY <3>4
    <3> QED  BY <3>4, <3>5, <3>6 DEF first
  <2> QED
    BY <1>4, <2>1 DEF set_one_insert, ArmedInv, Programmed, hardware, locals
<1>5. CASE set_one_start
  <2>1. pc = "armed" /\ c0' = NULL /\ callouts_list' = callouts_list
    BY <1>5 DEF set_one_start
  <2>2. CASE tmr_state = "running" /\ c0 # first
    BY <1>5, <2>1, <2>2
    DEF set_one_start, InCallback, Leave, ArmedInv, Programmed, hardware
  <2>3. CASE tmr_state = "running" /\ c0 = first
    <3>1. ticks[c0] \in 0 .. WordMax /\ elapsed \in 0 .. WordMax
      BY <2>1 DEF QueueInv, TypeOK, QueueTypeOK, LocalTypeOK, Shape
    <3>2. WordSub(ticks[c0], elapsed) \in 0 .. WordMax
      BY <3>1, CalloutAssumption DEF WordSub
    <3>3. mi_tmr_start(WordSub(ticks[c0], elapsed)) /\ pc' = "idle"
      BY <1>5, <2>3 DEF set_one_start, InCallback, Leave
    <3>4. compare' # NULL
      BY <3>2, <3>3, StartProgrammed
    <3> QED  BY <3>3, <3>4 DEF ArmedInv, Programmed
  <2>4. CASE tmr_state = "ready"
    <3>1. first \in Callouts
      BY <2>1, ListFacts, FirstElement
      DEF QueueInv, ListIntegrity, OnList, Shape, first
    <3>2. ticks[first] \in 0 .. WordMax
      BY <3>1 DEF QueueInv, TypeOK, QueueTypeOK
    <3>3. mi_tmr_start(ticks[first]) /\ pc' = "idle"
      BY <1>5, <2>4 DEF set_one_start, InCallback, Leave
    <3>4. compare' # NULL
      BY <3>2, <3>3, StartProgrammed
    <3> QED  BY <3>3, <3>4 DEF ArmedInv, Programmed
  <2>5. CASE InCallback
    BY <1>5, <2>5 DEF set_one_start, InCallback, ArmedInv
  <2> QED
    BY <2>2, <2>3, <2>4, <2>5 DEF InCallback, QueueInv, TypeOK, TimerTypeOK
<1>6. ASSUME NEW c \in Callouts, mdx_callout_cancel(c)
      PROVE  ArmedInv'
  <2>1. callouts_list # <<>>
    BY <1>6 DEF mdx_callout_cancel, cancel_locked, QueueInv, ListIntegrity, OnList
  <2> QED
    BY <1>6, <2>1 DEF mdx_callout_cancel, ArmedInv, Programmed, hardware
<1>7. CASE TimerIntr
  BY <1>7 DEF TimerIntr, Leave, ArmedInv
<1>8. CASE callback_restart
  <2>1. CASE first # NULL
    <3>1. ticks[first] \in 0 .. WordMax
      BY <2>1, FirstElement DEF QueueInv, TypeOK, QueueTypeOK, first
    <3>2. mi_tmr_start(ticks[first]) /\ pc' = "idle"
      BY <1>8, <2>1 DEF callback_restart, CallbackEnd, Leave
    <3>3. compare' # NULL
      BY <3>1, <3>2, StartProgrammed
    <3> QED  BY <3>2, <3>3 DEF ArmedInv, Programmed
  <2>2. CASE first = NULL
    BY <1>8, <2>2 DEF callback_restart, CallbackEnd, ArmedInv
  <2> QED  BY <2>1, <2>2
<1>9. CASE TimerTick
  <2>1. /\ pc' = pc /\ callouts_list' = callouts_list /\ tmr_state' = tmr_state
        /\ c0' = c0 /\ compare' = compare /\ irq' \in {irq, "raised"}
    BY <1>9 DEF TimerTick, locals
  <2>2. Programmed => Programmed'
    BY <2>1 DEF Programmed
  <2>3. first' = first
    BY <2>1 DEF first
  <2> QED  BY <2>1, <2>2, <2>3 DEF ArmedInv
<1>10. ASSUME pc \in {"lock", "loop", "func"}, tmr_state' = tmr_state
       PROVE  ArmedInv'
  BY <1>10 DEF QueueInv, Shape, ArmedInv
<1>11. CASE UNCHANGED vars
  BY <1>11 DEF vars, hardware, locals, ArmedInv, Programmed, first
<1> QED
  BY <1>1, <1>2, <1>3, <1>4, <1>5, <1>6, <1>7, <1>8, <1>9, <1>10, <1>11
  DEF Next, mdx_callout_set_ticks_locked, func_cancel, callback_lock,
      callback_fire, func_return, callback_break

\* A queue that is not empty never loses its interrupt, whatever callout
\* functions set or cancel, although mdx_callout_cancel never reprograms the
\* timer.
THEOREM TimerArmedHolds == Spec => []TimerArmed
<1>1. Init => ArmedInv
  BY DEF Init, ArmedInv
<1>2. QueueInv /\ ArmedInv => TimerArmed
  BY DEF QueueInv, Shape, TypeOK, TimerTypeOK, ArmedInv, Programmed, TimerArmed
<1> QED  BY <1>1, <1>2, ArmedInvNext, QueueInvariant, PTL DEF Spec

-----------------------------------------------------------------------------
\* What the loop of mdx_callout_callback looks at next is still pending.
NextPending ==
  /\ pc = "loop" /\ cur # NULL => cur \in active
  /\ pc \in {"func", "walk", "armed"} /\ tmr_state = "exception" /\ tmp # NULL
       => tmp \in active

\* Every step keeps the next callout of the loop pending.
LEMMA NextPendingNext ==
  ASSUME ~CbCancel, QueueInv, NextPending, [Next]_vars
  PROVE  NextPending'
<1>1. ASSUME NEW c \in Callouts, NEW t \in SetTicks, mdx_callout_set_ticks(c, t)
      PROVE  NextPending'
  BY <1>1 DEF mdx_callout_set_ticks, set_begin, NextPending, QueueInv, Shape
<1>2. ASSUME NEW c \in Callouts, mdx_callout_set_zero(c)
      PROVE  NextPending'
  BY <1>2 DEF mdx_callout_set_zero, NextPending
<1>3. ASSUME NEW c \in Callouts, NEW t \in RearmTicks,
             mdx_callout_set_ticks_locked(c, t)
      PROVE  NextPending'
  BY <1>3 DEF mdx_callout_set_ticks_locked, set_begin, NextPending
<1>4. CASE set_one_skip
  BY <1>4 DEF set_one_skip, NextPending
<1>5. CASE set_one_insert
  BY <1>5 DEF set_one_insert, locals, NextPending
<1>6. CASE set_one_start
  BY <1>6 DEF set_one_start, InCallback, Leave, FuncReturn, NextPending
<1>7. ASSUME NEW c \in Callouts, mdx_callout_cancel(c)
      PROVE  NextPending'
  BY <1>7 DEF mdx_callout_cancel, NextPending
<1>8. CASE TimerIntr
  BY <1>8 DEF TimerIntr, Leave, NextPending
<1>9. CASE callback_lock
  <2>1. first # NULL => OnList(first)
    BY FirstElement DEF QueueInv, first
  <2>2. first # NULL => first \in Callouts
    BY FirstElement DEF QueueInv, first
  <2>3. pc = "lock"
    BY <1>9 DEF callback_lock
  <2> QED
    BY <1>9, <2>1, <2>2, <2>3
    DEF callback_lock, NextPending, QueueInv, ListIntegrity
<1>10. CASE callback_fire
  <2>1. /\ cur \in active /\ cur \in Callouts /\ pc = "loop" /\ pc' = "func"
        /\ tmp' = next(cur) /\ active' = active \ {cur}
    BY <1>10 DEF callback_fire, NextPending, QueueInv, TypeOK, LocalTypeOK
  <2>2. OnList(cur)
    BY <2>1 DEF QueueInv, ListIntegrity
  <2>3. /\ Index(cur) \in 1 .. Len(callouts_list)
        /\ callouts_list[Index(cur)] = cur
    BY <2>2, IndexElement, ListFacts
  <2>4. ASSUME next(cur) # NULL
        PROVE  next(cur) \in active /\ next(cur) # cur
    <3>1. next(cur) = callouts_list[Index(cur) + 1] /\ Index(cur) # Len(callouts_list)
      BY <2>2, <2>4 DEF next
    <3>2. Index(cur) + 1 \in 1 .. Len(callouts_list)
      BY <2>3, <3>1, ListFacts
    <3>3. OnList(next(cur)) /\ next(cur) \in Callouts
      BY <3>1, <3>2, ListFacts DEF OnList
    <3>4. next(cur) \in active
      BY <2>1, <3>3 DEF QueueInv, ListIntegrity
    <3>5. next(cur) # cur
      <4>1. Index(cur) + 1 # Index(cur)  BY <2>3
      <4> QED  BY <2>3, <3>1, <3>2, <4>1, ListFacts DEF QueueInv, ListIntegrity
    <3> QED  BY <3>4, <3>5
  <2> QED  BY <2>1, <2>4 DEF NextPending
<1>11. CASE func_return
  BY <1>11 DEF func_return, FuncReturn, NextPending, QueueInv, Shape
<1>12. CASE callback_break
  BY <1>12 DEF callback_break, NextPending
<1>13. CASE callback_restart
  BY <1>13 DEF callback_restart, CallbackEnd, Leave, NextPending
<1>14. CASE TimerTick
  BY <1>14 DEF TimerTick, locals, NextPending
<1>15. CASE UNCHANGED vars
  BY <1>15 DEF vars, locals, NextPending
<1> QED
  BY <1>1, <1>2, <1>3, <1>4, <1>5, <1>6, <1>7, <1>8, <1>9, <1>10, <1>11, <1>12,
     <1>13, <1>14, <1>15 DEF Next, func_cancel

\* Only pending callouts are called, also when callout functions set callouts,
\* provided that they cancel none: tmp is then never a callout that has gone.
THEOREM FiresOnlyPendingHolds ==
  ASSUME ~CbCancel
  PROVE  Spec => FiresOnlyPending
<1>1. Init => NextPending
  BY DEF Init, NextPending
<1>2. QueueInv /\ NextPending /\ [Next]_vars => NextPending'
  BY NextPendingNext
<1>3. NextPending /\ [Next]_vars
        => [(pc = "loop" /\ pc' = "func") => cur \in active]_vars
  <2> SUFFICES ASSUME NextPending, Next, pc = "loop", pc' = "func"
               PROVE  cur \in active
    OBVIOUS
  <2>1. callback_fire
    BY DEF Next, mdx_callout_set_ticks, mdx_callout_set_zero, set_begin,
           mdx_callout_set_ticks_locked, set_one_skip, set_one_insert,
           set_one_start, mdx_callout_cancel, func_cancel, TimerIntr,
           callback_lock, func_return, callback_break, callback_restart, CallbackEnd,
           TimerTick
  <2> QED  BY <2>1 DEF callback_fire, NextPending
<1>4. Spec => []QueueInv
  BY QueueInvariant
<1> QED  BY <1>1, <1>2, <1>3, <1>4, PTL DEF Spec, FiresOnlyPending

-----------------------------------------------------------------------------
(***************************************************************************)
(* The proof that no callout fires early.                                  *)
(*                                                                         *)
(* The delta list is explained by a schedule: a time for every pending     *)
(* callout, counted from the moment count_saved was read.  The invariant   *)
(* is that such a schedule exists and that it promises no callout before   *)
(* the end of its interval.  Each action is shown to keep a schedule; the  *)
(* witness only changes where a callout is set and where the interrupt     *)
(* moves the origin.                                                       *)
(***************************************************************************)

\* The elapsed ticks that the loop of mdx_callout_callback still has to
\* take off the list.
Offset == IF pc \in {"lock", "loop", "func"} THEN elapsed ELSE 0

\* How far the counter is from count_saved, the origin of the list.
Reference == IF tmr_state = "ready" THEN 0 ELSE Elapsed

\* at[c] is the time of callout c on the scale whose origin is count_saved.
\* The ticks of the first callout are its time...
HeadOk(at) ==
  callouts_list # <<>> =>
    ticks[callouts_list[1]] = at[callouts_list[1]] + Offset

\* ... those of every other one the distance from its predecessor...
DeltaOk(at) ==
  \A i \in 1 .. Len(callouts_list) - 1 :
    ticks[callouts_list[i + 1]] = at[callouts_list[i + 1]] - at[callouts_list[i]]

\* ... the list is in the order of the times...
SortedOk(at) ==
  \A i, j \in 1 .. Len(callouts_list) :
    i <= j => at[callouts_list[i]] <= at[callouts_list[j]]

\* ... and during the walk c0->ticks counts from the node before the place
\* that the walk has reached.
WalkOk(at) ==
  pc = "walk" =>
    /\ pos = 1 => ticks[c0] = at[c0]
    /\ pos > 1 => ticks[c0] = at[c0] - at[callouts_list[pos - 1]]

\* The times fit a uint32_t, so no sum of ticks overflows.
RangeOk(at) ==
  \A c \in Callouts : Pending(c) => at[c] + Offset \in 0 .. WordMax

\* The time of a callout is not before the interval its caller asked for ends.
DeadlineOk(at) ==
  \A c \in Callouts :
    Pending(c) /\ left[c] > 0 => at[c] >= left[c] + Reference

\* The list stands for the times at.
Schedule(at) ==
  /\ HeadOk(at) /\ DeltaOk(at) /\ SortedOk(at)
  /\ WalkOk(at) /\ RangeOk(at) /\ DeadlineOk(at)

\* When callout functions neither set nor cancel callouts, the loop of
\* mdx_callout_callback always looks at the first callout of the list.
CursorInv ==
  /\ pc \in {"walk", "armed"} => tmr_state # "exception"
  /\ pc = "loop" => cur = first
  /\ pc = "func" => tmp = first

\* The inductive invariant behind NeverEarly: some schedule explains the list.
EarlyInv == CursorInv /\ \E at \in [Callouts -> Int] : Schedule(at)

\* Callers keep elapsed + ticks within a uint32_t: because they stay within the
\* lap of the counter, or because the counter is narrower than 32 bits.
NoOverflow == LapSafe \/ \A t \in SetTicks : t + MaxCnt <= WordMax

\* One tick of the counter adds at most one to what get_elapsed returns; it
\* adds nothing when the counter wraps.
LEMMA ElapsedStep ==
  ASSUME NEW s \in 0 .. MaxCnt, NEW n \in 0 .. MaxCnt, NEW m,
         m = IF n = MaxCnt THEN 0 ELSE n + 1
  PROVE  get_elapsed(s, m) <= get_elapsed(s, n) + 1
BY CalloutAssumption DEF get_elapsed

\* The empty queue stands for any schedule.
LEMMA EarlyInit == Init => EarlyInv
<1> SUFFICES ASSUME Init PROVE EarlyInv
  OBVIOUS
<1> DEFINE at == [c \in Callouts |-> 0]
<1>1. at \in [Callouts -> Int]
  OBVIOUS
<1>2. callouts_list = <<>> /\ Len(callouts_list) = 0 /\ pc = "idle" /\ active = {}
  BY DEF Init
<1>3. HeadOk(at) /\ DeltaOk(at) /\ SortedOk(at) /\ WalkOk(at)
  BY <1>2 DEF HeadOk, DeltaOk, SortedOk, WalkOk
<1>4. RangeOk(at) /\ DeadlineOk(at)
  BY <1>2 DEF RangeOk, DeadlineOk, Pending
<1>5. CursorInv
  BY <1>2 DEF CursorInv
<1> QED  BY <1>1, <1>3, <1>4, <1>5 DEF EarlyInv, Schedule

\* A callout that is being set is scheduled ticks + elapsed after count_saved.
LEMMA SetBeginSchedule ==
  ASSUME QueueInv, NEW at \in [Callouts -> Int], Schedule(at),
         NoOverflow, NEW c \in Callouts, NEW t \in SetTicks,
         mdx_callout_set_ticks(c, t)
  PROVE  \E bt \in [Callouts -> Int] :
           /\ Schedule(bt)'
           /\ bt = [at EXCEPT ![c] = t + IF tmr_state = "running" THEN Elapsed ELSE 0]
<1> DEFINE e == IF tmr_state = "running" THEN Elapsed ELSE 0
<1>1. e \in 0 .. MaxCnt /\ t \in Nat /\ t + e <= WordMax /\ MaxCnt \in Nat
  <2>1. Elapsed \in 0 .. MaxCnt
    BY ElapsedType DEF QueueInv, TypeOK, TimerTypeOK, Elapsed
  <2>2. t \in 0 .. WordMax /\ e \in 0 .. MaxCnt /\ e \in Nat
    BY <2>1, CalloutAssumption
  <2>3. CASE LapSafe
    <3>1. e + t + MaxLate < MaxCnt
      BY <2>3 DEF mdx_callout_set_ticks, set_begin
    <3>2. MaxLate \in Nat
      BY CalloutAssumption DEF MaxLate
    <3> HIDE DEF e
    <3> QED  BY <2>2, <3>1, <3>2, CalloutAssumption
  <2>4. CASE ~LapSafe
    <3>1. t + MaxCnt <= WordMax
      BY <2>4 DEF NoOverflow
    <3> HIDE DEF e
    <3> QED  BY <2>2, <3>1, CalloutAssumption
  <2> QED  BY <2>3, <2>4
<1>2. /\ ticks' = [ticks EXCEPT ![c] = t + e]
      /\ left' = [left EXCEPT ![c] = t]
      /\ c0' = c /\ pos' = 1 /\ pc' = "walk" /\ pc = "idle"
      /\ callouts_list' = callouts_list /\ active' = active
      /\ tmr_state' = tmr_state /\ count_saved' = count_saved /\ count' = count
  <2>1. WordAdd(t, e) = t + e
    BY <1>1, CalloutAssumption DEF WordAdd
  <2> QED  BY <2>1 DEF mdx_callout_set_ticks, set_begin, hardware
<1>3. Reference' = Reference /\ Reference = e
  BY <1>2 DEF Reference, Elapsed, QueueInv, Shape, TypeOK, TimerTypeOK
<1>4. c \notin active /\ ~OnList(c)
  BY DEF mdx_callout_set_ticks, set_begin, QueueInv, ListIntegrity
<1> HIDE DEF e
<1>5. PICK bt \in [Callouts -> Int] : bt = [at EXCEPT ![c] = t + e]
  <2>1. [at EXCEPT ![c] = t + e] \in [Callouts -> Int]  BY <1>1
  <2> QED  BY <2>1
<1>6. \A i \in 1 .. Len(callouts_list) :
        /\ callouts_list[i] \in Callouts
        /\ callouts_list[i] # c
        /\ bt[callouts_list[i]] = at[callouts_list[i]]
        /\ ticks'[callouts_list[i]] = ticks[callouts_list[i]]
  <2>1. \A i \in 1 .. Len(callouts_list) :
          callouts_list[i] \in Callouts /\ callouts_list[i] # c
    BY <1>4, ListFacts DEF OnList
  <2> QED  BY <1>2, <1>5, <2>1 DEF QueueInv, TypeOK, QueueTypeOK
<1>7. Offset = 0 /\ Offset' = 0
  BY <1>2 DEF Offset
<1>8. HeadOk(bt)'
  <2> SUFFICES ASSUME callouts_list # <<>>
               PROVE  ticks'[callouts_list[1]] = bt[callouts_list[1]] + 0
    BY <1>2, <1>7 DEF HeadOk
  <2>1. 1 \in 1 .. Len(callouts_list)
    BY ListFacts
  <2> QED  BY <1>6, <1>7, <2>1 DEF Schedule, HeadOk
<1>9. DeltaOk(bt)'
  BY <1>2, <1>6, ListFacts DEF Schedule, DeltaOk
<1>10. SortedOk(bt)'
  BY <1>2, <1>6 DEF Schedule, SortedOk
<1>11. WalkOk(bt)'
  BY <1>2, <1>5 DEF WalkOk, QueueInv, TypeOK, QueueTypeOK
<1>12. RangeOk(bt)'
  <2> SUFFICES ASSUME NEW d \in Callouts, Pending(d)'
               PROVE  bt[d] + 0 \in 0 .. WordMax
    BY <1>7 DEF RangeOk
  <2>1. CASE d = c
    BY <1>1, <1>5, <2>1, CalloutAssumption
  <2>2. CASE d # c
    BY <1>2, <1>5, <1>7, <2>2 DEF Pending, Schedule, RangeOk
  <2> QED  BY <2>1, <2>2
<1>13. DeadlineOk(bt)'
  <2> SUFFICES ASSUME NEW d \in Callouts, Pending(d)', left'[d] > 0
               PROVE  bt[d] >= left'[d] + Reference
    BY <1>3 DEF DeadlineOk
  <2>1. CASE d = c
    BY <1>1, <1>2, <1>3, <1>5, <2>1 DEF QueueInv, TypeOK, LocalTypeOK
  <2>2. CASE d # c
    BY <1>2, <1>5, <2>2
    DEF Pending, Schedule, DeadlineOk, QueueInv, TypeOK, LocalTypeOK
  <2> QED  BY <2>1, <2>2
<1>14. Schedule(bt)'
  BY <1>8, <1>9, <1>10, <1>11, <1>12, <1>13 DEF Schedule
<1> QED  BY <1>5, <1>14 DEF e

\* One iteration of the walk keeps the schedule.
LEMMA SkipSchedule ==
  ASSUME QueueInv, NEW at \in [Callouts -> Int], Schedule(at), set_one_skip
  PROVE  Schedule(at)'
<1> DEFINE l == callouts_list
           k == callouts_list[pos]
<1>1. /\ pos \in 1 .. Len(l) /\ Len(l) \in Nat
      /\ c0 \in Callouts /\ ~OnList(c0) /\ k \in Callouts
      /\ pc = "walk" /\ pc' = "walk" /\ pos' = pos + 1
      /\ callouts_list' = l /\ c0' = c0 /\ active' = active
  BY ListFacts DEF QueueInv, TypeOK, LocalTypeOK, Shape, ListIntegrity, set_one_skip
<1>2. ticks' = [ticks EXCEPT ![c0] = ticks[c0] - ticks[k]]
  BY DEF set_one_skip, QueueInv, TypeOK, QueueTypeOK
<1>3. \A i \in 1 .. Len(l) : l[i] \in Callouts /\ l[i] # c0
  BY <1>1, ListFacts DEF OnList
<1>4. \A i \in 1 .. Len(l) : ticks'[l[i]] = ticks[l[i]]
  BY <1>2, <1>3 DEF QueueInv, TypeOK, QueueTypeOK
<1>5. Offset = 0 /\ Offset' = 0
  BY <1>1 DEF Offset
<1>6. HeadOk(at)'
  <2>1. 1 \in 1 .. Len(l) /\ l # <<>>  BY <1>1, ListFacts
  <2>2. ticks[l[1]] = at[l[1]] + 0  BY <1>5, <2>1 DEF Schedule, HeadOk
  <2> QED  BY <1>1, <1>4, <1>5, <2>1, <2>2 DEF HeadOk
<1>7. DeltaOk(at)'
  BY <1>1, <1>4 DEF Schedule, DeltaOk
<1>8. SortedOk(at)'
  BY <1>1 DEF Schedule, SortedOk
<1>9. ticks[k] = IF pos = 1 THEN at[k] ELSE at[k] - at[l[pos - 1]]
  <2>1. CASE pos = 1
    BY <1>1, <1>3, <1>5, <2>1, ListFacts DEF Schedule, HeadOk
  <2>2. CASE pos > 1
    <3>1. pos - 1 \in 1 .. Len(l) - 1 /\ (pos - 1) + 1 = pos
      BY <1>1, <2>2
    <3> QED  BY <1>1, <2>2, <3>1 DEF Schedule, DeltaOk
  <2> QED  BY <1>1, <2>1, <2>2
<1>10. WalkOk(at)'
  <2>1. ticks'[c0] = ticks[c0] - ticks[k]
    BY <1>1, <1>2 DEF QueueInv, TypeOK, QueueTypeOK
  <2>2. ticks[c0] = IF pos = 1 THEN at[c0] ELSE at[c0] - at[l[pos - 1]]
    BY <1>1 DEF Schedule, WalkOk
  <2>3. at[c0] \in Int /\ at[k] \in Int /\ (pos > 1 => at[l[pos - 1]] \in Int)
    BY <1>1, <1>3
  <2>4. ticks'[c0] = at[c0] - at[k]
    BY <1>1, <1>9, <2>1, <2>2, <2>3
  <2>5. pos' > 1 /\ pos' - 1 = pos
    BY <1>1
  <2> QED  BY <1>1, <2>4, <2>5 DEF WalkOk
<1>11. RangeOk(at)'
  BY <1>1, <1>5 DEF Schedule, RangeOk, Pending
<1>12. DeadlineOk(at)'
  <2>1. left' = left /\ Reference' = Reference
    BY DEF set_one_skip, Reference, Elapsed, hardware
  <2> QED  BY <1>1, <2>1 DEF Schedule, DeadlineOk, Pending
<1> QED  BY <1>6, <1>7, <1>8, <1>10, <1>11, <1>12 DEF Schedule

\* Inserting the callout keeps the schedule: the successor gives up the ticks of
\* the new callout.
LEMMA InsertSchedule ==
  ASSUME QueueInv, NEW at \in [Callouts -> Int], Schedule(at), set_one_insert
  PROVE  Schedule(at)'
<1> DEFINE l == callouts_list
           r == callouts_list'
           n == Len(l)
<1>1. /\ pos \in 1 .. n + 1 /\ n \in Nat
      /\ c0 \in Callouts /\ ~OnList(c0)
      /\ pc = "walk" /\ pc' = "armed" /\ c0' = c0 /\ active' = active
  BY ListFacts DEF QueueInv, Shape, ListIntegrity, set_one_insert, locals
<1>2. /\ r \in Seq(Callouts)
      /\ Len(r) = n + 1
      /\ \A j \in 1 .. pos - 1 : r[j] = l[j]
      /\ r[pos] = c0
      /\ \A j \in pos + 1 .. n + 1 : r[j] = l[j - 1]
  <2>1. r = InsertAt(l, pos, c0)  BY DEF set_one_insert
  <2>2. TypeOK /\ ListIntegrity  BY DEF QueueInv
  <2>3. pos \in 1 .. Len(callouts_list) + 1  BY <1>1
  <2>4. ~OnList(c0) /\ c0 \in Callouts  BY <1>1
  <2>5. /\ InsertAt(l, pos, c0) \in Seq(Callouts)
        /\ Len(InsertAt(l, pos, c0)) = n + 1
        /\ \A j \in 1 .. pos - 1 : InsertAt(l, pos, c0)[j] = l[j]
        /\ InsertAt(l, pos, c0)[pos] = c0
        /\ \A j \in pos + 1 .. n + 1 : InsertAt(l, pos, c0)[j] = l[j - 1]
    <3>1. l \in Seq(Callouts)  BY ListFacts
    <3> QED  BY <2>3, <2>4, <3>1, InsertAtElements
  <2> HIDE DEF r
  <2> QED  BY <2>1, <2>5
<1>3. \A i \in 1 .. n : l[i] \in Callouts /\ l[i] # c0
  BY <1>1, ListFacts DEF OnList
<1>4. \A i, j \in 1 .. n : l[i] = l[j] => i = j
  BY ListFacts DEF QueueInv, ListIntegrity
<1>5. Offset = 0 /\ Offset' = 0
  BY <1>1 DEF Offset
<1>6. /\ \A i \in 1 .. n : at[l[i]] \in Int /\ ticks[l[i]] \in Nat
      /\ at[c0] \in Int /\ ticks[c0] \in Nat
  BY <1>1, <1>3, CalloutAssumption DEF QueueInv, TypeOK, QueueTypeOK
<1>7. /\ ticks'[c0] = ticks[c0]
      /\ pos <= n => ticks'[l[pos]] = ticks[l[pos]] - ticks[c0]
      /\ \A i \in 1 .. n : i # pos => ticks'[l[i]] = ticks[l[i]]
  <2>1. CASE pos <= n
    <3>1. pos \in 1 .. n  BY <1>1, <2>1
    <3>2. ticks' = [ticks EXCEPT ![l[pos]] = ticks[l[pos]] - ticks[c0]]
      BY <1>3, <2>1, <3>1 DEF set_one_insert, QueueInv, TypeOK, QueueTypeOK
    <3>3. \A i \in 1 .. n : i # pos => l[i] # l[pos]
      BY <1>4, <3>1
    <3> QED  BY <1>1, <1>3, <3>1, <3>2, <3>3 DEF QueueInv, TypeOK, QueueTypeOK
  <2>2. CASE ~(pos <= n)
    BY <2>2 DEF set_one_insert
  <2> QED  BY <2>1, <2>2
<1>8. ticks[c0] = IF pos = 1 THEN at[c0] ELSE at[c0] - at[l[pos - 1]]
  BY <1>1 DEF Schedule, WalkOk
<1>9. pos <= n => ticks[l[pos]] = IF pos = 1 THEN at[l[pos]]
                                  ELSE at[l[pos]] - at[l[pos - 1]]
  <2>1. CASE pos = 1 /\ pos <= n
    BY <1>1, <1>3, <1>5, <1>6, <2>1, ListFacts DEF Schedule, HeadOk
  <2>2. CASE pos > 1 /\ pos <= n
    <3>1. pos - 1 \in 1 .. n - 1 /\ (pos - 1) + 1 = pos
      BY <1>1, <2>2
    <3> QED  BY <1>1, <2>2, <3>1 DEF Schedule, DeltaOk
  <2> QED  BY <1>1, <2>1, <2>2
<1>10. pos <= n => ticks[l[pos]] > ticks[c0]
  BY DEF set_one_insert
<1>11. pos > 1 => pos - 1 \in 1 .. n /\ at[l[pos - 1]] <= at[c0]
  BY <1>1, <1>6, <1>8
<1>12. pos <= n => pos \in 1 .. n /\ at[c0] <= at[l[pos]]
  BY <1>1, <1>6, <1>8, <1>9, <1>10, <1>11
<1>13. \A i, j \in 1 .. n : i <= j => at[l[i]] <= at[l[j]]
  BY DEF Schedule, SortedOk
<1> HIDE DEF r
<1>14. SortedOk(at)'
  <2> SUFFICES ASSUME NEW i \in 1 .. n + 1, NEW j \in 1 .. n + 1, i <= j
               PROVE  at[r[i]] <= at[r[j]]
    BY <1>1, <1>2 DEF SortedOk, r
  <2>1. CASE i < pos /\ j < pos
    <3>1. i \in 1 .. n /\ j \in 1 .. n  BY <1>1, <2>1
    <3>2. r[i] = l[i] /\ r[j] = l[j]  BY <1>1, <1>2, <2>1
    <3> QED  BY <1>13, <3>1, <3>2
  <2>2. CASE i < pos /\ j = pos
    <3>1. i \in 1 .. n /\ pos - 1 \in 1 .. n /\ i <= pos - 1  BY <1>1, <2>2
    <3>2. at[l[i]] <= at[l[pos - 1]]  BY <1>13, <3>1
    <3>3. r[i] = l[i] /\ r[j] = c0  BY <1>1, <1>2, <2>2
    <3> QED  BY <1>1, <1>6, <1>11, <2>2, <3>1, <3>2, <3>3
  <2>3. CASE i < pos /\ j > pos
    <3>1. i \in 1 .. n /\ j - 1 \in 1 .. n /\ i <= j - 1  BY <1>1, <2>3
    <3>2. r[i] = l[i] /\ r[j] = l[j - 1]  BY <1>1, <1>2, <2>3
    <3> QED  BY <1>13, <3>1, <3>2
  <2>4. CASE i = pos /\ j = pos
    BY <1>2, <1>6, <2>4
  <2>5. CASE i = pos /\ j > pos
    <3>1. pos \in 1 .. n /\ j - 1 \in 1 .. n /\ pos <= j - 1  BY <1>1, <2>5
    <3>2. at[l[pos]] <= at[l[j - 1]]  BY <1>13, <3>1
    <3>3. r[i] = c0 /\ r[j] = l[j - 1]  BY <1>1, <1>2, <2>5
    <3> QED  BY <1>1, <1>6, <1>12, <3>1, <3>2, <3>3
  <2>6. CASE i > pos /\ j > pos
    <3>1. i - 1 \in 1 .. n /\ j - 1 \in 1 .. n /\ i - 1 <= j - 1  BY <1>1, <2>6
    <3>2. r[i] = l[i - 1] /\ r[j] = l[j - 1]  BY SMTT(20), <1>1, <1>2, <2>6
    <3> QED  BY <1>13, <3>1, <3>2
  <2> QED  BY <1>1, <2>1, <2>2, <2>3, <2>4, <2>5, <2>6
<1>15. HeadOk(at)'
  <2>1. ticks'[r[1]] = at[r[1]]
    <3>1. CASE pos = 1
      BY <1>1, <1>2, <1>7, <1>8, <3>1
    <3>2. CASE pos > 1
      <4>1. r[1] = l[1] /\ 1 \in 1 .. n /\ l # <<>>  BY <1>1, <1>2, <3>2, ListFacts
      <4>2. ticks[l[1]] = at[l[1]] + 0
        BY <1>5, <4>1 DEF Schedule, HeadOk
      <4> QED  BY <1>6, <1>7, <3>2, <4>1, <4>2
    <3> QED  BY <1>1, <3>1, <3>2
  <2>2. at[r[1]] \in Int
    <3>1. r[1] \in Callouts  BY <1>1, <1>2, ElementOfSeq
    <3> QED  BY <3>1
  <2> QED  BY <1>5, <2>1, <2>2 DEF HeadOk, r
<1>16. DeltaOk(at)'
  <2> SUFFICES ASSUME NEW i \in 1 .. n
               PROVE  ticks'[r[i + 1]] = at[r[i + 1]] - at[r[i]]
    BY <1>1, <1>2 DEF DeltaOk, r
  <2>0. \A j \in 1 .. n - 1 : ticks[l[j + 1]] = at[l[j + 1]] - at[l[j]]
    BY DEF Schedule, DeltaOk
  <2>1. CASE i + 1 < pos
    <3>1. r[i] = l[i] /\ r[i + 1] = l[i + 1]  BY <1>1, <1>2, <2>1
    <3>2. i \in 1 .. n - 1 /\ i + 1 \in 1 .. n /\ i + 1 # pos  BY <1>1, <2>1
    <3> QED  BY <1>7, <2>0, <3>1, <3>2
  <2>2. CASE i + 1 = pos
    <3>1. r[i] = l[i] /\ r[i + 1] = c0 /\ pos - 1 = i /\ pos # 1
      BY <1>1, <1>2, <2>2
    <3> QED  BY <1>7, <1>8, <3>1
  <2>3. CASE i = pos
    <3>1. r[i] = c0 /\ r[i + 1] = l[pos] /\ pos <= n
      BY <1>1, <1>2, <2>3
    <3>2. at[l[pos]] \in Int /\ (pos > 1 => at[l[pos - 1]] \in Int)
      BY <1>1, <1>6, <3>1
    <3> QED  BY <1>1, <1>6, <1>7, <1>8, <1>9, <3>1, <3>2
  <2>4. CASE i > pos
    <3>1. i - 1 \in 1 .. n - 1 /\ (i - 1) + 1 = i /\ (i + 1) - 1 = i
      BY <1>1, <2>4
    <3>2. ticks[l[i]] = at[l[i]] - at[l[i - 1]]  BY <2>0, <3>1
    <3>3. i \in pos + 1 .. n + 1 /\ i + 1 \in pos + 1 .. n + 1
      BY <1>1, <2>4
    <3>4. r[i] = l[i - 1] /\ r[i + 1] = l[i]
      BY <1>2, <3>1, <3>3
    <3> QED  BY <1>1, <1>7, <2>4, <3>2, <3>4
  <2> QED  BY <1>1, <2>1, <2>2, <2>3, <2>4
<1>17. WalkOk(at)'
  BY <1>1 DEF WalkOk
<1>18. RangeOk(at)'
  BY <1>1, <1>5 DEF Schedule, RangeOk, Pending
<1>19. DeadlineOk(at)'
  <2>1. left' = left /\ Reference' = Reference
    BY DEF set_one_insert, Reference, Elapsed, hardware
  <2> QED  BY <1>1, <2>1 DEF Schedule, DeadlineOk, Pending
<1> QED  BY <1>14, <1>15, <1>16, <1>17, <1>18, <1>19 DEF Schedule

\* Starting the timer keeps the schedule; a timer that was ready starts a new
\* origin with nothing else pending.
LEMMA StartSchedule ==
  ASSUME QueueInv, CursorInv, NEW at \in [Callouts -> Int], Schedule(at),
         set_one_start
  PROVE  Schedule(at)'
<1>1. /\ pc = "armed" /\ pc' = "idle" /\ count' = count
      /\ callouts_list' = callouts_list /\ ticks' = ticks /\ left' = left
      /\ active' = active \cup {c0}
      /\ \/ tmr_state = "running" /\ tmr_state' = "running" /\ count_saved' = count_saved
         \/ tmr_state = "ready" /\ tmr_state' = "running" /\ count_saved' = count
  BY DEF set_one_start, CursorInv, InCallback, Leave, mi_tmr_start, hardware
<1>2. Offset = 0 /\ Offset' = 0
  BY <1>1 DEF Offset
<1>3. Reference' = Reference
  BY <1>1 DEF Reference, Elapsed, get_elapsed, QueueInv, TypeOK, TimerTypeOK
<1>4. \A c \in Callouts : Pending(c)' <=> Pending(c)
  BY <1>1 DEF Pending
<1>5. HeadOk(at)' /\ DeltaOk(at)' /\ SortedOk(at)' /\ WalkOk(at)'
  BY <1>1, <1>2 DEF Schedule, HeadOk, DeltaOk, SortedOk, WalkOk
<1>6. RangeOk(at)' /\ DeadlineOk(at)'
  BY <1>1, <1>2, <1>3, <1>4 DEF Schedule, RangeOk, DeadlineOk
<1> QED  BY <1>5, <1>6 DEF Schedule

\* Two neighbouring distances add up.
LEMMA SumOfDeltas ==
  ASSUME NEW a \in Int, NEW b \in Int, NEW c \in Int, NEW o \in Int,
         NEW w \in Nat, NEW x, NEW y, x = c - b, y = b - a,
         a + o \in 0 .. w, c + o \in 0 .. w
  PROVE  x + y = c - a /\ x + y <= w
OBVIOUS

\* Cancelling keeps the schedule: the successor takes over the ticks of the
\* callout that goes.
LEMMA CancelSchedule ==
  ASSUME QueueInv, NEW at \in [Callouts -> Int], Schedule(at),
         NEW c \in Callouts, mdx_callout_cancel(c)
  PROVE  Schedule(at)'
<1> DEFINE l == callouts_list
           r == callouts_list'
           n == Len(l)
           k == Index(c)
<1>1. /\ pc \in {"idle", "lock"} /\ pc' = pc /\ elapsed' = elapsed
      /\ c \in active /\ OnList(c) /\ active' = active \ {c}
      /\ tmr_state' = tmr_state /\ count_saved' = count_saved /\ count' = count
      /\ left' = [left EXCEPT ![c] = 0]
  BY DEF mdx_callout_cancel, cancel_locked, QueueInv, ListIntegrity, locals, hardware
<1>2. /\ k \in 1 .. n /\ l[k] = c /\ n \in Nat
      /\ r \in Seq(Callouts) /\ Len(r) = n - 1
      /\ \A j \in 1 .. k - 1 : r[j] = l[j]
      /\ \A j \in k .. n - 1 : r[j] = l[j + 1]
  <2>1. r = list_remove(c)  BY DEF mdx_callout_cancel, cancel_locked
  <2>2. TypeOK /\ ListIntegrity  BY DEF QueueInv
  <2> QED  BY <1>1, <2>1, <2>2, ListRemoveElements, SMTT(30)
<1>3. \A i \in 1 .. n : l[i] \in Callouts /\ l[i] \in active
  BY <1>1, ListFacts DEF QueueInv, ListIntegrity, OnList
<1>4. \A i, j \in 1 .. n : l[i] = l[j] => i = j
  BY ListFacts DEF QueueInv, ListIntegrity
<1>5. \A i \in 1 .. n : /\ at[l[i]] \in Int /\ ticks[l[i]] \in 0 .. WordMax
                       /\ at[l[i]] + Offset \in 0 .. WordMax
  BY <1>3 DEF QueueInv, TypeOK, QueueTypeOK, Schedule, RangeOk, Pending
<1>6. Offset' = Offset /\ Offset \in Int
  BY <1>1, CalloutAssumption DEF Offset, QueueInv, TypeOK, LocalTypeOK
<1>7. 1 <= n => ticks[l[1]] = at[l[1]] + Offset
  BY ListFacts DEF Schedule, HeadOk
<1>8. \A i \in 1 .. n - 1 : ticks[l[i + 1]] = at[l[i + 1]] - at[l[i]]
  BY DEF Schedule, DeltaOk
<1>9. next(c) = IF k = n THEN NULL ELSE l[k + 1]
  BY <1>1 DEF next
<1>10. k < n => /\ k = 1 => ticks[l[k + 1]] + ticks[l[k]] = at[l[k + 1]] + Offset
                /\ k > 1 => ticks[l[k + 1]] + ticks[l[k]] = at[l[k + 1]] - at[l[k - 1]]
                /\ ticks[l[k + 1]] + ticks[l[k]] <= WordMax
  <2> SUFFICES ASSUME k < n
               PROVE  /\ k = 1 => ticks[l[k + 1]] + ticks[l[k]] = at[l[k + 1]] + Offset
                      /\ k > 1 => ticks[l[k + 1]] + ticks[l[k]] = at[l[k + 1]] - at[l[k - 1]]
                      /\ ticks[l[k + 1]] + ticks[l[k]] <= WordMax
    OBVIOUS
  <2> HIDE DEF k
  <2>1. k \in 1 .. n - 1 /\ k + 1 \in 1 .. n
    BY <1>2
  <2>2. ticks[l[k + 1]] = at[l[k + 1]] - at[l[k]]
    BY <1>8, <2>1
  <2>3. /\ at[l[k]] \in Int /\ at[l[k + 1]] \in Int
        /\ at[l[k + 1]] + Offset \in 0 .. WordMax
    BY <1>2, <1>5, <2>1
  <2>4. CASE k = 1
    BY SMTT(20), <1>2, <1>6, <1>7, <2>2, <2>3, <2>4, CalloutAssumption
  <2>5. CASE k > 1
    <3>1. k - 1 \in 1 .. n - 1 /\ (k - 1) + 1 = k /\ k - 1 \in 1 .. n
      BY <1>2, <2>5
    <3>2. ticks[l[k]] = at[l[k]] - at[l[k - 1]]
      BY <1>8, <3>1
    <3>3. at[l[k - 1]] \in Int /\ at[l[k - 1]] + Offset \in 0 .. WordMax
      BY <1>5, <3>1
    <3>4. WordMax \in Nat
      BY CalloutAssumption
    <3>5. /\ ticks[l[k + 1]] + ticks[l[k]] = at[l[k + 1]] - at[l[k - 1]]
          /\ ticks[l[k + 1]] + ticks[l[k]] <= WordMax
      BY <1>6, <2>2, <2>3, <3>2, <3>3, <3>4, SumOfDeltas, SMTT(30)
    <3> QED  BY <2>5, <3>5
  <2> QED  BY <1>2, <2>4, <2>5
<1>11. \A i \in 1 .. n : i # k + 1 => ticks'[l[i]] = ticks[l[i]]
  <2>1. CASE k = n
    <3>1. next(c) = NULL  BY <1>9, <2>1
    <3> QED  BY <3>1 DEF mdx_callout_cancel, cancel_locked
  <2>2. CASE k # n
    <3>1. k + 1 \in 1 .. n  BY <1>2, <2>2
    <3>2. \A i \in 1 .. n : i # k + 1 => l[i] # l[k + 1]
      BY <1>4, <3>1
    <3>3. next(c) = l[k + 1] /\ l[k + 1] \in Callouts
      BY <1>3, <1>9, <2>2, <3>1
    <3>4. next(c) # NULL
      BY <3>3, CalloutAssumption
    <3>5. ticks' = [ticks EXCEPT ![l[k + 1]] = WordAdd(@, ticks[c])]
      BY <3>3, <3>4 DEF mdx_callout_cancel, cancel_locked
    <3>6. \A d \in Callouts : d # l[k + 1] => ticks'[d] = ticks[d]
      BY <3>5 DEF QueueInv, TypeOK, QueueTypeOK
    <3> QED  BY <1>3, <3>2, <3>6
  <2> QED  BY <2>1, <2>2
<1>12. k < n => ticks'[l[k + 1]] = ticks[l[k + 1]] + ticks[l[k]]
  <2> SUFFICES ASSUME k < n
               PROVE  ticks'[l[k + 1]] = ticks[l[k + 1]] + ticks[l[k]]
    OBVIOUS
  <2>1. k + 1 \in 1 .. n /\ k # n  BY <1>2
  <2>2. next(c) = l[k + 1] /\ l[k + 1] \in Callouts
    BY <1>3, <1>9, <2>1
  <2>3. next(c) # NULL
    BY <2>2, CalloutAssumption
  <2>4. ticks' = [ticks EXCEPT ![l[k + 1]] = WordAdd(@, ticks[c])]
    BY <2>2, <2>3 DEF mdx_callout_cancel, cancel_locked
  <2>5. ticks'[l[k + 1]] = WordAdd(ticks[l[k + 1]], ticks[l[k]])
    BY <1>2, <2>2, <2>4 DEF QueueInv, TypeOK, QueueTypeOK
  <2>6. ticks[l[k + 1]] \in 0 .. WordMax /\ ticks[l[k]] \in 0 .. WordMax
    BY <1>2, <1>5, <2>1
  <2> HIDE DEF k
  <2> QED  BY <1>10, <2>5, <2>6, CalloutAssumption DEF WordAdd
<1> HIDE DEF k, r
<1>13. HeadOk(at)'
  <2> SUFFICES ASSUME n > 1
               PROVE  ticks'[r[1]] = at[r[1]] + Offset
    <3>1. r # <<>> => n > 1
      BY <1>2, EmptySeq
    <3> QED  BY <1>6, <3>1 DEF HeadOk, r
  <2>1. CASE k = 1
    <3>1. r[1] = l[k + 1] /\ k < n  BY <1>2, <2>1
    <3> QED  BY <1>10, <1>12, <2>1, <3>1
  <2>2. CASE k > 1
    <3>1. r[1] = l[1] /\ 1 \in 1 .. n /\ 1 # k + 1 /\ 1 <= n  BY <1>2, <2>2
    <3> QED  BY <1>7, <1>11, <3>1
  <2> QED  BY <1>2, <2>1, <2>2
<1>14. DeltaOk(at)'
  <2>0. Len(callouts_list') - 1 = n - 2
    BY <1>2 DEF r
  <2> SUFFICES ASSUME NEW i \in 1 .. n - 2
               PROVE  ticks'[r[i + 1]] = at[r[i + 1]] - at[r[i]]
    BY <2>0 DEF DeltaOk, r
  <2>1. CASE i + 1 < k
    <3>0. /\ i \in 1 .. k - 1 /\ i + 1 \in 1 .. k - 1
          /\ i \in 1 .. n - 1 /\ i + 1 \in 1 .. n /\ i + 1 # k + 1
      BY SMTT(20), <1>2, <2>1
    <3>1. /\ r[i] = l[i] /\ r[i + 1] = l[i + 1]
          /\ i \in 1 .. n - 1 /\ i + 1 \in 1 .. n /\ i + 1 # k + 1
      BY <1>2, <3>0
    <3> QED  BY <1>8, <1>11, <3>1
  <2>2. CASE i + 1 = k
    <3>1. i + 1 \in k .. n - 1 /\ i \in 1 .. k - 1 /\ k < n /\ k > 1 /\ k - 1 = i
      BY <1>2, <2>2
    <3>2. r[i] = l[k - 1] /\ r[i + 1] = l[k + 1]
      BY <1>2, <2>2, <3>1
    <3> QED  BY <1>10, <1>12, <3>1, <3>2
  <2>3. CASE i + 1 > k
    <3>1. /\ i \in k .. n - 1 /\ i + 1 \in k .. n - 1 /\ i + 1 \in 1 .. n - 1
          /\ (i + 1) + 1 \in 1 .. n /\ (i + 1) + 1 # k + 1
      BY SMTT(20), <1>2, <2>3
    <3>2. r[i] = l[i + 1] /\ r[i + 1] = l[(i + 1) + 1]
      BY <1>2, <3>1
    <3>3. ticks[l[(i + 1) + 1]] = at[l[(i + 1) + 1]] - at[l[i + 1]]
      BY <1>8, <3>1
    <3> QED  BY <1>11, <3>1, <3>2, <3>3
  <2> QED  BY <1>2, <2>1, <2>2, <2>3
<1>15. SortedOk(at)'
  <2> SUFFICES ASSUME NEW i \in 1 .. n - 1, NEW j \in 1 .. n - 1, i <= j
               PROVE  at[r[i]] <= at[r[j]]
    BY <1>2 DEF SortedOk, r
  <2> DEFINE f(m) == IF m < k THEN m ELSE m + 1
  <2>0. k \in Nat /\ n \in Nat /\ k >= 1 /\ k <= n
    BY <1>2
  <2>1. f(i) \in 1 .. n /\ f(j) \in 1 .. n /\ f(i) <= f(j)
    BY <2>0
  <2>2. ASSUME NEW m \in 1 .. n - 1  PROVE r[m] = l[f(m)]
    <3>1. CASE m < k  BY <1>2, <3>1
    <3>2. CASE m >= k  BY <1>2, <3>2
    <3> QED  BY <1>2, <3>1, <3>2
  <2> HIDE DEF f
  <2> QED  BY <2>1, <2>2 DEF Schedule, SortedOk
<1>16. WalkOk(at)'
  BY <1>1 DEF WalkOk
<1>17. RangeOk(at)'
  BY <1>1, <1>6 DEF Schedule, RangeOk, Pending
<1>18. DeadlineOk(at)'
  <2>1. Reference' = Reference
    BY <1>1 DEF Reference, Elapsed
  <2> QED  BY <1>1, <2>1
           DEF Schedule, DeadlineOk, Pending, QueueInv, TypeOK, LocalTypeOK
<1> QED  BY <1>13, <1>14, <1>15, <1>16, <1>17, <1>18 DEF Schedule

\* The interrupt moves the origin to the present count; the elapsed ticks are
\* the offset that the loop takes off.
LEMMA IntrSchedule ==
  ASSUME QueueInv, NEW at \in [Callouts -> Int], Schedule(at), TimerIntr
  PROVE  \E bt \in [Callouts -> Int] :
           /\ Schedule(bt)'
           /\ callouts_list # <<>> => bt = [c \in Callouts |-> at[c] - Elapsed]
<1>1. /\ callouts_list' = callouts_list /\ ticks' = ticks /\ left' = left
      /\ active' = active /\ count' = count /\ pc = "idle"
  BY DEF TimerIntr
<1>2. CASE callouts_list = <<>>
  <2>1. active = {}
    BY <1>1, <1>2 DEF QueueInv, ListIntegrity, OnList, TypeOK, QueueTypeOK
  <2>2. pc' = "idle" /\ Len(callouts_list) = 0
    BY <1>2, ListFacts DEF TimerIntr, Leave
  <2>3. HeadOk(at)' /\ DeltaOk(at)' /\ SortedOk(at)' /\ WalkOk(at)'
    BY <1>1, <1>2, <2>2 DEF HeadOk, DeltaOk, SortedOk, WalkOk
  <2>4. RangeOk(at)' /\ DeadlineOk(at)'
    BY <1>1, <2>1, <2>2 DEF RangeOk, DeadlineOk, Pending
  <2> QED  BY <1>2, <2>3, <2>4 DEF Schedule
<1>3. CASE callouts_list # <<>>
  <2> DEFINE e == Elapsed
  <2>1. e \in 0 .. MaxCnt /\ e \in Int
    <3>1. e \in 0 .. MaxCnt
      BY ElapsedType DEF QueueInv, TypeOK, TimerTypeOK, Elapsed
    <3> HIDE DEF e
    <3> QED  BY <3>1, CalloutAssumption
  <2>2. /\ pc' = "lock" /\ elapsed' = e /\ count_saved' = count
        /\ tmr_state' = "exception" /\ tmr_state = "running"
    BY <1>1, <1>3 DEF TimerIntr, QueueInv, Shape, TypeOK, TimerTypeOK
  <2>3. Offset = 0 /\ Offset' = e /\ Reference = e /\ Reference' = 0
    <3>1. Offset = 0 /\ Offset' = e
      BY <1>1, <2>2 DEF Offset
    <3>2. Reference = e
      BY <2>2 DEF Reference
    <3>3. Reference' = get_elapsed(count, count)
      BY <1>1, <2>2 DEF Reference, Elapsed
    <3>4. get_elapsed(count, count) = 0
      BY DEF get_elapsed, QueueInv, TypeOK, TimerTypeOK
    <3> QED  BY <3>1, <3>2, <3>3, <3>4
  <2> HIDE DEF e
  <2>4. PICK bt \in [Callouts -> Int] : bt = [c \in Callouts |-> at[c] - e]
    <3>1. [c \in Callouts |-> at[c] - e] \in [Callouts -> Int]  BY <2>1
    <3> QED  BY <3>1
  <2>5. \A i \in 1 .. Len(callouts_list) :
          /\ callouts_list[i] \in Callouts
          /\ at[callouts_list[i]] \in Int
          /\ bt[callouts_list[i]] = at[callouts_list[i]] - e
    BY <2>4, ListFacts
  <2>6. HeadOk(bt)'
    <3>1. 1 \in 1 .. Len(callouts_list)  BY <1>3, ListFacts
    <3>2. ticks[callouts_list[1]] = at[callouts_list[1]] + 0
      BY <1>3, <2>3 DEF Schedule, HeadOk
    <3>3. ticks[callouts_list[1]] = bt[callouts_list[1]] + e
      BY <2>1, <2>5, <3>1, <3>2
    <3> QED  BY <1>1, <2>3, <3>3 DEF HeadOk
  <2>7. DeltaOk(bt)'
    <3> SUFFICES ASSUME NEW i \in 1 .. Len(callouts_list) - 1
                 PROVE  ticks[callouts_list[i + 1]]
                          = bt[callouts_list[i + 1]] - bt[callouts_list[i]]
      BY <1>1 DEF DeltaOk
    <3>1. i \in 1 .. Len(callouts_list) /\ i + 1 \in 1 .. Len(callouts_list)
      BY ListFacts
    <3>2. ticks[callouts_list[i + 1]]
            = at[callouts_list[i + 1]] - at[callouts_list[i]]
      BY DEF Schedule, DeltaOk
    <3>3. /\ bt[callouts_list[i + 1]] = at[callouts_list[i + 1]] - e
          /\ bt[callouts_list[i]] = at[callouts_list[i]] - e
          /\ at[callouts_list[i + 1]] \in Int /\ at[callouts_list[i]] \in Int
      BY <2>5, <3>1
    <3> QED  BY <2>1, <3>2, <3>3
  <2>8. SortedOk(bt)'
    BY <1>1, <2>1, <2>5 DEF Schedule, SortedOk
  <2>9. WalkOk(bt)'
    BY <2>2 DEF WalkOk
  <2>10. \A c \in Callouts : Pending(c)' => Pending(c)
    BY <1>1, <2>2 DEF Pending
  <2>11. RangeOk(bt)'
    <3> SUFFICES ASSUME NEW c \in Callouts, Pending(c)
                 PROVE  bt[c] + e \in 0 .. WordMax
      BY <2>3, <2>10 DEF RangeOk
    <3>1. at[c] + 0 \in 0 .. WordMax
      BY <2>3 DEF Schedule, RangeOk
    <3>2. bt[c] + e = at[c] + 0
      BY <2>1, <2>4
    <3> QED  BY <3>1, <3>2
  <2>12. DeadlineOk(bt)'
    <3> SUFFICES ASSUME NEW c \in Callouts, Pending(c), left[c] > 0
                 PROVE  bt[c] >= left[c] + 0
      BY <1>1, <2>3, <2>10 DEF DeadlineOk
    <3>1. at[c] >= left[c] + e
      BY <2>3 DEF Schedule, DeadlineOk
    <3>2. bt[c] = at[c] - e /\ at[c] \in Int /\ left[c] \in Int
      BY <2>4 DEF QueueInv, TypeOK, LocalTypeOK
    <3> QED  BY <2>1, <3>1, <3>2
  <2>13. Schedule(bt)'
    BY <2>6, <2>7, <2>8, <2>9, <2>11, <2>12 DEF Schedule
  <2> QED  BY <2>4, <2>13 DEF e
<1> QED  BY <1>2, <1>3

\* The callout the loop calls is due, and the rest keeps its schedule.
LEMMA FireSchedule ==
  ASSUME QueueInv, CursorInv, NEW at \in [Callouts -> Int], Schedule(at),
         callback_fire
  PROVE  Schedule(at)' /\ left[cur] <= 0 /\ tmp' = first'
<1> DEFINE l == callouts_list
           r == callouts_list'
           n == Len(l)
<1>1. /\ pc = "loop" /\ pc' = "func" /\ cur # NULL /\ cur \in Callouts
      /\ cur = first /\ l # <<>> /\ active' = active \ {cur}
      /\ elapsed >= ticks[cur] /\ elapsed' = elapsed - ticks[cur]
      /\ ticks' = [ticks EXCEPT ![cur] = 0]
      /\ left' = [left EXCEPT ![cur] = 0]
      /\ tmr_state' = tmr_state /\ count_saved' = count_saved /\ count' = count
  BY DEF callback_fire, CursorInv, first, QueueInv, TypeOK, LocalTypeOK, hardware
<1>2. n \in Nat /\ n >= 1 /\ cur = l[1] /\ OnList(cur) /\ DOMAIN l = 1 .. n
  BY <1>1, FirstElement DEF QueueInv
<1>3. \A i, j \in 1 .. n : l[i] = l[j] => i = j
  BY ListFacts DEF QueueInv, ListIntegrity
<1>4. Index(cur) = 1
  <2>1. Index(cur) \in 1 .. n /\ l[Index(cur)] = cur
    BY <1>2, IndexElement
  <2> QED  BY <1>2, <1>3, <2>1
<1>5. /\ r \in Seq(Callouts) /\ Len(r) = n - 1
      /\ \A j \in 1 .. n - 1 : r[j] = l[j + 1]
  <2>1. r = RemoveAt(l, 1)
    BY <1>2, <1>4 DEF callback_fire, list_remove
  <2>2. l \in Seq(Callouts) /\ 1 \in 1 .. Len(l)
    BY <1>2, ListFacts
  <2> QED  BY <2>1, <2>2, RemoveAtElements
<1>6. \A i \in 1 .. n : l[i] \in Callouts /\ l[i] \in active /\ at[l[i]] \in Int
  BY <1>1, ListFacts DEF QueueInv, ListIntegrity, OnList
<1>7. Offset = elapsed /\ Offset' = elapsed - ticks[cur] /\ elapsed \in Nat
  BY <1>1, CalloutAssumption DEF Offset, QueueInv, TypeOK, LocalTypeOK
<1>8. ticks[cur] = at[cur] + elapsed /\ at[cur] \in Int
  BY <1>1, <1>2, <1>7 DEF Schedule, HeadOk
<1>9. Offset' = 0 - at[cur] /\ at[cur] <= 0
  BY <1>1, <1>7, <1>8
<1>10. left[cur] <= 0
  <2> SUFFICES ASSUME left[cur] > 0 PROVE FALSE
    BY <1>1 DEF QueueInv, TypeOK, LocalTypeOK
  <2>1. Pending(cur)
    BY <1>2, <1>6 DEF Pending
  <2>2. at[cur] >= left[cur] + Reference
    BY <1>1, <2>1 DEF Schedule, DeadlineOk
  <2>3. Reference \in Nat
    <3>1. Elapsed \in 0 .. MaxCnt
      BY ElapsedType DEF QueueInv, TypeOK, TimerTypeOK, Elapsed
    <3> QED  BY <3>1, CalloutAssumption DEF Reference
  <2>4. left[cur] \in Int
    BY <1>1 DEF QueueInv, TypeOK, LocalTypeOK
  <2> QED  BY <1>8, <1>9, <2>2, <2>3, <2>4
<1>11. \A i \in 2 .. n : ticks'[l[i]] = ticks[l[i]]
  <2>1. \A i \in 2 .. n : l[i] # cur /\ l[i] \in Callouts
    BY <1>2, <1>3, <1>6
  <2> QED  BY <1>1, <2>1 DEF QueueInv, TypeOK, QueueTypeOK
<1>12. \A i \in 1 .. n - 1 : ticks[l[i + 1]] = at[l[i + 1]] - at[l[i]]
  BY DEF Schedule, DeltaOk
<1>13. tmp' = first'
  <2>1. tmp' = IF n = 1 THEN NULL ELSE l[2]
    BY <1>2, <1>4 DEF callback_fire, next
  <2>2. CASE n = 1
    <3>1. r = <<>>  BY <1>5, <2>2, EmptySeq
    <3> QED  BY <2>1, <2>2, <3>1 DEF first
  <2>3. CASE n > 1
    <3>1. r # <<>>  BY <1>5, <2>3, EmptySeq
    <3>2. r[1] = l[2]  BY <1>2, <1>5, <2>3
    <3> QED  BY <2>1, <2>3, <3>1, <3>2 DEF first
  <2> QED  BY <1>2, <2>2, <2>3
<1> HIDE DEF r
<1>14. HeadOk(at)'
  <2> SUFFICES ASSUME n > 1
               PROVE  ticks'[r[1]] = at[r[1]] + Offset'
    <3>1. r # <<>> => n > 1
      BY <1>2, <1>5, EmptySeq
    <3> QED  BY <3>1 DEF HeadOk, r
  <2>1. r[1] = l[2] /\ 1 \in 1 .. n - 1 /\ 2 \in 2 .. n /\ 2 \in 1 .. n
    BY <1>2, <1>5
  <2>2. ticks[l[2]] = at[l[2]] - at[l[1]]
    BY <1>12, <2>1
  <2>3. at[l[2]] \in Int  BY <1>6, <2>1
  <2> QED  BY <1>2, <1>8, <1>9, <1>11, <2>1, <2>2, <2>3
<1>15. DeltaOk(at)'
  <2>0. Len(callouts_list') - 1 = n - 2
    BY <1>2, <1>5 DEF r
  <2> SUFFICES ASSUME NEW i \in 1 .. n - 2
               PROVE  ticks'[r[i + 1]] = at[r[i + 1]] - at[r[i]]
    BY <2>0 DEF DeltaOk, r
  <2>1. /\ i \in 1 .. n - 1 /\ i + 1 \in 1 .. n - 1 /\ (i + 1) + 1 \in 2 .. n
    BY <1>2
  <2>2. r[i] = l[i + 1] /\ r[i + 1] = l[(i + 1) + 1]
    BY <1>5, <2>1
  <2> QED  BY <1>11, <1>12, <2>1, <2>2
<1>16. SortedOk(at)'
  <2> SUFFICES ASSUME NEW i \in 1 .. n - 1, NEW j \in 1 .. n - 1, i <= j
               PROVE  at[r[i]] <= at[r[j]]
    BY <1>2, <1>5 DEF SortedOk, r
  <2>1. i + 1 \in 1 .. n /\ j + 1 \in 1 .. n /\ i + 1 <= j + 1
    BY <1>2
  <2> QED  BY <1>5, <2>1 DEF Schedule, SortedOk
<1>17. WalkOk(at)'
  BY <1>1 DEF WalkOk
<1>18. RangeOk(at)'
  <2> SUFFICES ASSUME NEW c \in Callouts, c \in active, c # cur
               PROVE  at[c] + Offset' \in 0 .. WordMax
    BY <1>1 DEF RangeOk, Pending
  <2>1. at[c] + elapsed \in 0 .. WordMax /\ at[c] \in Int
    BY <1>7 DEF Schedule, RangeOk, Pending
  <2>2. OnList(c)
    BY <1>1 DEF QueueInv, ListIntegrity
  <2>3. PICK i \in 1 .. n : l[i] = c
    BY <1>2, <2>2 DEF OnList
  <2>4. at[l[1]] <= at[l[i]]
    BY <1>2 DEF Schedule, SortedOk
  <2>5. 0 - at[cur] <= elapsed
    <3>1. ticks[cur] >= 0 /\ ticks[cur] \in Int
      BY <1>1, CalloutAssumption DEF QueueInv, TypeOK, QueueTypeOK
    <3> QED  BY <1>7, <1>8, <3>1
  <2>6. WordMax \in Nat
    BY CalloutAssumption
  <2> QED  BY SMTT(20), <1>2, <1>7, <1>8, <1>9, <2>1, <2>3, <2>4, <2>5, <2>6
<1>19. DeadlineOk(at)'
  <2>1. Reference' = Reference
    BY <1>1 DEF Reference, Elapsed
  <2>2. \A c \in Callouts : Pending(c)' => Pending(c) /\ left'[c] = left[c]
    BY <1>1 DEF Pending, QueueInv, TypeOK, LocalTypeOK
  <2> QED  BY <2>1, <2>2 DEF Schedule, DeadlineOk
<1> QED  BY <1>10, <1>13, <1>14, <1>15, <1>16, <1>17, <1>18, <1>19 DEF Schedule

\* A step that leaves the list and its ticks alone keeps everything but the
\* deadlines by itself.
LEMMA ScheduleFrame ==
  ASSUME NEW at \in [Callouts -> Int], Schedule(at),
         callouts_list' = callouts_list, ticks' = ticks, Offset' = Offset,
         pc' = "walk" => pc = "walk" /\ pos' = pos /\ c0' = c0,
         \A c \in Callouts : Pending(c)' => Pending(c),
         DeadlineOk(at)'
  PROVE  Schedule(at)'
<1>1. HeadOk(at)' /\ DeltaOk(at)' /\ SortedOk(at)'
  BY DEF Schedule, HeadOk, DeltaOk, SortedOk
<1>2. WalkOk(at)'
  BY DEF Schedule, WalkOk
<1>3. RangeOk(at)'
  BY DEF Schedule, RangeOk
<1> QED  BY <1>1, <1>2, <1>3 DEF Schedule

\* Taking the rest of the elapsed ticks off the first callout ends the offset.
LEMMA BreakSchedule ==
  ASSUME QueueInv, CursorInv, NEW at \in [Callouts -> Int], Schedule(at),
         callback_break
  PROVE  Schedule(at)'
<1> DEFINE l == callouts_list
           n == Len(l)
<1>1. /\ pc = "loop" /\ pc' = "restart" /\ cur = first /\ active' = active
      /\ callouts_list' = callouts_list /\ left' = left
      /\ tmr_state' = tmr_state /\ count_saved' = count_saved /\ count' = count
  BY DEF callback_break, CursorInv, hardware
<1>2. Offset = elapsed /\ Offset' = 0 /\ elapsed \in Nat
  BY <1>1, CalloutAssumption DEF Offset, QueueInv, TypeOK, LocalTypeOK
<1>3. DeadlineOk(at)'
  <2>1. Reference' = Reference
    BY <1>1 DEF Reference, Elapsed
  <2> QED  BY <1>1, <2>1 DEF Schedule, DeadlineOk, Pending
<1>4. SortedOk(at)' /\ WalkOk(at)'
  BY <1>1 DEF Schedule, SortedOk, WalkOk
<1>5. CASE l = <<>>
  <2>1. active = {}
    BY <1>1, <1>5 DEF QueueInv, ListIntegrity, OnList, TypeOK, QueueTypeOK
  <2>2. n = 0
    BY <1>5, ListFacts
  <2>3. HeadOk(at)' /\ DeltaOk(at)'
    BY <1>1, <1>5, <2>2 DEF HeadOk, DeltaOk
  <2>4. RangeOk(at)'
    BY <1>1, <2>1 DEF RangeOk, Pending
  <2> QED  BY <1>3, <1>4, <2>3, <2>4 DEF Schedule
<1>6. CASE l # <<>>
  <2>1. cur = l[1] /\ n \in Nat /\ n >= 1 /\ cur \in Callouts /\ cur # NULL
    BY <1>1, <1>6, ListFacts, CalloutAssumption DEF first
  <2>2. /\ ticks' = [ticks EXCEPT ![cur] = ticks[cur] - elapsed]
        /\ elapsed < ticks[cur] /\ ticks[cur] \in Nat
    BY <2>1, CalloutAssumption DEF callback_break, QueueInv, TypeOK, QueueTypeOK
  <2>3. ticks[cur] = at[cur] + elapsed /\ at[cur] \in Int
    BY <1>2, <1>6, <2>1 DEF Schedule, HeadOk
  <2>4. at[cur] > 0
    BY <1>2, <2>2, <2>3
  <2>5. HeadOk(at)'
    <3>1. ticks'[cur] = at[cur] + 0
      BY <1>2, <2>1, <2>2, <2>3 DEF QueueInv, TypeOK, QueueTypeOK
    <3> QED  BY <1>1, <1>2, <2>1, <3>1 DEF HeadOk
  <2>6. \A i \in 1 .. n : l[i] = l[1] => i = 1
    BY <2>1, ListFacts DEF QueueInv, ListIntegrity
  <2>7. DeltaOk(at)'
    <3> SUFFICES ASSUME NEW i \in 1 .. n - 1
                 PROVE  ticks'[l[i + 1]] = at[l[i + 1]] - at[l[i]]
      BY <1>1 DEF DeltaOk
    <3>1. i + 1 \in 1 .. n /\ i + 1 # 1
      BY <2>1
    <3>2. l[i + 1] # cur /\ l[i + 1] \in Callouts
      BY <2>1, <2>6, <3>1, ListFacts
    <3>3. ticks'[l[i + 1]] = ticks[l[i + 1]]
      BY <2>2, <3>2 DEF QueueInv, TypeOK, QueueTypeOK
    <3> QED  BY <3>3 DEF Schedule, DeltaOk
  <2>8. RangeOk(at)'
    <3> SUFFICES ASSUME NEW c \in Callouts, c \in active
                 PROVE  at[c] + 0 \in 0 .. WordMax
      BY <1>1, <1>2 DEF RangeOk, Pending
    <3>1. at[c] + elapsed \in 0 .. WordMax /\ at[c] \in Int
      BY <1>2 DEF Schedule, RangeOk, Pending
    <3>2. OnList(c)
      BY DEF QueueInv, ListIntegrity
    <3>3. PICK i \in 1 .. n : l[i] = c
      BY <3>2, ListFacts DEF OnList
    <3>4. at[cur] <= at[c]
      BY <2>1, <3>3 DEF Schedule, SortedOk
    <3>5. WordMax \in Nat
      BY CalloutAssumption
    <3> QED  BY <1>2, <2>3, <2>4, <3>1, <3>4, <3>5
  <2> QED  BY <1>3, <1>4, <2>5, <2>7, <2>8 DEF Schedule
<1> QED  BY <1>5, <1>6

\* Restarting or stopping the timer keeps the schedule.
LEMMA RestartSchedule ==
  ASSUME QueueInv, NEW at \in [Callouts -> Int], Schedule(at),
         callback_restart
  PROVE  Schedule(at)'
<1>1. /\ pc = "restart" /\ pc' = "idle" /\ active' = active /\ ticks' = ticks
      /\ callouts_list' = callouts_list /\ left' = left
      /\ count_saved' = count_saved /\ count' = count
      /\ tmr_state = "exception"
      /\ tmr_state' = IF first # NULL THEN "running" ELSE "ready"
  BY DEF callback_restart, CallbackEnd, Leave, mi_tmr_start, mi_tmr_stop, QueueInv, Shape
<1>2. Offset' = Offset
  BY <1>1 DEF Offset
<1>3. \A c \in Callouts : Pending(c)' => Pending(c)
  BY <1>1 DEF Pending
<1>4. DeadlineOk(at)'
  <2>1. CASE first # NULL
    <3>1. Reference' = Reference
      BY <1>1, <2>1 DEF Reference, Elapsed
    <3> QED  BY <1>1, <1>3, <3>1 DEF Schedule, DeadlineOk
  <2>2. CASE first = NULL
    <3>1. callouts_list = <<>>
      BY <2>2, ListFacts, CalloutAssumption DEF first
    <3>2. active = {}
      BY <1>1, <3>1 DEF QueueInv, ListIntegrity, OnList, TypeOK, QueueTypeOK
    <3> QED  BY <1>1, <3>2 DEF DeadlineOk, Pending
  <2> QED  BY <2>1, <2>2
<1> QED  BY <1>1, <1>2, <1>3, <1>4, ScheduleFrame

\* A tick of the counter brings no deadline nearer than the list knows.
LEMMA TickSchedule ==
  ASSUME QueueInv, NEW at \in [Callouts -> Int], Schedule(at), TimerTick
  PROVE  Schedule(at)'
<1>1. /\ pc' = pc /\ active' = active /\ ticks' = ticks /\ c0' = c0
      /\ callouts_list' = callouts_list /\ elapsed' = elapsed /\ pos' = pos
      /\ count_saved' = count_saved /\ tmr_state' = tmr_state
      /\ count' = IF count = MaxCnt THEN 0 ELSE count + 1
  BY DEF TimerTick, locals
<1>2. Offset' = Offset
  BY <1>1 DEF Offset
<1>3. \A c \in Callouts : Pending(c)' => Pending(c)
  BY <1>1 DEF Pending
<1>4. count_saved \in 0 .. MaxCnt /\ count \in 0 .. MaxCnt
  BY DEF QueueInv, TypeOK, TimerTypeOK
<1>5. count' \in 0 .. MaxCnt
  BY <1>1, <1>4, CalloutAssumption
<1>6. /\ Reference \in Int /\ Reference' \in Int
      /\ Reference' <= Reference + 1
  <2>1. Elapsed \in 0 .. MaxCnt /\ Elapsed' \in 0 .. MaxCnt
    BY <1>1, <1>4, <1>5, ElapsedType DEF Elapsed
  <2>2. Elapsed' <= Elapsed + 1
    BY <1>1, <1>4, ElapsedStep DEF Elapsed
  <2> QED  BY <1>1, <2>1, <2>2, CalloutAssumption DEF Reference
<1>7. DeadlineOk(at)'
  <2> SUFFICES ASSUME NEW c \in Callouts, Pending(c), left'[c] > 0
               PROVE  at[c] >= left'[c] + Reference'
    BY <1>3 DEF DeadlineOk
  <2>1. left[c] \in Int /\ at[c] \in Int
    BY DEF QueueInv, TypeOK, LocalTypeOK
  <2>2. left'[c] = IF left[c] > -LateCap THEN left[c] - 1 ELSE left[c]
    BY DEF TimerTick
  <2>3. LateCap \in Nat
    BY CalloutAssumption
  <2>4. left[c] > 0 /\ left'[c] = left[c] - 1
    BY <2>1, <2>2, <2>3
  <2>5. at[c] >= left[c] + Reference
    BY <2>4 DEF Schedule, DeadlineOk
  <2> QED  BY <1>6, <2>1, <2>4, <2>5
<1> QED  BY <1>1, <1>2, <1>3, <1>7, ScheduleFrame

\* Every step keeps the existence of a schedule.
LEMMA EarlyInvNext ==
  ASSUME RearmTicks = {}, ~CbCancel, NoOverflow,
         QueueInv, QueueInv', EarlyInv, [Next]_vars
  PROVE  EarlyInv'
<1>1. PICK at \in [Callouts -> Int] : Schedule(at)
  BY DEF EarlyInv
<1>2. CursorInv
  BY DEF EarlyInv
<1>3. ASSUME NEW c \in Callouts, NEW t \in SetTicks, mdx_callout_set_ticks(c, t)
      PROVE  EarlyInv'
  <2>1. \E bt \in [Callouts -> Int] : Schedule(bt)'
    BY <1>1, <1>3, SetBeginSchedule
  <2>2. CursorInv'
    BY <1>3 DEF mdx_callout_set_ticks, set_begin, CursorInv, QueueInv, Shape
  <2> QED  BY <2>1, <2>2 DEF EarlyInv
<1>4. ASSUME NEW c \in Callouts, mdx_callout_set_zero(c)
      PROVE  EarlyInv'
  <2>1. /\ Offset' = Offset /\ Reference' = Reference /\ pc' = pc
        /\ callouts_list' = callouts_list /\ ticks' = ticks /\ active' = active
        /\ left' = left /\ pc = "idle"
    BY <1>4 DEF mdx_callout_set_zero, Offset, Reference, Elapsed, hardware, locals
  <2>2. \A d \in Callouts : Pending(d)' => Pending(d)
    BY <2>1 DEF Pending
  <2>3. DeadlineOk(at)'
    BY <1>1, <2>1, <2>2 DEF Schedule, DeadlineOk
  <2>4. Schedule(at)'
    BY <1>1, <2>1, <2>2, <2>3, ScheduleFrame
  <2>5. CursorInv'
    BY <2>1 DEF CursorInv
  <2> QED  BY <2>4, <2>5 DEF EarlyInv
<1>5. CASE set_one_skip
  <2>1. CursorInv'
    BY <1>2, <1>5 DEF set_one_skip, CursorInv
  <2> QED  BY <1>1, <1>5, <2>1, SkipSchedule DEF EarlyInv
<1>6. CASE set_one_insert
  <2>1. CursorInv'
    BY <1>2, <1>6 DEF set_one_insert, CursorInv
  <2> QED  BY <1>1, <1>6, <2>1, InsertSchedule DEF EarlyInv
<1>7. CASE set_one_start
  <2>1. CursorInv'
    BY <1>2, <1>7 DEF set_one_start, CursorInv, InCallback, Leave
  <2> QED  BY <1>1, <1>2, <1>7, <2>1, StartSchedule DEF EarlyInv
<1>8. ASSUME NEW c \in Callouts, mdx_callout_cancel(c)
      PROVE  EarlyInv'
  <2>1. CursorInv'
    BY <1>8 DEF mdx_callout_cancel, CursorInv
  <2> QED  BY <1>1, <1>8, <2>1, CancelSchedule DEF EarlyInv
<1>9. CASE TimerIntr
  <2>1. CursorInv'
    BY <1>9 DEF TimerIntr, CursorInv, Leave
  <2> QED  BY <1>1, <1>9, <2>1, IntrSchedule DEF EarlyInv
<1>10. CASE callback_lock \/ func_return
  <2>1. /\ Offset' = Offset /\ Reference' = Reference /\ pc' = "loop"
        /\ callouts_list' = callouts_list /\ ticks' = ticks /\ active' = active
        /\ left' = left /\ pc \in {"lock", "func"}
    BY <1>10 DEF callback_lock, func_return, FuncReturn, Offset, Reference,
                 Elapsed, hardware
  <2>2. \A d \in Callouts : Pending(d)' => Pending(d)
    BY <2>1 DEF Pending
  <2>3. DeadlineOk(at)'
    BY <1>1, <2>1, <2>2 DEF Schedule, DeadlineOk
  <2>4. Schedule(at)'
    BY <1>1, <2>1, <2>2, <2>3, ScheduleFrame
  <2>5. CursorInv'
    BY <1>2, <1>10, <2>1
    DEF CursorInv, callback_lock, func_return, FuncReturn, first
  <2> QED  BY <2>4, <2>5 DEF EarlyInv
<1>11. CASE callback_fire
  <2>1. Schedule(at)' /\ left[cur] <= 0 /\ tmp' = first'
    BY <1>1, <1>2, <1>11, FireSchedule
  <2>2. CursorInv'
    BY <1>11, <2>1 DEF callback_fire, CursorInv
  <2> QED  BY <2>1, <2>2 DEF EarlyInv
<1>12. CASE callback_break
  <2>1. CursorInv'
    BY <1>12 DEF callback_break, CursorInv
  <2> QED  BY <1>1, <1>2, <1>12, <2>1, BreakSchedule DEF EarlyInv
<1>13. CASE callback_restart
  <2>1. CursorInv'
    BY <1>13 DEF callback_restart, CallbackEnd, Leave, CursorInv
  <2> QED  BY <1>1, <1>13, <2>1, RestartSchedule DEF EarlyInv
<1>14. CASE TimerTick
  <2>1. CursorInv'
    BY <1>2, <1>14 DEF TimerTick, locals, CursorInv, first
  <2> QED  BY <1>1, <1>14, <2>1, TickSchedule DEF EarlyInv
<1>15. CASE UNCHANGED vars
  <2>1. /\ Offset' = Offset /\ Reference' = Reference /\ pc' = pc
        /\ callouts_list' = callouts_list /\ ticks' = ticks /\ active' = active
        /\ left' = left /\ pos' = pos /\ c0' = c0
    BY <1>15 DEF vars, Offset, Reference, Elapsed, hardware, locals
  <2>2. \A d \in Callouts : Pending(d)' => Pending(d)
    BY <2>1 DEF Pending
  <2>3. DeadlineOk(at)'
    BY <1>1, <2>1, <2>2 DEF Schedule, DeadlineOk
  <2>4. Schedule(at)'
    BY <1>1, <2>1, <2>2, <2>3, ScheduleFrame
  <2>5. CursorInv'
    BY <1>2, <1>15 DEF vars, locals, CursorInv, first
  <2> QED  BY <2>4, <2>5 DEF EarlyInv
<1> QED
  BY <1>3, <1>4, <1>5, <1>6, <1>7, <1>8, <1>9, <1>10, <1>11, <1>12, <1>13,
     <1>14, <1>15 DEF Next, func_cancel

\* No callout function runs before its interval has passed, for any number of
\* callouts, any width of the counter and any latency, provided that callout
\* functions neither set nor cancel callouts and that callers avoid the uint32_t
\* overflow of elapsed + ticks.  Without the first of these hypotheses TLC finds
\* a counterexample (MCMdxNoschedEarly.cfg).
THEOREM NeverEarlyHolds ==
  ASSUME RearmTicks = {}, ~CbCancel, NoOverflow
  PROVE  Spec => NeverEarly
<1>1. QueueInv /\ QueueInv' /\ EarlyInv /\ [Next]_vars => EarlyInv'
  BY EarlyInvNext
<1>2. QueueInv /\ EarlyInv /\ [Next]_vars
        => [(pc = "loop" /\ pc' = "func") => left[cur] <= 0]_vars
  <2> SUFFICES ASSUME QueueInv, EarlyInv, Next, pc = "loop", pc' = "func"
               PROVE  left[cur] <= 0
    OBVIOUS
  <2>1. callback_fire
    BY DEF Next, mdx_callout_set_ticks, mdx_callout_set_zero, set_begin,
           mdx_callout_set_ticks_locked, set_one_skip, set_one_insert,
           set_one_start, mdx_callout_cancel, func_cancel, TimerIntr,
           callback_lock, func_return, callback_break, callback_restart, CallbackEnd,
           TimerTick
  <2> QED  BY <2>1, FireSchedule DEF EarlyInv
<1>3. Init => EarlyInv
  BY EarlyInit
<1>4. Spec => []QueueInv
  BY QueueInvariant
<1> QED  BY <1>1, <1>2, <1>3, <1>4, PTL DEF Spec, NeverEarly

-----------------------------------------------------------------------------
\* One iteration of the loop of mdx_callout_ticks, from acc, over a callout
\* of t ticks.
TicksStep(acc, t) ==
  IF acc.elapsed >= t
  THEN [elapsed |-> acc.elapsed - t, val |-> acc.val]
  ELSE [elapsed |-> 0, val |-> acc.val + t - acc.elapsed]

\* w records the first n iterations.
Iterates(w, n) ==
  /\ w[0] = [elapsed |-> Elapsed, val |-> 0]
  /\ \A i \in 1 .. n : w[i] = TicksStep(w[i - 1], ticks[callouts_list[i]])

\* The loop can be followed to the end of the list.
LEMMA LoopExists ==
  ASSUME QueueInv
  PROVE  \E w : /\ w = [i \in 0 .. Len(callouts_list) |-> w[i]]
                /\ Iterates(w, Len(callouts_list))
<1> DEFINE m == Len(callouts_list)
           T == {n \in 0 .. m : \E w : w = [i \in 0 .. n |-> w[i]] /\ Iterates(w, n)}
<1>0. m \in Nat
  BY ListFacts
<1>1. 0 \in T
  <2>1. PICK w : w = [i \in 0 .. 0 |-> [elapsed |-> Elapsed, val |-> 0]]
    OBVIOUS
  <2>2. w = [i \in 0 .. 0 |-> w[i]] /\ Iterates(w, 0)
    BY <2>1 DEF Iterates
  <2> QED  BY <1>0, <2>2
<1>2. ASSUME NEW n \in 0 .. m - 1, n \in T
      PROVE  n + 1 \in T
  <2> PICK w : w = [i \in 0 .. n |-> w[i]] /\ Iterates(w, n)
    BY <1>2
  <2>1. PICK v : v = [i \in 0 .. n + 1 |->
                        IF i <= n THEN w[i]
                        ELSE TicksStep(w[n], ticks[callouts_list[n + 1]])]
    OBVIOUS
  <2>2. v = [i \in 0 .. n + 1 |-> v[i]]
    BY <2>1
  <2>3. /\ \A i \in 0 .. n : v[i] = w[i]
        /\ v[n + 1] = TicksStep(w[n], ticks[callouts_list[n + 1]])
    BY <1>0, <2>1
  <2>4. Iterates(v, n + 1)
    <3>1. v[0] = [elapsed |-> Elapsed, val |-> 0]
      BY <1>0, <2>3 DEF Iterates
    <3>2. ASSUME NEW i \in 1 .. n + 1
          PROVE  v[i] = TicksStep(v[i - 1], ticks[callouts_list[i]])
      <4>1. CASE i = n + 1
        BY <1>0, <2>3, <4>1
      <4>2. CASE i \in 1 .. n
        <5>1. w[i] = TicksStep(w[i - 1], ticks[callouts_list[i]])
          BY <4>2 DEF Iterates
        <5>2. i \in 0 .. n /\ i - 1 \in 0 .. n
          BY <1>0, <4>2
        <5> QED  BY <2>3, <5>1, <5>2
      <4> QED  BY <1>0, <4>1, <4>2
    <3> QED  BY <3>1, <3>2 DEF Iterates
  <2> QED  BY <1>0, <2>2, <2>4
<1>3. m \in T
  <2> SUFFICES ASSUME m \notin T  PROVE FALSE
    OBVIOUS
  <2> DEFINE U == {n \in 0 .. m : n \notin T}
  <2>1. U \in SUBSET Nat /\ U # {}
    BY <1>0
  <2> HIDE DEF T
  <2>2. PICK x \in U : \A y \in U : x <= y
    <3> HIDE DEF U
    <3> QED  BY <2>1, LeastNat
  <2>3. x \in 1 .. m /\ x - 1 \notin U
    BY <1>0, <1>1, <2>2
  <2>4. x - 1 \in 0 .. m - 1 /\ x - 1 \in T
    BY <1>0, <2>3
  <2>5. (x - 1) + 1 \in T
    BY <1>2, <2>4
  <2> QED  BY <1>0, <2>2, <2>3, <2>5
<1> QED  BY <1>3

\* mdx_callout_ticks returns what its loop has in val at its callout.
LEMMA TicksLoop ==
  ASSUME QueueInv
  PROVE  \E w : /\ Iterates(w, Len(callouts_list))
                /\ \A c \in active : mdx_callout_ticks(c) = w[Index(c)].val
<1> DEFINE m == Len(callouts_list)
           F(w) == [i \in 0 .. m |->
                      IF i = 0 THEN [elapsed |-> Elapsed, val |-> 0]
                      ELSE TicksStep(w[i - 1], ticks[callouts_list[i]])]
<1>0. m \in Nat
  BY ListFacts
<1>1. \E w : w = F(w)
  <2> PICK w : w = [i \in 0 .. m |-> w[i]] /\ Iterates(w, m)
    BY LoopExists
  <2>1. ASSUME NEW i \in 0 .. m
        PROVE  w[i] = IF i = 0 THEN [elapsed |-> Elapsed, val |-> 0]
                      ELSE TicksStep(w[i - 1], ticks[callouts_list[i]])
    <3>1. CASE i = 0
      BY <3>1 DEF Iterates
    <3>2. CASE i \in 1 .. m
      BY <3>2 DEF Iterates
    <3> QED  BY <1>0, <3>1, <3>2
  <2>2. F(w) = [i \in 0 .. m |-> w[i]]
    BY <2>1
  <2> QED  BY <2>2
<1>2. PICK x : x = CHOOSE w : w = F(w)
  OBVIOUS
<1>3. x = F(x)
  <2> HIDE DEF F
  <2> QED  BY <1>1, <1>2
<1>4. Iterates(x, m)
  BY <1>0, <1>3 DEF Iterates
<1>5. ASSUME NEW c \in active
      PROVE  mdx_callout_ticks(c) = x[Index(c)].val
  BY <1>2 DEF mdx_callout_ticks, TicksStep
<1> QED  BY <1>4, <1>5

\* After i iterations val exceeds the elapsed ticks that are still to be taken
\* off by the time of the i-th callout less what has elapsed.
LEMMA LoopSum ==
  ASSUME QueueInv, pc = "idle", NEW at \in [Callouts -> Int],
         HeadOk(at), DeltaOk(at),
         NEW w, Iterates(w, Len(callouts_list)), NEW j \in 1 .. Len(callouts_list)
  PROVE  /\ w[j].val \in Nat
         /\ w[j].val >= at[callouts_list[j]] - Elapsed
<1> DEFINE l == callouts_list
           m == Len(callouts_list)
           P(n) == /\ w[n].elapsed \in Nat /\ w[n].val \in Nat
                   /\ w[n].val - w[n].elapsed = at[l[n]] - Elapsed
<1>0. /\ m \in Nat /\ \A i \in 1 .. m : l[i] \in Callouts
      /\ l # <<>> /\ Elapsed \in Nat
  <2>1. Elapsed \in Nat
    BY ElapsedType DEF QueueInv, TypeOK, TimerTypeOK, Elapsed
  <2> QED  BY <2>1, ListFacts
<1>1. ASSUME NEW i \in 1 .. m  PROVE ticks[l[i]] \in Nat /\ at[l[i]] \in Int
  BY <1>0, CalloutAssumption DEF QueueInv, TypeOK, QueueTypeOK
<1>2. ASSUME NEW a, a.elapsed \in Nat, a.val \in Nat, NEW t \in Nat
      PROVE  /\ TicksStep(a, t).elapsed \in Nat /\ TicksStep(a, t).val \in Nat
             /\ TicksStep(a, t).val - TicksStep(a, t).elapsed = a.val - a.elapsed + t
  BY <1>2 DEF TicksStep
<1>3. P(1)
  <2>1. 1 \in 1 .. m
    BY <1>0
  <2>2. w[1] = TicksStep(w[0], ticks[l[1]]) /\ w[0] = [elapsed |-> Elapsed, val |-> 0]
    BY <1>0, <2>1 DEF Iterates
  <2>3. ticks[l[1]] = at[l[1]]
    BY <1>0, <1>1, <2>1 DEF HeadOk, Offset
  <2>4. w[0].elapsed = Elapsed /\ w[0].val = 0
    BY <2>2
  <2>5. /\ w[1].elapsed \in Nat /\ w[1].val \in Nat
        /\ w[1].val - w[1].elapsed = 0 - Elapsed + ticks[l[1]]
    <3>1. PICK a : a = w[0]
      OBVIOUS
    <3>2. PICK t \in Nat : t = ticks[l[1]]
      BY <1>1, <2>1
    <3>3. a.elapsed \in Nat /\ a.val \in Nat /\ a.elapsed = Elapsed /\ a.val = 0
      BY <1>0, <2>4, <3>1
    <3>4. w[1] = TicksStep(a, t)
      BY <2>2, <3>1, <3>2
    <3>5. /\ w[1].elapsed \in Nat /\ w[1].val \in Nat
          /\ w[1].val - w[1].elapsed = a.val - a.elapsed + t
      BY <1>2, <3>3, <3>4
    <3>6. a.val - a.elapsed + t = 0 - Elapsed + ticks[l[1]]
      BY <3>2, <3>3
    <3> QED  BY <3>5, <3>6
  <2> QED  BY <1>0, <1>1, <2>1, <2>3, <2>5
<1>4. ASSUME NEW n \in 1 .. m - 1, P(n)  PROVE P(n + 1)
  <2>1. n + 1 \in 1 .. m /\ n \in 1 .. m
    BY <1>0
  <2>2. w[n + 1] = TicksStep(w[n], ticks[l[n + 1]])
    BY <1>0, <2>1 DEF Iterates
  <2>3. ticks[l[n + 1]] = at[l[n + 1]] - at[l[n]]
    BY DEF DeltaOk
  <2>4. /\ w[n + 1].elapsed \in Nat /\ w[n + 1].val \in Nat
        /\ w[n + 1].val - w[n + 1].elapsed = w[n].val - w[n].elapsed + ticks[l[n + 1]]
    BY <1>1, <1>2, <1>4, <2>1, <2>2
  <2> QED  BY <1>0, <1>1, <1>4, <2>1, <2>3, <2>4
<1> HIDE DEF P
<1>5. P(j)
  <2> SUFFICES ASSUME ~P(j)  PROVE FALSE
    OBVIOUS
  <2> DEFINE U == {n \in 1 .. m : ~P(n)}
  <2>1. U \in SUBSET Nat /\ U # {}
    BY <1>0
  <2>2. PICK x \in U : \A y \in U : x <= y
    <3> HIDE DEF U
    <3> QED  BY <2>1, LeastNat
  <2>3. x \in 2 .. m /\ x - 1 \notin U
    BY <1>0, <1>3, <2>2
  <2>4. x - 1 \in 1 .. m - 1 /\ P(x - 1)
    BY <1>0, <2>3
  <2>5. P((x - 1) + 1)
    BY <1>4, <2>4
  <2> QED  BY <1>0, <2>2, <2>3, <2>5
<1> QED  BY <1>0, <1>1, <1>5 DEF P

\* What mdx_callout_ticks returns is never less than the time really left: who
\* sleeps that long does not wake before the function has been called.  For any
\* number of callouts and every counter, under the hypotheses of NeverEarlyHolds.
THEOREM TicksLeftHonestHolds ==
  ASSUME RearmTicks = {}, ~CbCancel, NoOverflow
  PROVE  Spec => []TicksLeftHonest
<1>1. QueueInv /\ QueueInv' /\ EarlyInv /\ [Next]_vars => EarlyInv'
  BY EarlyInvNext
<1>2. QueueInv /\ EarlyInv => TicksLeftHonest
  <2> SUFFICES ASSUME QueueInv, EarlyInv, pc = "idle", NEW c \in active
               PROVE  mdx_callout_ticks(c) >= left[c]
    BY DEF TicksLeftHonest
  <2> PICK at \in [Callouts -> Int] : Schedule(at)
    BY DEF EarlyInv
  <2> PICK w : /\ Iterates(w, Len(callouts_list))
               /\ \A d \in active : mdx_callout_ticks(d) = w[Index(d)].val
    BY TicksLoop
  <2>1. c \in Callouts /\ OnList(c) /\ left[c] \in Int /\ at[c] \in Int
    BY DEF QueueInv, TypeOK, QueueTypeOK, LocalTypeOK, ListIntegrity
  <2>2. Index(c) \in 1 .. Len(callouts_list) /\ callouts_list[Index(c)] = c
    BY <2>1, IndexElement, ListFacts
  <2>3. PICK v \in Nat : v = mdx_callout_ticks(c) /\ v >= at[c] - Elapsed
    BY <2>2, LoopSum DEF Schedule
  <2>4. tmr_state # "ready"
    BY <2>2, ListFacts DEF QueueInv, Shape
  <2>5. left[c] > 0 => at[c] >= left[c] + Elapsed
    BY <2>1, <2>4 DEF Schedule, DeadlineOk, Pending, Reference
  <2>6. Elapsed \in Nat
    BY ElapsedType DEF QueueInv, TypeOK, TimerTypeOK, Elapsed
  <2> QED  BY <2>1, <2>3, <2>5, <2>6
<1>3. Init => EarlyInv
  BY EarlyInit
<1> QED  BY <1>1, <1>2, <1>3, QueueInvariant, PTL DEF Spec


-----------------------------------------------------------------------------
(***************************************************************************)
(* The proof that no callout is forgotten.                                 *)
(*                                                                         *)
(* The schedule is now bounded from the other side.  A callout is late by  *)
(* the time that the counter has passed its place in the schedule, and by  *)
(* the slip of the schedule itself: the ticks between mdx_callout_set and  *)
(* the moment the timer is started, and one tick where the counter wraps.  *)
(* It wraps once at most while a callout is pending.                       *)
(***************************************************************************)

\* The ticks until a counter at n meets compare register x.
Gap(x, n) == IF x > n THEN x - n ELSE x - n + MaxCnt + 1

\* The interval asked for and the place in the schedule are within the lap.
LapOk(at) ==
  \A c \in Callouts : Pending(c) =>
    left[c] + MaxLate < MaxCnt /\ at[c] + MaxLate < MaxCnt

\* The schedule is late by the time the caller took until the timer started,
\* and by one tick once the counter has wrapped.
Slip(at, c) == at[c] - Reference - left[c]
SlipOk(at) ==
  \A c \in Callouts : Pending(c) =>
    IF tmr_state = "ready" THEN Slip(at, c) <= lag
    ELSE \/ Slip(at, c) <= Latency
         \/ Slip(at, c) <= Latency + 1 /\ count + left[c] + MaxLate < MaxCnt

\* The timer is programmed for the first callout, Latency too late at most...
AimOk(at) ==
  tmr_state # "exception" /\ irq = "clear" =>
    \A c \in active :
      compare # NULL /\ Gap(compare, count) <= at[c] - Reference + Latency

\* ... the interrupt may wait for as long again...
LateOk(at) ==
  tmr_state = "exception" \/ irq = "raised" =>
    \A c \in active : at[c] - Reference >= -(Latency + lag)

\* ... and the callout being set is due after the count that its caller read.
FreshOk(at) ==
  pc \in {"walk", "armed"} => Reference <= elapsed + lag /\ at[c0] > elapsed

Punctual(at) == LapOk(at) /\ SlipOk(at) /\ AimOk(at) /\ LateOk(at) /\ FreshOk(at)

\* The interrupt is off in the callback, and it is over within the latency.
LagInv ==
  /\ lag \in 0 .. Latency
  /\ tmr_state = "ready" => active = {}
  /\ tmr_state = "exception" => Reference <= lag /\ irq = "clear" /\ compare = NULL

\* The callout that ended the loop is not due yet.
NotDue == pc = "restart" /\ callouts_list # <<>> => ticks[callouts_list[1]] > 0

\* The inductive invariant behind Prompt.
PromptInv ==
  /\ CursorInv /\ LagInv /\ NotDue
  /\ \E at \in [Callouts -> Int] : Schedule(at) /\ Punctual(at)

-----------------------------------------------------------------------------
\* Below a lap, a tick adds one to what get_elapsed returns unless it wraps.
LEMMA ElapsedTick ==
  ASSUME NEW s \in 0 .. MaxCnt, NEW n \in 0 .. MaxCnt, NEW m,
         m = IF n = MaxCnt THEN 0 ELSE n + 1, get_elapsed(s, n) <= MaxCnt - 2
  PROVE  get_elapsed(s, m) = IF n = MaxCnt THEN get_elapsed(s, n)
                             ELSE get_elapsed(s, n) + 1
BY CalloutAssumption DEF get_elapsed

\* A tick brings the counter one nearer to the compare register, or there.
LEMMA GapTick ==
  ASSUME NEW x \in 0 .. MaxCnt, NEW n \in 0 .. MaxCnt, NEW m,
         m = IF n = MaxCnt THEN 0 ELSE n + 1
  PROVE  /\ Gap(x, n) \in Int /\ Gap(x, m) \in Int /\ Gap(x, n) >= 1
         /\ m = x => Gap(x, n) = 1
         /\ m # x => Gap(x, m) = Gap(x, n) - 1
BY CalloutAssumption DEF Gap

\* mi_tmr_start puts the compare register n ticks ahead.
LEMMA StartGap ==
  ASSUME TypeOK, NEW n \in 1 .. MaxCnt, mi_tmr_start(n)
  PROVE  compare' # NULL /\ Gap(compare', count) = n
<1>1. count \in 0 .. MaxCnt /\ MaxCnt \in Nat /\ NULL \notin 0 .. MaxCnt
  BY CalloutAssumption DEF TypeOK, TimerTypeOK
<1>2. (IF n > MaxCnt THEN MaxCnt ELSE n) = n
  BY <1>1
<1>3. compare' = IF count + n > MaxCnt THEN count + n - (MaxCnt + 1) ELSE count + n
  BY <1>1, <1>2 DEF mi_tmr_start
<1>4. compare' \in 0 .. MaxCnt
  BY <1>1, <1>3
<1> QED  BY <1>1, <1>3, <1>4 DEF Gap

\* The types of the numbers, and MaxLate without a product.
LEMMA PromptTypes ==
  ASSUME QueueInv
  PROVE  /\ Reference \in 0 .. MaxCnt /\ MaxCnt \in Nat /\ Latency \in Nat
         /\ MaxLate \in Nat /\ MaxLate = Latency + Latency + Latency + 1
         /\ count \in 0 .. MaxCnt /\ lag \in Nat /\ elapsed \in Nat
         /\ compare \in (0 .. MaxCnt) \cup {NULL} /\ NULL \notin 0 .. MaxCnt
         /\ left \in [Callouts -> Int] /\ irq \in {"clear", "raised"}
         /\ tmr_state \in {"ready", "running", "exception"}
         /\ count_saved \in 0 .. MaxCnt
<1>1. /\ MaxCnt \in Nat /\ Latency \in Nat /\ WordMax \in Nat /\ NULL \notin 0 .. MaxCnt
  BY CalloutAssumption
<1>2. MaxLate \in Nat /\ MaxLate = Latency + Latency + Latency + 1
  BY <1>1 DEF MaxLate
<1>3. /\ count \in 0 .. MaxCnt /\ lag \in Nat /\ elapsed \in 0 .. WordMax
      /\ compare \in (0 .. MaxCnt) \cup {NULL} /\ count_saved \in 0 .. MaxCnt
      /\ left \in [Callouts -> Int] /\ irq \in {"clear", "raised"}
      /\ tmr_state \in {"ready", "running", "exception"}
  BY DEF QueueInv, TypeOK, TimerTypeOK, LocalTypeOK
<1>4. Elapsed \in 0 .. MaxCnt
  BY <1>3, ElapsedType DEF Elapsed
<1>5. Reference \in 0 .. MaxCnt
  BY <1>1, <1>4 DEF Reference
<1> QED  BY <1>1, <1>2, <1>3, <1>5

\* The bounds that the invariant gives every pending callout.
LEMMA PendingRoom ==
  ASSUME QueueInv, LagInv, NEW at \in [Callouts -> Int], Punctual(at),
         NEW c \in Callouts, Pending(c)
  PROVE  /\ at[c] - Reference >= -(Latency + Latency)
         /\ Reference <= MaxCnt - 2
         /\ left[c] >= -MaxLate
<1>1. PICK r \in Nat, L \in Nat, x \in Int, y \in Int, g \in Nat :
        /\ r = Reference /\ L = Latency /\ x = at[c] /\ y = left[c] /\ g = lag
        /\ MaxLate = L + L + L + 1 /\ MaxCnt \in Nat
  BY PromptTypes
<1>2. g <= L
  BY <1>1 DEF LagInv
<1>3. x + (L + L + L + 1) < MaxCnt
  BY <1>1 DEF Punctual, LapOk
<1>4. x - r - y <= L + 1
  <2>1. tmr_state = "ready" => x - r - y <= g
    BY <1>1 DEF Punctual, SlipOk, Slip
  <2>2. tmr_state # "ready" => x - r - y <= L + 1
    BY <1>1 DEF Punctual, SlipOk, Slip
  <2> QED  BY <1>1, <1>2, <2>1, <2>2
<1>5. x - r >= -(L + L)
  <2>1. CASE c \in active /\ (tmr_state = "exception" \/ irq = "raised")
    <3>1. x - r >= -(L + g)
      BY <1>1, <2>1 DEF Punctual, LateOk
    <3> QED  BY <1>1, <1>2, <3>1
  <2>2. CASE c \in active /\ tmr_state # "exception" /\ irq = "clear"
    <3>1. compare # NULL /\ Gap(compare, count) <= x - r + L
      BY <1>1, <2>2 DEF Punctual, AimOk
    <3>2. Gap(compare, count) \in Int /\ Gap(compare, count) >= 1
      BY <3>1, PromptTypes, GapTick
    <3> QED  BY <1>1, <3>1, <3>2
  <2>3. CASE c \notin active
    <3>1. pc \in {"walk", "armed"} /\ c = c0
      BY <2>3 DEF Pending
    <3>2. r <= elapsed + g /\ x > elapsed /\ elapsed \in Nat
      BY <1>1, <3>1, PromptTypes DEF Punctual, FreshOk
    <3> QED  BY <1>1, <1>2, <3>2
  <2> QED  BY <2>1, <2>2, <2>3, PromptTypes
<1>6. r <= MaxCnt - 2
  BY <1>1, <1>3, <1>5
<1>7. y >= -(L + L + L + 1)
  BY <1>1, <1>4, <1>5
<1> QED  BY <1>1, <1>5, <1>6, <1>7

\* A step that takes no time and sets nothing.
LEMMA PunctualFrame ==
  ASSUME QueueInv, NEW at \in [Callouts -> Int], Punctual(at),
         UNCHANGED <<tmr_state, count_saved, count, compare, irq, lag>>,
         active' \subseteq active,
         \A c \in Callouts : Pending(c)' => Pending(c) /\ left'[c] = left[c],
         pc' \in {"walk", "armed"} =>
           pc \in {"walk", "armed"} /\ c0' = c0 /\ elapsed' = elapsed
  PROVE  Punctual(at)'
<1>1. Reference' = Reference
  BY DEF Reference, Elapsed
<1>2. LapOk(at)'
  BY DEF Punctual, LapOk
<1>3. SlipOk(at)'
  BY <1>1 DEF Punctual, SlipOk, Slip
<1>4. AimOk(at)' /\ LateOk(at)'
  BY <1>1 DEF Punctual, AimOk, LateOk
<1>5. FreshOk(at)'
  BY <1>1 DEF Punctual, FreshOk
<1> QED  BY <1>2, <1>3, <1>4, <1>5 DEF Punctual

\* It keeps the latency too.
LEMMA LagFrame ==
  ASSUME LagInv, UNCHANGED <<tmr_state, count_saved, count, compare, irq, lag>>,
         active' \subseteq active
  PROVE  LagInv'
<1>1. Reference' = Reference
  BY DEF Reference, Elapsed
<1> QED  BY <1>1 DEF LagInv

\* Setting a callout: its interval is within the lap.
LEMMA SetPunctual ==
  ASSUME QueueInv, QueueInv', LagInv, LapSafe, NEW at \in [Callouts -> Int], Punctual(at),
         NEW c \in Callouts, NEW t \in SetTicks, mdx_callout_set_ticks(c, t),
         NEW bt \in [Callouts -> Int],
         bt = [at EXCEPT ![c] = t + IF tmr_state = "running" THEN Elapsed ELSE 0]
  PROVE  Punctual(bt)' /\ LagInv'
<1>1. PICK e : e = IF tmr_state = "running" THEN Elapsed ELSE 0
  OBVIOUS
<1>2. /\ pc = "idle" /\ pc' = "walk" /\ c0' = c /\ c \notin active /\ t > 0
      /\ e + t + MaxLate < MaxCnt /\ left' = [left EXCEPT ![c] = t]
      /\ elapsed' = e
      /\ UNCHANGED <<callouts_list, active, tmr_state, count_saved, count, compare,
                     irq, lag>>
  BY <1>1 DEF mdx_callout_set_ticks, set_begin, hardware, InCallback, QueueInv, Shape
<1>3. Reference' = Reference /\ e = Reference
  BY <1>1, <1>2 DEF Reference, Elapsed, QueueInv, Shape, TypeOK, TimerTypeOK
<1>4. /\ t \in Nat /\ e \in Nat /\ MaxLate \in Nat /\ MaxCnt \in Nat /\ lag \in Nat
      /\ Latency \in Nat /\ left \in [Callouts -> Int] /\ count \in Nat
  <2>1. t \in Nat
    BY CalloutAssumption
  <2>2. Reference \in Nat /\ count \in Nat
    BY PromptTypes
  <2> QED  BY <1>3, <2>1, <2>2, PromptTypes
<1>5. /\ bt[c] = t + e /\ left'[c] = t
      /\ \A d \in Callouts : d # c => bt[d] = at[d] /\ left'[d] = left[d]
  BY <1>1, <1>2, <1>4
<1>6. \A d \in Callouts : d # c => (Pending(d)' <=> Pending(d))
  BY <1>2 DEF Pending
<1>7. LapOk(bt)'
  BY <1>2, <1>4, <1>5, <1>6 DEF Punctual, LapOk
<1>8. SlipOk(bt)'
  <2> SUFFICES ASSUME NEW d \in Callouts, Pending(d)'
               PROVE  IF tmr_state = "ready" THEN Slip(bt, d)' <= lag
                      ELSE \/ Slip(bt, d)' <= Latency
                           \/ Slip(bt, d)' <= Latency + 1 /\ count + left'[d] + MaxLate < MaxCnt
    BY <1>2 DEF SlipOk
  <2>1. CASE d = c
    <3>1. Slip(bt, d)' = 0
      BY <1>3, <1>4, <1>5, <2>1 DEF Slip
    <3> QED  BY <1>4, <3>1
  <2>2. CASE d # c
    <3>1. Slip(bt, d)' = Slip(at, d) /\ left'[d] = left[d]
      BY <1>3, <1>5, <2>2 DEF Slip
    <3> QED  BY <1>6, <2>2, <3>1 DEF Punctual, SlipOk
  <2> QED  BY <2>1, <2>2
<1>9. \A d \in active : d \in Callouts /\ bt[d] = at[d]
  BY <1>2, <1>5 DEF QueueInv, TypeOK, QueueTypeOK
<1>10. AimOk(bt)' /\ LateOk(bt)'
  BY <1>2, <1>3, <1>9 DEF Punctual, AimOk, LateOk
<1>11. FreshOk(bt)'
  BY <1>2, <1>3, <1>4, <1>5 DEF FreshOk
<1>12. LagInv'
  BY <1>2, LagFrame
<1> QED  BY <1>7, <1>8, <1>10, <1>11, <1>12 DEF Punctual

\* The first callout of the list is due first.
LEMMA FirstSoonest ==
  ASSUME QueueInv, NEW at \in [Callouts -> Int], Schedule(at), callouts_list # <<>>
  PROVE  /\ first = callouts_list[1] /\ first \in Callouts /\ at[first] \in Int
         /\ ticks[first] = at[first] + Offset
         /\ \A c \in active \cup (IF pc = "armed" THEN {c0} ELSE {}) :
              c \in Callouts /\ at[c] \in Int /\ at[first] <= at[c]
<1>1. first = callouts_list[1] /\ 1 \in 1 .. Len(callouts_list) /\ first \in Callouts
  BY ListFacts DEF first
<1>2. ticks[first] = at[first] + Offset
  BY <1>1 DEF Schedule, HeadOk
<1>3. ASSUME NEW c \in active \cup (IF pc = "armed" THEN {c0} ELSE {})
      PROVE  c \in Callouts /\ at[c] \in Int /\ at[first] <= at[c]
  <2>1. c \in Callouts
    BY DEF QueueInv, TypeOK, QueueTypeOK, Shape
  <2>2. OnList(c)
    BY <2>1 DEF QueueInv, ListIntegrity
  <2>3. PICK i \in 1 .. Len(callouts_list) : callouts_list[i] = c
    BY <2>2, ListFacts DEF OnList
  <2>4. 1 <= i
    BY ListFacts
  <2> QED  BY <1>1, <2>1, <2>3, <2>4 DEF Schedule, SortedOk
<1> QED  BY <1>1, <1>2, <1>3

\* The timer is started for the callout that was set, or goes on.
LEMMA StartPunctual ==
  ASSUME QueueInv, QueueInv', LagInv, CursorInv, NEW at \in [Callouts -> Int],
         Schedule(at), Punctual(at), set_one_start
  PROVE  Punctual(at)' /\ LagInv'
<1>1. /\ pc = "armed" /\ pc' = "idle" /\ count' = count /\ left' = left
      /\ active' = active \cup {c0} /\ lag' = IF irq' = "raised" THEN lag ELSE 0
      /\ tmr_state \in {"running", "ready"} /\ tmr_state' = "running"
      /\ tmr_state = "ready" => count_saved' = count
      /\ tmr_state = "running" => count_saved' = count_saved
  BY DEF set_one_start, CursorInv, InCallback, Leave, mi_tmr_start, hardware
<1>2. /\ Reference' = Reference
      /\ tmr_state = "ready" => Reference = 0
  BY <1>1 DEF Reference, Elapsed, get_elapsed, QueueInv, TypeOK, TimerTypeOK
<1>3. \A c \in Callouts : Pending(c)' <=> Pending(c)
  BY <1>1 DEF Pending
<1>4. c0 \in Callouts /\ OnList(c0) /\ callouts_list # <<>> /\ Pending(c0)
  <2>1. c0 \in Callouts
    BY <1>1 DEF QueueInv, Shape
  <2>2. OnList(c0)
    BY <1>1, <2>1 DEF QueueInv, ListIntegrity
  <2> QED  BY <1>1, <2>1, <2>2 DEF OnList, Pending
<1>5. Offset = 0
  BY <1>1 DEF Offset
<1>6. /\ first \in Callouts /\ at[first] \in Int /\ ticks[first] = at[first]
      /\ \A c \in active' : c \in Callouts /\ at[c] \in Int /\ at[first] <= at[c]
  BY <1>1, <1>4, <1>5, FirstSoonest
<1>7. PICK r \in Nat, L \in Nat, g \in Nat, el \in Nat, x \in Int, M \in Nat :
        /\ r = Reference /\ L = Latency /\ g = lag /\ el = elapsed /\ x = at[c0]
        /\ M = MaxCnt /\ MaxLate \in Nat /\ g <= L
        /\ r <= el + g /\ x > el /\ x + MaxLate < M
  <2>1. Reference \in Nat
    BY PromptTypes
  <2>2. lag <= Latency /\ Latency \in Nat
    BY PromptTypes DEF LagInv
  <2>3. Reference <= elapsed + lag /\ at[c0] > elapsed /\ at[c0] + MaxLate < MaxCnt
    BY <1>1, <1>4 DEF Punctual, FreshOk, LapOk
  <2> QED  BY <1>4, <2>1, <2>2, <2>3, PromptTypes
<1>8. lag' \in 0 .. Latency /\ LagInv'
  <2>1. lag' \in 0 .. Latency
    BY <1>1, <1>7
  <2> QED  BY <1>1, <2>1 DEF LagInv
<1>9. LapOk(at)'
  BY <1>1, <1>3 DEF Punctual, LapOk
<1>10. SlipOk(at)'
  <2> SUFFICES ASSUME NEW c \in Callouts, Pending(c)
               PROVE  \/ Slip(at, c) <= Latency
                      \/ Slip(at, c) <= Latency + 1 /\ count + left[c] + MaxLate < MaxCnt
    BY <1>1, <1>2, <1>3 DEF SlipOk, Slip
  <2>1. CASE tmr_state = "ready"
    <3>1. Slip(at, c) <= g
      BY <1>7, <2>1 DEF Punctual, SlipOk
    <3>2. Slip(at, c) \in Int
      BY <1>7, PromptTypes DEF Slip
    <3> QED  BY <1>7, <3>1, <3>2
  <2>2. CASE tmr_state # "ready"
    BY <2>2 DEF Punctual, SlipOk
  <2> QED  BY <2>1, <2>2
<1>11. FreshOk(at)'
  BY <1>1 DEF FreshOk
<1>12. CASE c0 = first /\ \E n \in 1 .. MaxCnt : n <= x - r + L /\ mi_tmr_start(n)
  <2>1. PICK n \in 1 .. MaxCnt : n <= x - r + L /\ mi_tmr_start(n)
    BY <1>12
  <2>2. compare' # NULL /\ Gap(compare', count) = n
    BY <2>1, StartGap DEF QueueInv
  <2>3. \A c \in active' : at[c] \in Int /\ x <= at[c]
    BY <1>6, <1>7, <1>12
  <2>4. AimOk(at)'
    <3> SUFFICES ASSUME NEW c \in active'
                 PROVE  compare' # NULL /\ Gap(compare', count) <= at[c] - Reference + Latency
      BY <1>1, <1>2 DEF AimOk
    <3>1. at[c] \in Int /\ x <= at[c]
      BY <2>3
    <3>2. n <= at[c] - r + L
      BY <1>7, <2>1, <3>1
    <3> QED  BY <1>7, <2>2, <3>2
  <2>5. LateOk(at)'
    <3> SUFFICES ASSUME irq' = "raised", NEW c \in active'
                 PROVE  at[c] - Reference >= -(Latency + lag)
      BY <1>1, <1>2 DEF LateOk
    <3>1. at[c] \in Int /\ x <= at[c]
      BY <2>3
    <3>2. at[c] - r >= -(L + g)
      BY <1>7, <3>1
    <3> QED  BY <1>7, <3>2
  <2> QED  BY <1>8, <1>9, <1>10, <1>11, <2>4, <2>5 DEF Punctual
<1>13. CASE c0 # first /\ UNCHANGED <<compare, irq>> /\ tmr_state = "running"
  <2>1. first \in active
    <3>1. OnList(first)
      BY <1>4, <1>6, FirstElement DEF QueueInv
    <3> QED  BY <1>6, <1>13, <3>1 DEF QueueInv, ListIntegrity
  <2>2. AimOk(at)'
    <3> SUFFICES ASSUME irq = "clear", NEW c \in active'
                 PROVE  compare # NULL /\ Gap(compare, count) <= at[c] - Reference + Latency
      BY <1>1, <1>2, <1>13 DEF AimOk
    <3>1. compare # NULL /\ Gap(compare, count) <= at[first] - r + L
      BY <1>7, <1>13, <2>1 DEF Punctual, AimOk
    <3>2. Gap(compare, count) \in Int
      BY <3>1, PromptTypes, GapTick
    <3>3. at[c] \in Int /\ at[first] \in Int /\ at[first] <= at[c]
      BY <1>6
    <3>4. Gap(compare, count) <= at[c] - r + L
      BY <1>7, <3>1, <3>2, <3>3
    <3> QED  BY <1>7, <3>1, <3>4
  <2>3. LateOk(at)'
    <3> SUFFICES ASSUME irq = "raised", NEW c \in active'
                 PROVE  at[c] - Reference >= -(Latency + lag)
      BY <1>1, <1>2, <1>13 DEF LateOk
    <3>1. at[first] - r >= -(L + g)
      BY <1>7, <2>1 DEF Punctual, LateOk
    <3>2. at[c] \in Int /\ at[first] \in Int /\ at[first] <= at[c]
      BY <1>6
    <3>3. at[c] - r >= -(L + g)
      BY <1>7, <3>1, <3>2
    <3> QED  BY <1>7, <3>3
  <2> QED  BY <1>8, <1>9, <1>10, <1>11, <2>2, <2>3 DEF Punctual
<1>14. CASE tmr_state = "running" /\ c0 = first
  <2>1. mi_tmr_start(WordSub(ticks[c0], elapsed))
    BY <1>14 DEF set_one_start, InCallback
  <2>2. ticks[c0] = x
    BY <1>6, <1>7, <1>14
  <2>3. WordSub(ticks[c0], elapsed) = x - el
    BY <1>7, <2>2 DEF WordSub
  <2>4. x - el \in 1 .. MaxCnt /\ x - el <= x - r + L
    BY <1>7
  <2> QED  BY <1>12, <1>14, <2>1, <2>3, <2>4
<1>15. CASE tmr_state = "running" /\ c0 # first
  BY <1>13, <1>15 DEF set_one_start, InCallback, hardware
<1>16. CASE tmr_state = "ready"
  <2>1. mi_tmr_start(ticks[first])
    BY <1>16 DEF set_one_start, InCallback
  <2>2. active = {}
    BY <1>16 DEF LagInv
  <2>3. OnList(first)
    BY <1>4, <1>6, FirstElement DEF QueueInv
  <2>4. c0 = first
    BY <1>6, <2>2, <2>3 DEF QueueInv, ListIntegrity
  <2>5. ticks[first] = x /\ r = 0
    BY <1>2, <1>6, <1>7, <1>16, <2>4
  <2>6. x \in 1 .. MaxCnt /\ x <= x - r + L
    BY <1>7, <2>5
  <2> QED  BY <1>12, <2>1, <2>4, <2>5, <2>6
<1> QED  BY <1>1, <1>14, <1>15, <1>16

\* The interrupt moves the origin of the schedule to the present count.
LEMMA IntrPunctual ==
  ASSUME QueueInv, QueueInv', LagInv, NEW at \in [Callouts -> Int], Punctual(at),
         TimerIntr, NEW bt \in [Callouts -> Int],
         callouts_list # <<>> => bt = [c \in Callouts |-> at[c] - Elapsed]
  PROVE  Punctual(bt)' /\ LagInv'
<1>1. /\ left' = left /\ active' = active /\ count' = count /\ pc = "idle"
      /\ irq = "raised" /\ irq' = "clear" /\ compare' = NULL
  BY DEF TimerIntr
<1>2. CASE callouts_list = <<>>
  <2>1. active = {}
    BY <1>1, <1>2 DEF QueueInv, ListIntegrity, OnList, TypeOK, QueueTypeOK
  <2>2. pc' = "idle" /\ lag' = 0 /\ tmr_state' = tmr_state /\ tmr_state # "exception"
    BY <1>1, <1>2 DEF TimerIntr, Leave, QueueInv, Shape
  <2>3. LapOk(bt)' /\ SlipOk(bt)' /\ AimOk(bt)' /\ LateOk(bt)' /\ FreshOk(bt)'
    BY <1>1, <2>1, <2>2 DEF LapOk, SlipOk, AimOk, LateOk, FreshOk, Pending
  <2>4. LagInv'
    BY <1>1, <2>1, <2>2, CalloutAssumption DEF LagInv
  <2> QED  BY <2>3, <2>4 DEF Punctual
<1>3. CASE callouts_list # <<>>
  <2>1. /\ pc' = "lock" /\ count_saved' = count /\ lag' = lag
        /\ tmr_state' = "exception" /\ tmr_state = "running"
    BY <1>1, <1>3 DEF TimerIntr, QueueInv, Shape, TypeOK, TimerTypeOK
  <2>2. Reference' = 0 /\ Reference = Elapsed
    BY <1>1, <2>1 DEF Reference, Elapsed, get_elapsed, QueueInv, TypeOK, TimerTypeOK
  <2>3. PICK e \in Nat : e = Reference
    BY PromptTypes
  <2>4. \A c \in Callouts : at[c] \in Int /\ bt[c] = at[c] - e /\ bt[c] \in Int
    BY <1>3, <2>2, <2>3
  <2>5. \A c \in Callouts : Pending(c)' <=> Pending(c)
    BY <1>1, <2>1 DEF Pending
  <2>6. LapOk(bt)'
    <3> SUFFICES ASSUME NEW c \in Callouts, Pending(c)
                 PROVE  left[c] + MaxLate < MaxCnt /\ bt[c] + MaxLate < MaxCnt
      BY <1>1, <2>5 DEF LapOk
    <3>1. left[c] + MaxLate < MaxCnt /\ at[c] + MaxLate < MaxCnt
      BY DEF Punctual, LapOk
    <3>2. PICK x \in Int, M \in Nat, N \in Nat : x = at[c] /\ M = MaxLate /\ N = MaxCnt
      BY PromptTypes
    <3>3. (x - e) + M < N
      BY <2>3, <3>1, <3>2
    <3> QED  BY <2>4, <3>1, <3>2, <3>3
  <2>7. SlipOk(bt)'
    <3> SUFFICES ASSUME NEW c \in Callouts, Pending(c)
                 PROVE  \/ Slip(bt, c)' <= Latency
                        \/ Slip(bt, c)' <= Latency + 1 /\ count + left[c] + MaxLate < MaxCnt
      BY <1>1, <2>1, <2>5 DEF SlipOk
    <3>1. Slip(bt, c)' = Slip(at, c)
      BY <1>1, <2>2, <2>3, <2>4, PromptTypes DEF Slip
    <3> QED  BY <2>1, <3>1 DEF Punctual, SlipOk
  <2>8. AimOk(bt)' /\ FreshOk(bt)'
    BY <2>1 DEF AimOk, FreshOk
  <2>9. LateOk(bt)'
    <3> SUFFICES ASSUME NEW c \in active
                 PROVE  bt[c] - 0 >= -(Latency + lag)
      BY <1>1, <2>1, <2>2 DEF LateOk
    <3>1. c \in Callouts
      BY DEF QueueInv, TypeOK, QueueTypeOK
    <3>2. at[c] - e >= -(Latency + lag)
      BY <1>1, <2>3 DEF Punctual, LateOk
    <3> QED  BY <2>4, <3>1, <3>2
  <2>10. LagInv'
    BY <1>1, <2>1, <2>2, PromptTypes DEF LagInv
  <2> QED  BY <2>6, <2>7, <2>8, <2>9, <2>10 DEF Punctual
<1> QED  BY <1>2, <1>3

\* The timer is programmed for the first callout that the loop has left, as
\* many ticks late as the callback has taken.
LEMMA RestartPunctual ==
  ASSUME QueueInv, QueueInv', LagInv, NotDue, NEW at \in [Callouts -> Int],
         Schedule(at), Punctual(at), callback_restart
  PROVE  Punctual(at)' /\ LagInv'
<1>1. /\ pc = "restart" /\ pc' = "idle" /\ active' = active /\ left' = left
      /\ callouts_list' = callouts_list
      /\ count_saved' = count_saved /\ count' = count
      /\ lag' = IF irq' = "raised" THEN lag ELSE 0
      /\ tmr_state = "exception"
  BY DEF callback_restart, CallbackEnd, Leave, mi_tmr_start, mi_tmr_stop, QueueInv, Shape
<1>2. /\ Reference <= lag /\ irq = "clear" /\ lag \in 0 .. Latency /\ Latency \in Nat
  BY <1>1, CalloutAssumption DEF LagInv
<1>3. irq' = "clear" /\ lag' = 0
  BY <1>1, <1>2 DEF callback_restart, mi_tmr_start, mi_tmr_stop
<1>4. FreshOk(at)' /\ LateOk(at)'
  <2>1. tmr_state' # "exception"
    BY <1>1 DEF QueueInv, Shape
  <2> QED  BY <1>1, <1>3, <2>1 DEF FreshOk, LateOk
<1>5. CASE callouts_list = <<>>
  <2>1. active = {}
    BY <1>1, <1>5 DEF QueueInv, ListIntegrity, OnList, TypeOK, QueueTypeOK
  <2>2. tmr_state' # "exception"
    BY <1>1 DEF QueueInv, Shape
  <2>3. LapOk(at)' /\ SlipOk(at)' /\ AimOk(at)'
    BY <1>1, <2>1 DEF LapOk, SlipOk, AimOk, Pending
  <2>4. LagInv'
    BY <1>1, <1>2, <1>3, <2>1, <2>2 DEF LagInv
  <2> QED  BY <1>4, <2>3, <2>4 DEF Punctual
<1>6. CASE callouts_list # <<>>
  <2>1. Offset = 0
    BY <1>1 DEF Offset
  <2>2. /\ first \in Callouts /\ at[first] \in Int /\ ticks[first] = at[first]
        /\ first = callouts_list[1]
        /\ \A c \in active : c \in Callouts /\ at[c] \in Int /\ at[first] <= at[c]
    BY <1>6, <2>1, FirstSoonest
  <2>3. first # NULL
    BY <2>2, CalloutAssumption
  <2>4. tmr_state' = "running" /\ mi_tmr_start(ticks[first])
    BY <2>3 DEF callback_restart
  <2>5. Reference' = Reference
    BY <1>1, <2>4 DEF Reference, Elapsed
  <2>6. PICK r \in Nat, L \in Nat, x \in Int, M \in Nat :
          /\ r = Reference /\ L = Latency /\ x = at[first] /\ M = MaxCnt /\ r <= L
          /\ x > 0 /\ x + MaxLate < M /\ MaxLate \in Nat
    <3>1. at[first] > 0
      BY <1>1, <1>6, <2>2 DEF NotDue
    <3>2. Pending(first)
      <4>1. OnList(first)
        BY <1>6, FirstElement DEF QueueInv
      <4> QED  BY <1>1, <2>2, <4>1 DEF QueueInv, ListIntegrity, Pending
    <3>3. at[first] + MaxLate < MaxCnt
      BY <2>2, <3>2 DEF Punctual, LapOk
    <3>4. Reference \in Nat /\ Reference <= Latency
      BY <1>2, PromptTypes
    <3> QED  BY <2>2, <3>1, <3>3, <3>4, PromptTypes
  <2>7. x \in 1 .. MaxCnt
    BY <2>6
  <2>8. compare' # NULL /\ Gap(compare', count) = x
    BY <2>2, <2>4, <2>6, <2>7, StartGap DEF QueueInv
  <2>9. AimOk(at)'
    <3> SUFFICES ASSUME NEW c \in active
                 PROVE  compare' # NULL /\ Gap(compare', count) <= at[c] - Reference + Latency
      BY <1>1, <2>5 DEF AimOk
    <3>1. at[c] \in Int /\ x <= at[c]
      BY <2>2, <2>6
    <3>2. x <= at[c] - r + L
      BY <2>6, <3>1
    <3> QED  BY <2>6, <2>8, <3>2
  <2>10. \A c \in Callouts : Pending(c)' => Pending(c)
    BY <1>1 DEF Pending
  <2>11. LapOk(at)' /\ SlipOk(at)'
    BY <1>1, <2>4, <2>5, <2>10 DEF Punctual, LapOk, SlipOk, Slip
  <2>12. LagInv'
    BY <1>2, <1>3, <2>4 DEF LagInv
  <2> QED  BY <1>4, <2>9, <2>11, <2>12 DEF Punctual
<1> QED  BY <1>5, <1>6

\* A tick of the counter.
LEMMA TickPunctual ==
  ASSUME QueueInv, QueueInv', LagInv, LateCap > MaxLate, NEW at \in [Callouts -> Int],
         Punctual(at), TimerTick
  PROVE  Punctual(at)' /\ LagInv'
<1>1. /\ Busy => lag < Latency
      /\ count' = IF count = MaxCnt THEN 0 ELSE count + 1
      /\ irq' = IF count' = compare THEN "raised" ELSE irq
      /\ lag' = IF Busy THEN lag + 1 ELSE 0
      /\ UNCHANGED <<callouts_list, active, tmr_state, count_saved, compare, pc,
                     elapsed, c0>>
  BY DEF TimerTick, locals
<1>2. PICK L \in Nat, N \in Nat, g \in Nat, M \in Nat, n \in Nat :
        /\ L = Latency /\ N = MaxCnt /\ g = lag /\ M = MaxLate /\ n = count /\ n <= N
        /\ M = L + L + L + 1 /\ g <= L
  <2>1. count \in Nat /\ count <= MaxCnt /\ lag <= Latency
    BY PromptTypes DEF LagInv
  <2> QED  BY <2>1, PromptTypes
<1>3. PICK r \in Nat, q \in Nat : r = Reference /\ q = Reference' /\ q <= r + 1
  <2>1. count \in 0 .. MaxCnt /\ count_saved \in 0 .. MaxCnt /\ count' \in 0 .. MaxCnt
    BY <1>1, PromptTypes
  <2>2. /\ get_elapsed(count_saved, count') <= get_elapsed(count_saved, count) + 1
        /\ get_elapsed(count_saved, count') \in Nat /\ get_elapsed(count_saved, count) \in Nat
    <3>1. get_elapsed(count_saved, count') <= get_elapsed(count_saved, count) + 1
      BY <1>1, <2>1, ElapsedStep
    <3>2. /\ get_elapsed(count_saved, count') \in 0 .. MaxCnt
          /\ get_elapsed(count_saved, count) \in 0 .. MaxCnt
      BY <2>1, ElapsedType
    <3> QED  BY <3>1, <3>2, CalloutAssumption
  <2>3. /\ Reference = IF tmr_state = "ready" THEN 0 ELSE get_elapsed(count_saved, count)
        /\ Reference' = IF tmr_state = "ready" THEN 0 ELSE get_elapsed(count_saved, count')
    BY <1>1 DEF Reference, Elapsed
  <2> QED  BY <2>2, <2>3
<1>4. \A c \in Callouts : Pending(c)' <=> Pending(c)
  BY <1>1 DEF Pending
<1>5. ASSUME NEW c \in Callouts, Pending(c)
      PROVE  /\ r <= N - 2 /\ left[c] \in Int /\ left[c] >= -M
             /\ left'[c] = left[c] - 1
  <2>1. r <= N - 2 /\ left[c] >= -M /\ left[c] \in Int
    BY <1>2, <1>3, <1>5, PendingRoom, PromptTypes
  <2>2. left[c] > -LateCap
    BY <1>2, <2>1, CalloutAssumption
  <2> QED  BY <1>5, <2>1, <2>2 DEF TimerTick
<1>6. LapOk(at)'
  <2> SUFFICES ASSUME NEW c \in Callouts, Pending(c)
               PROVE  left'[c] + MaxLate < MaxCnt /\ at[c] + MaxLate < MaxCnt
    BY <1>4 DEF LapOk
  <2>1. left[c] + M < N /\ at[c] + M < N
    BY <1>2 DEF Punctual, LapOk
  <2>2. left'[c] + M < N
    BY <1>2, <1>5, <2>1
  <2> QED  BY <1>2, <2>1, <2>2
<1>7. SlipOk(at)'
  <2> SUFFICES ASSUME NEW c \in Callouts, Pending(c)
               PROVE  IF tmr_state = "ready" THEN Slip(at, c)' <= lag'
                      ELSE \/ Slip(at, c)' <= Latency
                           \/ Slip(at, c)' <= Latency + 1 /\ count' + left'[c] + MaxLate < MaxCnt
    BY <1>1, <1>4 DEF SlipOk
  <2>1. PICK x \in Int, y \in Int : x = at[c] /\ y = left[c] /\ y >= -M /\ y + M < N
    BY <1>2, <1>5 DEF Punctual, LapOk
  <2>2. left'[c] = y - 1 /\ Slip(at, c) = x - r - y /\ Slip(at, c)' = x - q - (y - 1)
    BY <1>3, <1>5, <2>1 DEF Slip
  <2>3. CASE tmr_state = "ready"
    <3>1. r = 0 /\ q = 0
      BY <1>1, <1>3, <2>3 DEF Reference
    <3>2. pc # "idle"
      BY <2>3 DEF LagInv, Pending
    <3>3. lag' = g + 1
      BY <1>1, <1>2, <3>2 DEF Busy
    <3>4. x - r - y <= g
      BY <1>2, <2>2, <2>3 DEF Punctual, SlipOk
    <3>5. x - q - (y - 1) <= g + 1
      BY <3>1, <3>4
    <3> QED  BY <2>2, <2>3, <3>3, <3>5
  <2>4. CASE tmr_state # "ready"
    <3>1. x - r - y <= L \/ (x - r - y <= L + 1 /\ n + y + M < N)
      BY <1>2, <2>1, <2>2, <2>4 DEF Punctual, SlipOk
    <3>2. q = IF n = N THEN r ELSE r + 1
      <4>1. get_elapsed(count_saved, count) = r /\ get_elapsed(count_saved, count') = q
        BY <1>1, <1>3, <2>4 DEF Reference, Elapsed
      <4>2. r <= N - 2
        BY <1>5
      <4>3. count \in 0 .. MaxCnt /\ count_saved \in 0 .. MaxCnt
        BY PromptTypes
      <4>4. get_elapsed(count_saved, count)  <= MaxCnt - 2
        BY <1>2, <4>1, <4>2
      <4> QED  BY <1>1, <1>2, <4>1, <4>3, <4>4, ElapsedTick
    <3>3. CASE n = N
      <4>1. count' = 0 /\ q = r
        BY <1>1, <1>2, <3>2, <3>3
      <4>2. x - q - (y - 1) <= L + 1
        BY <2>1, <3>1, <3>3, <4>1
      <4>3. 0 + (y - 1) + M < N
        BY <2>1
      <4> QED  BY <1>2, <2>2, <2>4, <4>1, <4>2, <4>3
    <3>4. CASE n # N
      <4>1. count' = n + 1 /\ q = r + 1
        BY <1>1, <1>2, <3>2, <3>4
      <4>2. \/ x - q - (y - 1) <= L
            \/ x - q - (y - 1) <= L + 1 /\ (n + 1) + (y - 1) + M < N
        BY <2>1, <3>1, <4>1
      <4> QED  BY <1>2, <2>2, <2>4, <4>1, <4>2
    <3> QED  BY <3>3, <3>4
  <2> QED  BY <2>3, <2>4
<1>8. \A c \in active : c \in Callouts /\ at[c] \in Int
  BY DEF QueueInv, TypeOK, QueueTypeOK
<1>9. LateOk(at)'
  <2> SUFFICES ASSUME tmr_state = "exception" \/ irq' = "raised", NEW c \in active
               PROVE  at[c] - q >= -(L + lag')
    BY <1>1, <1>2, <1>3 DEF LateOk
  <2>0. PICK x \in Int : x = at[c]
    BY <1>8
  <2>1. CASE tmr_state = "exception" \/ irq = "raised"
    <3>1. x - r >= -(L + g)
      BY <1>2, <1>3, <2>0, <2>1 DEF Punctual, LateOk
    <3>2. lag' = g + 1
      BY <1>1, <1>2, <2>1 DEF Busy, QueueInv, Shape
    <3> QED  BY <1>2, <1>3, <2>0, <3>1, <3>2
  <2>2. CASE tmr_state # "exception" /\ irq # "raised"
    <3>1. irq = "clear" /\ count' = compare
      BY <1>1, <2>2, PromptTypes
    <3>2. compare # NULL /\ Gap(compare, count) <= x - r + L
      BY <1>2, <1>3, <2>0, <2>2, <3>1 DEF Punctual, AimOk
    <3>3. Gap(compare, count) = 1
      BY <1>1, <3>1, <3>2, PromptTypes, GapTick
    <3>4. lag' \in Nat
      BY <1>1, <1>2
    <3> QED  BY <1>2, <1>3, <2>0, <3>2, <3>3, <3>4
  <2> QED  BY <2>1, <2>2
<1>10. AimOk(at)'
  <2> SUFFICES ASSUME tmr_state # "exception", irq' = "clear", NEW c \in active
               PROVE  compare # NULL /\ Gap(compare, count') <= at[c] - q + L
    BY <1>1, <1>2, <1>3 DEF AimOk
  <2>0. PICK x \in Int : x = at[c]
    BY <1>8
  <2>1. irq = "clear" /\ count' # compare
    BY <1>1
  <2>2. compare # NULL /\ Gap(compare, count) <= x - r + L
    BY <1>2, <1>3, <2>0, <2>1 DEF Punctual, AimOk
  <2>3. PICK d \in Int : d = Gap(compare, count) /\ Gap(compare, count') = d - 1
    BY <1>1, <2>1, <2>2, PromptTypes, GapTick
  <2>4. d - 1 <= x - q + L
    BY <1>2, <1>3, <2>2, <2>3
  <2> QED  BY <2>0, <2>2, <2>3, <2>4
<1>11. FreshOk(at)'
  <2> SUFFICES ASSUME pc \in {"walk", "armed"}
               PROVE  q <= elapsed + lag' /\ at[c0] > elapsed
    BY <1>1, <1>3 DEF FreshOk
  <2>1. r <= elapsed + g /\ at[c0] > elapsed /\ elapsed \in Nat
    BY <1>2, <1>3, PromptTypes DEF Punctual, FreshOk
  <2>2. lag' = g + 1
    BY <1>1, <1>2 DEF Busy
  <2>3. q <= elapsed + (g + 1)
    BY <1>2, <1>3, <2>1
  <2> QED  BY <2>1, <2>2, <2>3
<1>12. LagInv'
  <2>1. lag' \in 0 .. Latency
    BY <1>1, <1>2
  <2>2. ASSUME tmr_state = "exception"
        PROVE  Reference' <= lag' /\ irq' = "clear" /\ compare = NULL
    <3>1. r <= g /\ irq = "clear" /\ compare = NULL
      BY <1>2, <1>3, <2>2 DEF LagInv
    <3>2. count' # NULL
      <4>1. count' \in 0 .. MaxCnt
        BY DEF QueueInv, TypeOK, TimerTypeOK
      <4> QED  BY <4>1, CalloutAssumption
    <3>3. lag' = g + 1
      BY <1>1, <1>2, <2>2 DEF Busy, QueueInv, Shape
    <3> QED  BY <1>1, <1>2, <1>3, <3>1, <3>2, <3>3
  <2> QED  BY <1>1, <2>1, <2>2 DEF LagInv
<1> QED  BY <1>6, <1>7, <1>9, <1>10, <1>11, <1>12 DEF Punctual

-----------------------------------------------------------------------------
\* The empty queue is punctual.
LEMMA PromptInit == Init => PromptInv
<1> SUFFICES ASSUME Init PROVE PromptInv
  OBVIOUS
<1>1. PICK at \in [Callouts -> Int] : TRUE
  <2>1. [c \in Callouts |-> 0] \in [Callouts -> Int]
    OBVIOUS
  <2> QED  BY <2>1
<1>2. /\ callouts_list = <<>> /\ Len(callouts_list) = 0 /\ pc = "idle" /\ active = {}
      /\ tmr_state = "ready" /\ irq = "clear" /\ lag = 0
  BY DEF Init
<1>3. HeadOk(at) /\ DeltaOk(at) /\ SortedOk(at) /\ WalkOk(at)
  BY <1>2 DEF HeadOk, DeltaOk, SortedOk, WalkOk
<1>4. RangeOk(at) /\ DeadlineOk(at)
  BY <1>2 DEF RangeOk, DeadlineOk, Pending
<1>5. CursorInv /\ NotDue
  BY <1>2 DEF CursorInv, NotDue
<1>6. LagInv
  BY <1>2, CalloutAssumption DEF LagInv
<1>7. Punctual(at)
  BY <1>2 DEF Punctual, LapOk, SlipOk, AimOk, LateOk, FreshOk, Pending
<1> QED  BY <1>1, <1>3, <1>4, <1>5, <1>6, <1>7 DEF PromptInv, Schedule

\* The loop stops at a callout that has ticks left.
LEMMA BreakNotDue ==
  ASSUME QueueInv, CursorInv, callback_break
  PROVE  NotDue'
<1> SUFFICES ASSUME callouts_list # <<>>
             PROVE  ticks'[callouts_list[1]] > 0
  BY DEF NotDue, callback_break
<1>1. cur = callouts_list[1] /\ cur \in Callouts /\ cur # NULL
  <2>1. cur = first
    BY DEF CursorInv, callback_break
  <2>2. first = callouts_list[1] /\ first \in Callouts
    BY ListFacts DEF first
  <2> QED  BY <2>1, <2>2, CalloutAssumption
<1>2. /\ elapsed < ticks[cur] /\ ticks' = [ticks EXCEPT ![cur] = ticks[cur] - elapsed]
  BY <1>1 DEF callback_break
<1>3. elapsed \in Nat /\ ticks[cur] \in Nat /\ ticks \in [Callouts -> 0 .. WordMax]
  BY <1>1, CalloutAssumption DEF QueueInv, TypeOK, QueueTypeOK, LocalTypeOK
<1> QED  BY <1>1, <1>2, <1>3

\* Every step keeps the schedule punctual.
LEMMA PromptInvNext ==
  ASSUME RearmTicks = {}, ~CbCancel, LapSafe, LateCap > MaxLate,
         QueueInv, QueueInv', PromptInv, [Next]_vars
  PROVE  PromptInv'
<1>1. PICK at \in [Callouts -> Int] : Schedule(at) /\ Punctual(at)
  BY DEF PromptInv
<1>2. CursorInv /\ LagInv /\ NotDue
  BY DEF PromptInv
<1>3. CursorInv'
  <2>1. EarlyInv /\ NoOverflow
    BY <1>1, <1>2 DEF EarlyInv, NoOverflow
  <2> QED  BY <2>1, EarlyInvNext DEF EarlyInv
<1>4. ASSUME pc' # "restart" PROVE NotDue'
  BY <1>4 DEF NotDue
<1>5. ASSUME NEW c \in Callouts, NEW t \in SetTicks, mdx_callout_set_ticks(c, t)
      PROVE  PromptInv'
  <2>1. NoOverflow
    BY DEF NoOverflow
  <2>2. PICK bt \in [Callouts -> Int] :
          /\ Schedule(bt)'
          /\ bt = [at EXCEPT ![c] = t + IF tmr_state = "running" THEN Elapsed ELSE 0]
    BY <1>1, <1>5, <2>1, SetBeginSchedule
  <2>3. Punctual(bt)' /\ LagInv'
    BY <1>1, <1>2, <1>5, <2>2, SetPunctual
  <2>4. NotDue'
    BY <1>4, <1>5 DEF mdx_callout_set_ticks, set_begin
  <2> QED  BY <1>3, <2>2, <2>3, <2>4 DEF PromptInv
<1>6. ASSUME NEW c \in Callouts, mdx_callout_set_zero(c)
      PROVE  PromptInv'
  <2>1. /\ UNCHANGED <<tmr_state, count_saved, count, compare, irq, lag>>
        /\ Offset' = Offset /\ Reference' = Reference /\ pc' = pc
        /\ callouts_list' = callouts_list /\ ticks' = ticks /\ active' = active
        /\ left' = left /\ pc = "idle"
    BY <1>6 DEF mdx_callout_set_zero, Offset, Reference, Elapsed, hardware, locals
  <2>2. \A d \in Callouts : Pending(d)' => Pending(d)
    BY <2>1 DEF Pending
  <2>3. DeadlineOk(at)'
    BY <1>1, <2>1, <2>2 DEF Schedule, DeadlineOk
  <2>4. Schedule(at)'
    BY <1>1, <2>1, <2>2, <2>3, ScheduleFrame
  <2>5. Punctual(at)'
    BY <1>1, <2>1, <2>2, PunctualFrame
  <2>6. LagInv'
    BY <1>2, <2>1, LagFrame
  <2> QED  BY <1>3, <1>4, <2>1, <2>4, <2>5, <2>6 DEF PromptInv
<1>7. CASE set_one_skip \/ set_one_insert
  <2>1. /\ UNCHANGED <<tmr_state, count_saved, count, compare, irq, lag>>
        /\ UNCHANGED <<active, left, c0, elapsed>>
        /\ pc = "walk" /\ pc' \in {"walk", "armed"}
    BY <1>7 DEF set_one_skip, set_one_insert, hardware, locals
  <2>2. \A d \in Callouts : Pending(d)' => Pending(d) /\ left'[d] = left[d]
    BY <2>1 DEF Pending
  <2>3. Schedule(at)'
    BY <1>1, <1>7, SkipSchedule, InsertSchedule
  <2>4. Punctual(at)'
    BY <1>1, <2>1, <2>2, PunctualFrame
  <2>5. LagInv'
    BY <1>2, <2>1, LagFrame
  <2> QED  BY <1>3, <1>4, <2>1, <2>3, <2>4, <2>5 DEF PromptInv
<1>8. CASE set_one_start
  <2>1. Schedule(at)'
    BY <1>1, <1>2, <1>8, StartSchedule
  <2>2. Punctual(at)' /\ LagInv'
    BY <1>1, <1>2, <1>8, StartPunctual
  <2>3. NotDue'
    BY <1>4, <1>8 DEF set_one_start, Leave, FuncReturn
  <2> QED  BY <1>3, <2>1, <2>2, <2>3 DEF PromptInv
<1>9. ASSUME NEW c \in Callouts, mdx_callout_cancel(c)
      PROVE  PromptInv'
  <2>1. /\ UNCHANGED <<tmr_state, count_saved, count, compare, irq, lag>>
        /\ active' = active \ {c} /\ left' = [left EXCEPT ![c] = 0]
        /\ pc \in {"idle", "lock"} /\ pc' = pc
    BY <1>9 DEF mdx_callout_cancel, cancel_locked, hardware, locals
  <2>2. \A d \in Callouts : Pending(d)' => Pending(d) /\ left'[d] = left[d]
    BY <2>1, PromptTypes DEF Pending
  <2>3. Schedule(at)'
    BY <1>1, <1>9, CancelSchedule
  <2>4. Punctual(at)'
    BY <1>1, <2>1, <2>2, PunctualFrame
  <2>5. LagInv'
    BY <1>2, <2>1, LagFrame
  <2> QED  BY <1>3, <1>4, <2>1, <2>3, <2>4, <2>5 DEF PromptInv
<1>10. CASE TimerIntr
  <2>1. PICK bt \in [Callouts -> Int] :
          /\ Schedule(bt)'
          /\ callouts_list # <<>> => bt = [c \in Callouts |-> at[c] - Elapsed]
    BY <1>1, <1>10, IntrSchedule
  <2>2. Punctual(bt)' /\ LagInv'
    BY <1>1, <1>2, <1>10, <2>1, IntrPunctual
  <2>3. NotDue'
    BY <1>4, <1>10 DEF TimerIntr, Leave
  <2> QED  BY <1>3, <2>1, <2>2, <2>3 DEF PromptInv
<1>11. CASE callback_lock \/ func_return
  <2>1. /\ UNCHANGED <<tmr_state, count_saved, count, compare, irq, lag>>
        /\ Offset' = Offset /\ Reference' = Reference /\ pc' = "loop"
        /\ callouts_list' = callouts_list /\ ticks' = ticks /\ active' = active
        /\ left' = left /\ pc \in {"lock", "func"}
    BY <1>11 DEF callback_lock, func_return, FuncReturn, Offset, Reference,
                 Elapsed, hardware
  <2>2. \A d \in Callouts : Pending(d)' => Pending(d)
    BY <2>1 DEF Pending
  <2>3. DeadlineOk(at)'
    BY <1>1, <2>1, <2>2 DEF Schedule, DeadlineOk
  <2>4. Schedule(at)'
    BY <1>1, <2>1, <2>2, <2>3, ScheduleFrame
  <2>5. Punctual(at)'
    BY <1>1, <2>1, <2>2, PunctualFrame
  <2>6. LagInv'
    BY <1>2, <2>1, LagFrame
  <2> QED  BY <1>3, <1>4, <2>1, <2>4, <2>5, <2>6 DEF PromptInv
<1>12. CASE callback_fire
  <2>1. /\ UNCHANGED <<tmr_state, count_saved, count, compare, irq, lag>>
        /\ active' = active \ {cur} /\ left' = [left EXCEPT ![cur] = 0]
        /\ pc = "loop" /\ pc' = "func"
    BY <1>12 DEF callback_fire, hardware
  <2>2. \A d \in Callouts : Pending(d)' => Pending(d) /\ left'[d] = left[d]
    BY <2>1, PromptTypes DEF Pending
  <2>3. Schedule(at)'
    BY <1>1, <1>2, <1>12, FireSchedule
  <2>4. Punctual(at)'
    BY <1>1, <2>1, <2>2, PunctualFrame
  <2>5. LagInv'
    BY <1>2, <2>1, LagFrame
  <2> QED  BY <1>3, <1>4, <2>1, <2>3, <2>4, <2>5 DEF PromptInv
<1>13. CASE callback_break
  <2>1. /\ UNCHANGED <<tmr_state, count_saved, count, compare, irq, lag, active, left>>
        /\ pc = "loop" /\ pc' = "restart"
    BY <1>13 DEF callback_break, hardware
  <2>2. \A d \in Callouts : Pending(d)' => Pending(d) /\ left'[d] = left[d]
    BY <2>1 DEF Pending
  <2>3. Schedule(at)'
    BY <1>1, <1>2, <1>13, BreakSchedule
  <2>4. Punctual(at)'
    BY <1>1, <2>1, <2>2, PunctualFrame
  <2>5. LagInv'
    BY <1>2, <2>1, LagFrame
  <2>6. NotDue'
    BY <1>2, <1>13, BreakNotDue
  <2> QED  BY <1>3, <2>3, <2>4, <2>5, <2>6 DEF PromptInv
<1>14. CASE callback_restart
  <2>1. Schedule(at)'
    BY <1>1, <1>14, RestartSchedule
  <2>2. Punctual(at)' /\ LagInv'
    BY <1>1, <1>2, <1>14, RestartPunctual
  <2>3. NotDue'
    BY <1>4, <1>14 DEF callback_restart, CallbackEnd, Leave
  <2> QED  BY <1>3, <2>1, <2>2, <2>3 DEF PromptInv
<1>15. CASE TimerTick
  <2>1. Schedule(at)'
    BY <1>1, <1>15, TickSchedule
  <2>2. Punctual(at)' /\ LagInv'
    BY <1>1, <1>2, <1>15, TickPunctual
  <2>3. NotDue'
    BY <1>2, <1>15 DEF TimerTick, NotDue
  <2> QED  BY <1>3, <2>1, <2>2, <2>3 DEF PromptInv
<1>16. CASE UNCHANGED vars
  <2>1. /\ UNCHANGED <<tmr_state, count_saved, count, compare, irq, lag>>
        /\ Offset' = Offset /\ Reference' = Reference /\ pc' = pc
        /\ callouts_list' = callouts_list /\ ticks' = ticks /\ active' = active
        /\ left' = left /\ pos' = pos /\ c0' = c0 /\ elapsed' = elapsed
    BY <1>16 DEF vars, Offset, Reference, Elapsed, hardware, locals
  <2>2. \A d \in Callouts : Pending(d)' => Pending(d)
    BY <2>1 DEF Pending
  <2>3. DeadlineOk(at)'
    BY <1>1, <2>1, <2>2 DEF Schedule, DeadlineOk
  <2>4. Schedule(at)'
    BY <1>1, <2>1, <2>2, <2>3, ScheduleFrame
  <2>5. Punctual(at)'
    BY <1>1, <2>1, <2>2, PunctualFrame
  <2>6. LagInv'
    BY <1>2, <2>1, LagFrame
  <2>7. NotDue'
    BY <1>2, <2>1 DEF NotDue
  <2> QED  BY <1>3, <2>4, <2>5, <2>6, <2>7 DEF PromptInv
<1> QED
  BY <1>5, <1>6, <1>7, <1>8, <1>9, <1>10, <1>11, <1>12, <1>13, <1>14, <1>15,
     <1>16 DEF Next, func_cancel

\* No callout is overdue by more than MaxLate, three times the latency of the
\* system and one tick, for any number of callouts, any width of the counter
\* and any latency, provided that callout functions neither set nor cancel
\* callouts and that callers keep their deadlines within a lap of the counter
\* (LapSafe; a longer interval is cut by mi_tmr_start).  LateCap, where the model
\* stops counting, is beyond the bound, so the cap does not make it hold.
THEOREM PromptHolds ==
  ASSUME RearmTicks = {}, ~CbCancel, LapSafe, LateCap > MaxLate
  PROVE  Spec => []Prompt
<1>1. QueueInv /\ QueueInv' /\ PromptInv /\ [Next]_vars => PromptInv'
  BY PromptInvNext
<1>2. QueueInv /\ PromptInv => Prompt
  <2> SUFFICES ASSUME QueueInv, PromptInv, NEW c \in Callouts, Pending(c)
               PROVE  left[c] >= -MaxLate
    BY DEF Prompt
  <2>1. PICK at \in [Callouts -> Int] : Punctual(at)
    BY DEF PromptInv
  <2> QED  BY <2>1, PendingRoom DEF PromptInv
<1>3. Init => PromptInv
  BY PromptInit
<1>4. Spec => []QueueInv
  BY QueueInvariant
<1> QED  BY <1>1, <1>2, <1>3, <1>4, PTL DEF Spec
=============================================================================
