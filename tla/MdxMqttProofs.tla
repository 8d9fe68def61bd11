--------------------------- MODULE MdxMqttProofs ---------------------------
(***************************************************************************)
(* Proofs about the MQTT client: the locks, the list of requests, the      *)
(* packets on the wire and the results of requests.                        *)
(*                                                                         *)
(* MqttInv is inductive for every set of threads and every bound.  It      *)
(* joins what a place in the code says of the locals, who holds which      *)
(* lock, who is on the list, whose packet may be incomplete on the wire,   *)
(* and whose PUBREL is being sent by the thread that holds msg_mtx.        *)
(***************************************************************************)
EXTENDS MdxMqtt, ListTheorems

\* What the packets of a connection are made of.
DoneStates == AckTypes \ {"PUBREC"}
OutPackets ==
  [type : AllKinds \cup {"pubrel", "puback"}, id : Nat, serial : Nat]
InPackets ==
  [type : AckTypes \cup PublishTypes, id : Nat]
Chunks == [p : OutPackets, part : {"all", "first", "rest", "cut"}]
InChunks ==
  [part : {"control", "length", "body"}, p : InPackets]
    \cup {[part |-> "bytes", p |-> Received("none", 0)]}
Requests ==
  [kind : AllKinds \cup {"none"},
   state : {"none", "CONNECT", "SUBSCRIBE", "PUBLISH", "PINGREQ"} \cup AckTypes,
   id : Nat, serial : Nat, status : {"none", "ok", "refused"}]

\* Places where a packet is written, or is built and will be; and the places of
\* mqtt_poll.
Writing == {"write", "write_rel", "write_ack"}
Sending == Writing \cup {"send", "send_rel", "send_ack"}
PollLabels ==
  {"poll", "length", "body", "handle", "send_rel", "write_rel", "send_ack", "write_ack"}
Packing == Sending \cup {"append"}

\* The types that TypeOK leaves out.
Types ==
  /\ req \in [Threads -> Requests]
  /\ pkt \in [Threads -> InPackets \cup {NULL}]
  /\ out \in [Threads -> OutPackets \cup {NULL}]
  /\ toClient \in Seq(InChunks)
  /\ toBroker \in Seq(Chunks)
  /\ serial \in 0 .. MaxReq

\* What a place in the code says of the locals: the receive thread is in
\* mqtt_poll, a thread that sends has a packet, one that reads a packet has its
\* type, one that handles a packet has read an answer, and only requests with an answer get to the list, to
\* mqtt_poll and to the wait.
Places ==
  /\ pc[Poller] \in PollLabels
  /\ \A t \in Threads :
       /\ pc[t] \in Packing => out[t] \in OutPackets
       /\ pc[t] \in {"length", "body", "handle"} => pkt[t] \in InPackets
       /\ pc[t] = "handle" => pkt[t].type \in AckTypes
  /\ \A t \in Callers :
       /\ pc[t] \in PollLabels \cup {"append", "wait", "remove"} =>
            Answerable(req[t].kind)
       /\ pc[t] = "done" => ~Answerable(req[t].kind)

\* The locks are held exactly at these places.
Locks ==
  \A t \in Threads :
    /\ sem_send = t <=> pc[t] \in Writing
    /\ msg_mtx = t <=> pc[t] \in {"send_rel", "write_rel"}

\* A request is on the list from append to the end of its function.
Listed ==
  /\ Once(msg_list)
  /\ \A t \in Callers :
       On(msg_list, t) <=>
         Answerable(req[t].kind) /\ pc[t] \notin {"idle", "append"}

\* A request is completed once, by an answer that gives its status; it does not
\* report a timeout when it has been answered.
Outcomes ==
  \A t \in Threads :
    /\ complete[t] > 0 => req[t].state \in DoneStates
    /\ req[t].state \in DoneStates => req[t].status \in {"ok", "refused"}
    /\ pc[t] = "idle" /\ retval[t] = "timeout" => req[t].state # Done[req[t].kind]

\* Only the thread that holds the permit to send has a packet on the wire that
\* is not complete.
Wire ==
  /\ WireWhole
  /\ ~open => toBroker = <<>>
  /\ toBroker # <<>> /\ toBroker[Len(toBroker)].part = "first" =>
       sem_send # NULL /\ toBroker[Len(toBroker)].p = out[sem_send]

\* A message that waits for PUBCOMP has its PUBREL sent, as far as that goes, or
\* the thread that holds msg_mtx is sending it.
Released ==
  \A t \in Threads :
    /\ req[t].state = "PUBCOMP" => req[t].serial \in released
    /\ req[t].state = "PUBREC" =>
         \/ req[t].serial \in released
         \/ msg_mtx # NULL /\ out[msg_mtx].serial = req[t].serial

\* The inductive invariant.
MqttInv ==
  TypeOK /\ Types /\ Places /\ Locks /\ Listed /\ Outcomes /\ Wire /\ Released

-----------------------------------------------------------------------------
\* The receive thread runs mqtt_poll and nothing else.
LEMMA PollerIsOther ==
  ASSUME Places, NEW t \in Threads, pc[t] \notin PollLabels
  PROVE  t \in Callers /\ t # Poller
BY DEF Places, Threads

\* What moving a thread does to pc.
LEMMA GotoStep ==
  ASSUME TypeOK, NEW t \in Threads, NEW l \in Labels, Goto(t, l)
  PROVE  /\ pc' \in [Threads -> Labels]
         /\ pc'[t] = l
         /\ \A u \in Threads : u # t => pc'[u] = pc[u]
BY DEF TypeOK, Goto

\* Where the two callers of mqtt_poll go on.
LEMMA AfterPollPlace ==
  ASSUME NEW t \in Threads
  PROVE  /\ AfterPoll(t) \in Labels
         /\ AfterPoll(t) \in {"poll", "wait"}
         /\ t = Poller => AfterPoll(t) = "poll"
BY DEF AfterPoll, Labels

\* What the end of a request does to the variables of its thread.
LEMMA ReturnStep ==
  ASSUME TypeOK, NEW t \in Threads,
         NEW value \in {"ok", "conn", "timeout", "refused"}, Return(t, value)
  PROVE  /\ pc' \in [Threads -> Labels] /\ pc'[t] = "idle"
         /\ retval' \in [Threads -> {"none", "ok", "conn", "timeout", "refused"}]
         /\ complete' \in [Threads -> 0 .. 1]
         /\ timeout' \in [Threads -> 0 .. Timeouts]
         /\ retval'[t] = value /\ complete'[t] = 0
         /\ \A u \in Threads : u # t => /\ pc'[u] = pc[u]
                                        /\ retval'[u] = retval[u]
                                        /\ complete'[u] = complete[u]
<1>1. pc' \in [Threads -> Labels] /\ pc'[t] = "idle"
      /\ \A u \in Threads : u # t => pc'[u] = pc[u]
  BY GotoStep DEF Return, Labels
<1>2. Timeouts \in Nat
  BY MqttAssumption
<1>3. /\ retval' \in [Threads -> {"none", "ok", "conn", "timeout", "refused"}]
      /\ retval'[t] = value /\ \A u \in Threads : u # t => retval'[u] = retval[u]
  BY DEF Return, TypeOK
<1>4. /\ complete' \in [Threads -> 0 .. 1] /\ timeout' \in [Threads -> 0 .. Timeouts]
      /\ complete'[t] = 0 /\ \A u \in Threads : u # t => complete'[u] = complete[u]
  BY <1>2 DEF Return, TypeOK
<1> QED  BY <1>1, <1>3, <1>4

\* A request that is taken off the list is on it no more, and the others stay.
LEMMA UnlistStep ==
  ASSUME TypeOK, Listed, NEW t \in Callers, msg_list' = RemoveFirst(msg_list, t)
  PROVE  /\ msg_list' \in Seq(Callers) /\ Once(msg_list')
         /\ \A u \in Callers : On(msg_list', u) <=> On(msg_list, u) /\ u # t
<1>1. msg_list \in Seq(Callers) /\ Once(msg_list)
  BY DEF TypeOK, Listed
<1> QED  BY <1>1, RemoveFirstList

\* Packets stay whole when a chunk is written that completes the last packet
\* if that is in parts, and is no rest of a packet otherwise.
LEMMA WireAppend ==
  ASSUME toBroker \in Seq(Chunks), WireWhole, NEW ch \in Chunks,
         toBroker' = Append(toBroker, ch),
         ch.part = "rest" =>
           /\ toBroker # <<>>
           /\ toBroker[Len(toBroker)] = [p |-> ch.p, part |-> "first"],
         toBroker # <<>> /\ toBroker[Len(toBroker)].part = "first" =>
           ch = [p |-> toBroker[Len(toBroker)].p, part |-> "rest"]
  PROVE  /\ toBroker' \in Seq(Chunks)
         /\ toBroker' # <<>>
         /\ toBroker'[Len(toBroker')] = ch
         /\ WireWhole'
<1>1. /\ Len(toBroker) \in Nat /\ Len(toBroker') = Len(toBroker) + 1
      /\ DOMAIN toBroker = 1 .. Len(toBroker)
      /\ DOMAIN toBroker' = 1 .. Len(toBroker) + 1
      /\ toBroker' \in Seq(Chunks)
      /\ \A i \in 1 .. Len(toBroker) : toBroker'[i] = toBroker[i]
      /\ toBroker'[Len(toBroker) + 1] = ch
      /\ toBroker = <<>> <=> Len(toBroker) = 0
  OBVIOUS
<1>2. toBroker' # <<>>
  BY <1>1
<1>3. ASSUME NEW i \in 1 .. Len(toBroker')
      PROVE  /\ toBroker'[i].part = "first" /\ i < Len(toBroker') =>
                  toBroker'[i + 1] = [p |-> toBroker'[i].p, part |-> "rest"]
             /\ toBroker'[i].part = "rest" =>
                  i > 1 /\ toBroker'[i - 1] = [p |-> toBroker'[i].p, part |-> "first"]
  <2>1. CASE i = Len(toBroker) + 1
    <3>1. toBroker'[i] = ch /\ ~(i < Len(toBroker')) /\ i - 1 = Len(toBroker)
      BY <1>1, <2>1
    <3>2. toBroker # <<>> => /\ i > 1
                             /\ toBroker'[i - 1] = toBroker[Len(toBroker)]
      <4> SUFFICES ASSUME toBroker # <<>>
                   PROVE  i > 1 /\ toBroker'[i - 1] = toBroker[Len(toBroker)]
        OBVIOUS
      <4>1. Len(toBroker) \in 1 .. Len(toBroker)  BY <1>1
      <4> QED  BY <1>1, <3>1, <4>1
    <3> QED  BY <3>1, <3>2
  <2>2. CASE i \in 1 .. Len(toBroker)
    <3>1. /\ toBroker'[i] = toBroker[i]
          /\ i > 1 => toBroker'[i - 1] = toBroker[i - 1]
          /\ i < Len(toBroker) => toBroker'[i + 1] = toBroker[i + 1]
          /\ i = Len(toBroker) => toBroker'[i + 1] = ch
      BY <1>1, <2>2
    <3>2. /\ toBroker[i].part = "first" /\ i < Len(toBroker) =>
               toBroker[i + 1] = [p |-> toBroker[i].p, part |-> "rest"]
          /\ toBroker[i].part = "rest" =>
               i > 1 /\ toBroker[i - 1] = [p |-> toBroker[i].p, part |-> "first"]
      BY <1>1, <2>2 DEF WireWhole
    <3>3. i = Len(toBroker) /\ toBroker[i].part = "first" =>
            ch = [p |-> toBroker[i].p, part |-> "rest"]
      BY <1>1, <2>2
    <3>4. i < Len(toBroker) \/ i = Len(toBroker)
      <4>1. Len(toBroker) \in Nat  BY <1>1
      <4> QED  BY <2>2, <4>1
    <3> QED  BY <3>1, <3>2, <3>3, <3>4
  <2> QED  BY <1>1, <2>1, <2>2
<1>4. WireWhole'
  BY <1>1, <1>3 DEF WireWhole
<1> QED  BY <1>1, <1>2, <1>4

\* Packets stay whole when the write of the last one is given up after a part.
LEMMA WireCut ==
  ASSUME toBroker \in Seq(Chunks), WireWhole, toBroker # <<>>,
         toBroker[Len(toBroker)].part = "first",
         toBroker' = [toBroker EXCEPT ![Len(toBroker)].part = "cut"]
  PROVE  /\ toBroker' \in Seq(Chunks) /\ toBroker' # <<>>
         /\ toBroker'[Len(toBroker')].part = "cut"
         /\ WireWhole'
<1> DEFINE c == [toBroker[Len(toBroker)] EXCEPT !.part = "cut"]
<1>1. PICK n \in Nat : n = Len(toBroker) /\ n > 0
  OBVIOUS
<1>2. c \in Chunks /\ c.part = "cut"
  <2>1. toBroker[n] \in Chunks  BY <1>1
  <2> QED  BY <1>1, <2>1 DEF Chunks
<1>3. toBroker' = [toBroker EXCEPT ![n] = c]
  BY <1>1
<1> HIDE DEF c
<1>4. /\ toBroker' \in Seq(Chunks) /\ Len(toBroker') = n
      /\ DOMAIN toBroker' = 1 .. n /\ DOMAIN toBroker = 1 .. n
      /\ toBroker'[n] = c /\ \A i \in 1 .. n : i # n => toBroker'[i] = toBroker[i]
  BY <1>1, <1>2, <1>3
<1>5. ASSUME NEW i \in 1 .. n
      PROVE  /\ toBroker'[i].part = "first" /\ i < n =>
                  toBroker'[i + 1] = [p |-> toBroker'[i].p, part |-> "rest"]
             /\ toBroker'[i].part = "rest" =>
                  i > 1 /\ toBroker'[i - 1] = [p |-> toBroker'[i].p, part |-> "first"]
  <2>1. CASE i = n
    BY <1>2, <1>4, <2>1
  <2>2. CASE i # n
    <3>1. /\ toBroker[i].part = "first" /\ i < n =>
               toBroker[i + 1] = [p |-> toBroker[i].p, part |-> "rest"]
          /\ toBroker[i].part = "rest" =>
               i > 1 /\ toBroker[i - 1] = [p |-> toBroker[i].p, part |-> "first"]
      BY <1>1, <1>4 DEF WireWhole
    <3>2. toBroker'[i] = toBroker[i]
      BY <1>4, <2>2
    <3>3. ASSUME toBroker[i].part = "first", i < n
          PROVE  toBroker'[i + 1] = toBroker[i + 1]
      <4>1. toBroker[i + 1].part = "rest"  BY <3>1, <3>3
      <4>2. i + 1 # n  BY <1>1, <4>1
      <4>3. i + 1 \in 1 .. n  BY <3>3
      <4> QED  BY <1>4, <4>2, <4>3
    <3>4. ASSUME i > 1
          PROVE  toBroker'[i - 1] = toBroker[i - 1]
      <4>1. i - 1 \in 1 .. n /\ i - 1 # n  BY <3>4
      <4> QED  BY <1>4, <4>1
    <3> QED  BY <3>1, <3>2, <3>3, <3>4
  <2> QED  BY <2>1, <2>2
<1>6. WireWhole'
  BY <1>4, <1>5 DEF WireWhole
<1> QED  BY <1>1, <1>2, <1>4, <1>6

\* The broker takes one packet: the chunks that are left are those of whole
\* packets.
LEMMA BrokerTakes ==
  ASSUME toBroker \in Seq(Chunks), WireWhole, Parts > 0,
         toBroker' = SubSeq(toBroker, Parts + 1, Len(toBroker))
  PROVE  /\ toBroker' \in Seq(Chunks)
         /\ toBroker # <<>> /\ toBroker[1] \in Chunks
         /\ WireWhole'
         /\ toBroker' # <<>> =>
              toBroker'[Len(toBroker')] = toBroker[Len(toBroker)]
         /\ \A i \in 1 .. Len(toBroker') :
              \E j \in 1 .. Len(toBroker) : toBroker'[i] = toBroker[j]
<1> DEFINE n == Len(toBroker)
<1>1. PICK k \in {1, 2} :
        /\ k = Parts /\ n \in Nat /\ k <= n
        /\ k = 1 => toBroker[1].part = "all"
        /\ k = 2 => toBroker[1].part = "first"
  BY DEF Parts
<1>2. /\ \A i \in 1 .. n :
           /\ toBroker[i].part = "first" /\ i < n =>
                toBroker[i + 1] = [p |-> toBroker[i].p, part |-> "rest"]
           /\ toBroker[i].part = "rest" =>
                i > 1 /\ toBroker[i - 1] = [p |-> toBroker[i].p, part |-> "first"]
  BY DEF WireWhole
<1>3. /\ toBroker' \in Seq(Chunks) /\ Len(toBroker') = n - k
      /\ \A i \in 1 .. n - k : toBroker'[i] = toBroker[i + k]
  BY <1>1, DropElements
<1>31. DOMAIN toBroker' = 1 .. n - k
  BY <1>3
<1> HIDE DEF n
<1>4. toBroker # <<>> /\ toBroker[1] \in Chunks
  BY <1>1 DEF n
<1>5. toBroker' # <<>> => toBroker'[Len(toBroker')] = toBroker[n]
  <2> SUFFICES ASSUME toBroker' # <<>>
               PROVE  toBroker'[Len(toBroker')] = toBroker[n]
    OBVIOUS
  <2>1. n - k \in 1 .. n - k
    <3>1. Len(toBroker') # 0  BY <1>3
    <3> QED  BY <1>1, <1>3, <3>1
  <2>2. toBroker'[n - k] = toBroker[(n - k) + k]  BY <1>3, <2>1
  <2>3. (n - k) + k = n  BY <1>1
  <2> QED  BY <1>3, <2>2, <2>3
<1>6. ASSUME NEW i \in 1 .. n - k
      PROVE  /\ i + k \in 1 .. n
             /\ toBroker'[i] = toBroker[i + k]
             /\ i + 1 <= n - k => toBroker'[i + 1] = toBroker[i + k + 1]
             /\ i > 1 => toBroker'[i - 1] = toBroker[i + k - 1]
  BY <1>1, <1>3
<1>7. k + 1 <= n => toBroker[k + 1].part # "rest"
  <2> SUFFICES ASSUME k + 1 <= n, toBroker[k + 1].part = "rest"
               PROVE  FALSE
    OBVIOUS
  <2>1. toBroker[k] = [p |-> toBroker[k + 1].p, part |-> "first"]
    <3>1. k + 1 \in 1 .. n /\ (k + 1) - 1 = k  BY <1>1
    <3>2. toBroker[(k + 1) - 1] = [p |-> toBroker[k + 1].p, part |-> "first"]
      BY <1>2, <3>1
    <3> QED  BY <3>1, <3>2
  <2>2. CASE k = 1
    BY <1>1, <2>1, <2>2
  <2>3. CASE k = 2
    <3>3. toBroker[1].part = "first"
      BY <1>1, <2>3
    <3>4. toBroker[2].part = "rest"
      <4>1. 1 \in 1 .. n /\ 1 < n /\ 1 + 1 = 2  BY <1>1, <2>3
      <4>2. toBroker[1 + 1] = [p |-> toBroker[1].p, part |-> "rest"]
        BY <1>2, <3>3, <4>1
      <4> QED  BY <4>1, <4>2
    <3> QED  BY <2>1, <2>3, <3>4
  <2> QED  BY <1>1, <2>2, <2>3
<1>8. ASSUME NEW i \in 1 .. n - k
      PROVE  /\ toBroker'[i].part = "first" /\ i < n - k =>
                  toBroker'[i + 1] = [p |-> toBroker'[i].p, part |-> "rest"]
             /\ toBroker'[i].part = "rest" =>
                  i > 1 /\ toBroker'[i - 1] = [p |-> toBroker'[i].p, part |-> "first"]
  <2>1. /\ toBroker[i + k].part = "first" /\ i + k < n =>
             toBroker[i + k + 1] = [p |-> toBroker[i + k].p, part |-> "rest"]
        /\ toBroker[i + k].part = "rest" =>
             toBroker[i + k - 1] = [p |-> toBroker[i + k].p, part |-> "first"]
    <3>1. PICK j \in 1 .. n : j = i + k
      BY <1>6
    <3>2. /\ toBroker[j].part = "first" /\ j < n =>
               toBroker[j + 1] = [p |-> toBroker[j].p, part |-> "rest"]
          /\ toBroker[j].part = "rest" =>
               toBroker[j - 1] = [p |-> toBroker[j].p, part |-> "first"]
      BY <1>2
    <3> QED  BY <3>1, <3>2
  <2>2. i = 1 => toBroker[i + k].part # "rest"
    BY <1>1, <1>7
  <2>3. (i < n - k <=> i + k < n) /\ (i < n - k => i + 1 <= n - k) /\ (i = 1 \/ i > 1)
    BY <1>1
  <2> QED  BY <1>6, <2>1, <2>2, <2>3
<1>9. WireWhole'
  BY <1>3, <1>31, <1>8 DEF WireWhole
<1> QED  BY <1>3, <1>4, <1>5, <1>6, <1>9 DEF n

\* The request that a handler finds is on the list and is answered by the packet.
LEMMA FoundRequest ==
  ASSUME TypeOK, NEW p,
         NEW found, found = {i \in DOMAIN msg_list : Answers(p, msg_list[i])},
         found # {}
  PROVE  LET u == msg_list[Min(found)]
         IN  u \in Callers /\ On(msg_list, u) /\ Answers(p, u)
<1>1. msg_list \in Seq(Callers) /\ DOMAIN msg_list = 1 .. Len(msg_list)
  BY DEF TypeOK
<1>2. Min(found) \in found
  <2>1. found \in SUBSET Nat  BY <1>1
  <2>2. \E x \in found : \A y \in found : x <= y  BY <2>1, LeastNat
  <2> QED  BY <2>2 DEF Min
<1>3. PICK k \in 1 .. Len(msg_list) : k = Min(found) /\ Answers(p, msg_list[k])
  BY <1>1, <1>2
<1>4. msg_list[k] \in Callers
  BY <1>1
<1>5. On(msg_list, msg_list[k])
  BY DEF On
<1> QED  BY <1>3, <1>4, <1>5

\* No packet answers a request that has been completed: complete is posted
\* once.
LEMMA AnswersState ==
  ASSUME NEW p, NEW u, p.type \in AckTypes, Answers(p, u)
  PROVE  req[u].state \notin DoneStates
BY DEF Answers, AckTypes, DoneStates

\* The invariant holds initially.
LEMMA Init_Inv ==
  ASSUME Init
  PROVE  MqttInv
<1>1. NoRequest \in Requests
  BY DEF NoRequest, Requests
<1>2. TypeOK
  <2>1. /\ 1 \in 0 .. IdMod - 1 /\ 0 \in 0 .. Timeouts
        /\ NULL \in Threads \cup {NULL}
    BY MqttAssumption
  <2>2. pc \in [Threads -> Labels]
    BY DEF Init, Labels
  <2>3. msg_list \in Seq(Callers)
    BY DEF Init
  <2>4. /\ complete \in [Threads -> 0 .. 1]
        /\ timeout \in [Threads -> 0 .. Timeouts]
        /\ retval \in [Threads -> {"none", "ok", "conn", "timeout", "refused"}]
    BY <2>1 DEF Init
  <2>5. connected \in BOOLEAN /\ open \in BOOLEAN
    BY DEF Init
  <2> QED  BY <2>1, <2>2, <2>3, <2>4, <2>5 DEF Init, TypeOK
<1>3. Types
  BY <1>1, MqttAssumption DEF Init, Types
<1>4. Places
  BY MqttAssumption DEF Init, Places, PollLabels, Packing, Sending, Writing, Threads
<1>5. Locks
  BY MqttAssumption DEF Init, Locks, Writing
<1>6. Listed
  BY EmptyList, MqttAssumption DEF Init, Listed, NoRequest, Answerable, Threads
<1>7. Outcomes
  BY DEF Init, Outcomes, NoRequest, DoneStates, AckTypes
<1>8. Wire
  BY DEF Init, Wire, WireWhole
<1>9. Released
  BY DEF Init, Released, NoRequest
<1> QED  BY <1>2, <1>3, <1>4, <1>5, <1>6, <1>7, <1>8, <1>9 DEF MqttInv

\* A new request: its thread was idle, so it is on no list and holds no lock.
LEMMA call_Inv ==
  ASSUME MqttInv, NEW t \in Callers, NEW kind \in Kinds, call(t, kind)
  PROVE  MqttInv'
<1> USE DEF MqttInv
<1> DEFINE id == IF HasId(kind) THEN next_id ELSE 0
           r == [kind |-> kind, state |-> Sent[kind], id |-> id,
                 serial |-> serial + 1, status |-> "none"]
<1>1. /\ t \in Threads /\ t # Poller /\ kind \in AllKinds
      /\ pc[t] = "idle" /\ serial < MaxReq
  BY MqttAssumption DEF call, Threads
<1>2. r \in Requests /\ r.state \notin AckTypes
  BY <1>1 DEF Requests, Sent, AllKinds, TypeOK, Types, AckTypes
<1>3. Packet(kind, id, serial + 1) \in OutPackets
  BY <1>1 DEF Packet, OutPackets, TypeOK, Types
<1>4. /\ req' = [req EXCEPT ![t] = r]
      /\ out' = [out EXCEPT ![t] = Packet(kind, id, serial + 1)]
  BY DEF call
<1>5. /\ UNCHANGED <<connected, msg_list, msg_mtx, sem_send, pkt, retval,
                     netVars, released>>
      /\ serial' = serial + 1
      /\ complete' = [complete EXCEPT ![t] = 0]
      /\ timeout' = [timeout EXCEPT ![t] = Timeouts]
  BY DEF call
<1>6. /\ pc' \in [Threads -> Labels]
      /\ pc'[t] = IF Answerable(kind) THEN "append" ELSE "send"
      /\ \A u \in Threads : u # t => pc'[u] = pc[u]
  <2>1. (IF Answerable(kind) THEN "append" ELSE "send") \in Labels
    BY DEF Labels
  <2> QED  BY <1>1, <2>1, GotoStep DEF call
<1>7. next_id' \in 0 .. IdMod - 1
  <2>1. next_id \in Nat /\ IdMod \in Nat /\ IdMod > 0
    BY MqttAssumption DEF TypeOK
  <2>2. (next_id + 1) % IdMod \in 0 .. IdMod - 1
    BY <2>1
  <2> QED  BY <2>1, <2>2 DEF call, NextId, TypeOK
<1> HIDE DEF id, r
<1>8. /\ req' \in [Threads -> Requests] /\ req'[t] = r
      /\ \A u \in Threads : u # t => req'[u] = req[u]
  BY <1>1, <1>2, <1>4 DEF Types
<1>9. /\ out' \in [Threads -> OutPackets \cup {NULL}] /\ out'[t] \in OutPackets
      /\ \A u \in Threads : u # t => out'[u] = out[u]
  BY <1>1, <1>3, <1>4 DEF Types
<1>10. /\ complete' \in [Threads -> 0 .. 1] /\ complete'[t] = 0
       /\ \A u \in Threads : u # t => complete'[u] = complete[u]
       /\ timeout' \in [Threads -> 0 .. Timeouts]
  BY <1>1, <1>5, MqttAssumption DEF TypeOK
<1>11. r.kind = kind
  BY DEF r
<1>12. TypeOK'
  BY <1>5, <1>6, <1>7, <1>10 DEF TypeOK, netVars
<1>13. Types'
  <2>1. serial' \in 0 .. MaxReq
    BY <1>1, <1>5, MqttAssumption DEF Types
  <2> QED  BY <1>5, <1>8, <1>9, <2>1 DEF Types, netVars
<1>14. Places'
  <2>1. /\ pc'[t] \notin PollLabels \cup {"handle", "done", "wait", "remove"}
        /\ pc'[t] = "append" => Answerable(req'[t].kind)
    BY <1>6, <1>8, <1>11 DEF PollLabels
  <2> QED  BY <1>1, <1>5, <1>6, <1>8, <1>9, <2>1 DEF Places, Threads
<1>15. Locks'
  BY <1>1, <1>5, <1>6 DEF Locks, Writing
<1>16. Listed'
  <2>1. ~On(msg_list, t)
    BY <1>1 DEF Listed
  <2> QED  BY <1>1, <1>5, <1>6, <1>8, <1>11, <2>1 DEF Listed, Threads
<1>17. Outcomes'
  BY <1>2, <1>5, <1>6, <1>8, <1>10 DEF Outcomes, DoneStates
<1>18. Wire'
  <2>1. sem_send # t  BY <1>1 DEF Locks, Writing
  <2> QED  BY <1>5, <1>9, <2>1 DEF Wire, WireWhole, netVars, TypeOK
<1>19. Released'
  <2>1. msg_mtx # t  BY <1>1 DEF Locks
  <2> QED  BY <1>2, <1>5, <1>8, <1>9, <2>1 DEF Released, AckTypes, TypeOK
<1> QED  BY <1>12, <1>13, <1>14, <1>15, <1>16, <1>17, <1>18, <1>19

\* The request was not on the list before.
LEMMA append_Inv ==
  ASSUME MqttInv, NEW t \in Threads, append(t)
  PROVE  MqttInv'
<1> USE DEF MqttInv
<1>1. t \in Callers /\ t # Poller
  BY PollerIsOther DEF append, PollLabels
<1>2. /\ pc' \in [Threads -> Labels] /\ pc'[t] = "send"
      /\ \A u \in Threads : u # t => pc'[u] = pc[u]
  BY GotoStep DEF append, Labels
<1>3. /\ msg_list' \in Seq(Callers)
      /\ Once(msg_list') /\ \A x : On(msg_list', x) <=> On(msg_list, x) \/ x = t
  <2>1. ~On(msg_list, t)  BY <1>1 DEF Listed, append
  <2> QED  BY <1>1, <2>1, AppendList DEF TypeOK, Listed, append
<1>4. TypeOK'
  BY <1>2, <1>3 DEF TypeOK, append, netVars
<1>5. Types'
  BY DEF Types, append, netVars, histVars
<1>6. Places'
  BY <1>1, <1>2 DEF Places, append, Packing, Sending, Writing, PollLabels, Threads
<1>7. Locks'
  BY <1>2 DEF Locks, append, Writing
<1>8. Listed'
  BY <1>1, <1>2, <1>3 DEF Listed, Places, append, Threads
<1>9. Outcomes'
  BY <1>2 DEF Outcomes, append
<1>10. Wire'
  BY DEF Wire, WireWhole, append, netVars
<1>11. Released'
  BY DEF Released, append, histVars
<1> QED  BY <1>4, <1>5, <1>6, <1>7, <1>8, <1>9, <1>10, <1>11

\* The permit was free, so no packet on the wire is incomplete.
LEMMA send_wait_Inv ==
  ASSUME MqttInv, NEW t \in Threads, send_wait(t)
  PROVE  MqttInv'
<1> USE DEF MqttInv
<1>1. sem_send = NULL /\ sem_send' = t /\ sem_send' # NULL
  BY MqttAssumption DEF send_wait
<1>2. /\ pc' \in [Threads -> Labels]
      /\ \A u \in Threads : u # t => pc'[u] = pc[u]
      /\ \/ pc[t] = "send" /\ pc'[t] = "write"
         \/ pc[t] = "send_rel" /\ pc'[t] = "write_rel"
         \/ pc[t] = "send_ack" /\ pc'[t] = "write_ack"
  <2> DEFINE l == CASE pc[t] = "send" -> "write"
                    [] pc[t] = "send_rel" -> "write_rel"
                    [] pc[t] = "send_ack" -> "write_ack"
  <2>1. \/ pc[t] = "send" /\ l = "write"
        \/ pc[t] = "send_rel" /\ l = "write_rel"
        \/ pc[t] = "send_ack" /\ l = "write_ack"
    BY DEF send_wait
  <2>2. Goto(t, l)  BY DEF send_wait
  <2> HIDE DEF l
  <2>3. l \in Labels  BY <2>1 DEF Labels
  <2> QED  BY <2>1, <2>2, <2>3, GotoStep
<1>4. TypeOK'
  BY <1>1, <1>2 DEF TypeOK, send_wait, netVars
<1>5. Types'
  BY DEF Types, send_wait, netVars, histVars
<1>6. Places'
  BY <1>2 DEF Places, send_wait, Packing, Sending, Writing, PollLabels, Threads
<1>7. Locks'
  BY <1>1, <1>2, MqttAssumption DEF Locks, send_wait, Writing
<1>8. Listed'
  BY <1>2 DEF Listed, send_wait, Threads
<1>9. Outcomes'
  BY <1>2 DEF Outcomes, send_wait
<1>10. Wire'
  BY <1>1 DEF Wire, WireWhole, send_wait, netVars
<1>11. Released'
  BY DEF Released, send_wait, histVars
<1> QED  BY <1>4, <1>5, <1>6, <1>7, <1>8, <1>9, <1>10, <1>11


\* A packet is written, in parts or as a whole, or the write fails.
LEMMA net_write_Inv ==
  ASSUME MqttInv, NEW t \in Threads, net_write(t)
  PROVE  MqttInv'
<1> USE DEF MqttInv
<1> DEFINE half == /\ toBroker # <<>>
                   /\ toBroker[Len(toBroker)] = [p |-> out[t], part |-> "first"]
           last == toBroker[Len(toBroker)]
           Chunk(part) == [p |-> out[t], part |-> part]
<1>1. /\ pc[t] \in Writing /\ sem_send = t /\ out[t] \in OutPackets
      /\ toBroker # <<>> /\ last.part = "first" => half
  <2>1. pc[t] \in Writing /\ sem_send = t /\ out[t] \in OutPackets
    BY DEF net_write, Locks, Places, Packing, Sending, Writing
  <2>2. ASSUME toBroker # <<>>
        PROVE  last \in Chunks
    BY <2>2 DEF Types
  <2>3. ASSUME toBroker # <<>>, last.part = "first"
        PROVE  last = [p |-> out[t], part |-> "first"]
    BY <2>1, <2>2, <2>3 DEF Wire, Chunks
  <2> QED  BY <2>1, <2>3
<1>2. \A part \in {"all", "first", "rest"} : Chunk(part) \in Chunks
  BY <1>1 DEF Chunks
<1> DEFINE Finish(ok) ==
             /\ sem_send' = NULL
             /\ msg_mtx' = IF pc[t] = "write_rel" THEN NULL ELSE msg_mtx
             /\ out' = [out EXCEPT ![t] = NULL]
             /\ released' = IF pc[t] = "write_rel" THEN released \cup {out[t].serial}
                            ELSE released
             /\ Goto(t, AfterSend(t, ok))
           Cut == [toBroker EXCEPT ![Len(toBroker)].part = "cut"]
<1>3. \/ /\ open /\ ~half /\ toBroker' = Append(toBroker, Chunk("first"))
         /\ UNCHANGED <<pc, out, sem_send, msg_mtx, released>>
      \/ /\ open
         /\ toBroker' = Append(toBroker, Chunk(IF half THEN "rest" ELSE "all"))
         /\ Finish(TRUE)
      \/ /\ toBroker' = IF half THEN Cut ELSE toBroker
         /\ Finish(FALSE)
  BY DEF net_write, Unlocks
<1>4. UNCHANGED <<next_id, connected, msg_list, req, complete, timeout, pkt,
                  retval, open, toClient, serial>>
  BY DEF net_write
<1> HIDE DEF half, last, Chunk
<1>5. WireWhole' /\ toBroker' \in Seq(Chunks) /\ (~open' => toBroker' = <<>>)
  <2>1. CASE open /\ ~half /\ toBroker' = Append(toBroker, Chunk("first"))
    BY <1>1, <1>2, <1>4, <2>1, WireAppend DEF Wire, Types, half, last, Chunk
  <2>2. CASE open /\ half /\ toBroker' = Append(toBroker, Chunk("rest"))
    BY <1>1, <1>2, <1>4, <2>2, WireAppend DEF Wire, Types, half, last, Chunk
  <2>3. CASE open /\ ~half /\ toBroker' = Append(toBroker, Chunk("all"))
    BY <1>1, <1>2, <1>4, <2>3, WireAppend DEF Wire, Types, half, last, Chunk
  <2>4. CASE ~half /\ UNCHANGED toBroker
    BY <1>4, <2>4 DEF Wire, Types, WireWhole
  <2>5. CASE half /\ toBroker' = Cut
    <3>1. toBroker # <<>> /\ toBroker[Len(toBroker)].part = "first" /\ open
      BY <2>5 DEF half, Wire
    <3> QED  BY <1>4, <2>5, <3>1, WireCut DEF Wire, Types
  <2> QED  BY <1>3, <2>1, <2>2, <2>3, <2>4, <2>5
<1>6. CASE /\ open /\ ~half /\ toBroker' = Append(toBroker, Chunk("first"))
           /\ UNCHANGED <<pc, out, sem_send, msg_mtx, released>>
  <2>1. toBroker'[Len(toBroker')].p = out[t]
    BY <1>6, <1>2 DEF Types, Chunk
  <2>2. Wire'
    BY <1>5, <1>6, <1>1, <2>1, MqttAssumption DEF Wire
  <2>3. TypeOK'
    BY <1>4, <1>6 DEF TypeOK
  <2>4. Types'
    BY <1>4, <1>5, <1>6 DEF Types
  <2>5. Places' /\ Locks' /\ Listed' /\ Outcomes' /\ Released'
    BY <1>4, <1>6 DEF Places, Locks, Listed, Outcomes, Released
  <2> QED  BY <2>2, <2>3, <2>4, <2>5
<1>7. ASSUME NEW ok \in BOOLEAN, Finish(ok),
             toBroker' # <<>> => toBroker'[Len(toBroker')].part # "first"
      PROVE  MqttInv'
  <2>1. /\ AfterSend(t, ok) \in Labels
        /\ \/ pc[t] # "write" /\ AfterSend(t, ok) = AfterPoll(t)
           \/ /\ pc[t] = "write" /\ Answerable(req[t].kind)
              /\ AfterSend(t, ok) \in {"poll", "fail"}
           \/ /\ pc[t] = "write" /\ ~Answerable(req[t].kind)
              /\ AfterSend(t, ok) \in {"done", "fail"}
    <3>1. CASE ok = TRUE
      BY <3>1 DEF AfterSend, AfterPoll, Labels, Answerable
    <3>2. CASE ok = FALSE
      BY <3>2 DEF AfterSend, AfterPoll, Labels, Answerable
    <3> QED  BY <3>1, <3>2
  <2>2. /\ pc' \in [Threads -> Labels]
        /\ pc'[t] = AfterSend(t, ok)
        /\ \A u \in Threads : u # t => pc'[u] = pc[u]
    BY <1>7, <2>1, GotoStep
  <2>3. pc'[t] \in IF t = Poller THEN {"poll"} ELSE {"poll", "wait", "done", "fail"}
    <3>1. CASE t = Poller
      BY <3>1, <2>1, <2>2 DEF AfterPoll, Places, PollLabels
    <3>2. CASE t # Poller
      BY <3>2, <2>1, <2>2 DEF AfterPoll
    <3> QED  BY <3>1, <3>2
  <2>4. /\ out'[t] = NULL /\ \A u \in Threads : u # t => out'[u] = out[u]
        /\ out' \in [Threads -> OutPackets \cup {NULL}]
    BY <1>7 DEF Types
  <2>5. TypeOK'
    BY <1>4, <1>7, <2>2 DEF TypeOK
  <2>6. Types'
    BY <1>4, <1>5, <2>4 DEF Types
  <2>7. Places'
    <3>1. ASSUME t \in Callers, pc'[t] \in PollLabels \cup {"append", "wait", "remove"}
          PROVE  Answerable(req[t].kind)
      BY <1>1, <2>1, <2>2, <3>1 DEF Places, Writing, PollLabels
    <3>3. t \in Callers /\ pc'[t] = "done" => ~Answerable(req[t].kind)
      BY <2>1, <2>2 DEF AfterPoll
    <3>2. pc'[t] \notin Packing \cup {"length", "body", "handle"}
      BY <2>3 DEF Packing, Sending, Writing
    <3> QED  BY <1>4, <2>2, <2>3, <2>4, <3>1, <3>2, <3>3
             DEF Places, Threads, PollLabels
  <2>8. Locks'
    <3>1. pc'[t] \notin Writing \cup {"send_rel", "write_rel"}
      BY <2>3 DEF Writing
    <3> QED  BY <1>1, <1>7, <2>2, <3>1, MqttAssumption DEF Locks, Writing
  <2>9. Listed'
    <3>1. pc'[t] \notin {"idle", "append"} /\ pc[t] \notin {"idle", "append"}
      BY <1>1, <2>3 DEF Writing
    <3> QED  BY <1>4, <2>2, <3>1 DEF Listed, Threads
  <2>10. Outcomes'
    BY <1>4, <2>2, <2>3 DEF Outcomes
  <2>11. Wire'
    BY <1>5, <1>7 DEF Wire
  <2>12. Released'
    <3>1. CASE pc[t] = "write_rel"
      <4>1. msg_mtx = t /\ released' = released \cup {out[t].serial}
        BY <1>7, <3>1 DEF Locks
      <4> QED  BY <1>4, <4>1 DEF Released
    <3>2. CASE pc[t] # "write_rel"
      <4>1. msg_mtx # t /\ msg_mtx' = msg_mtx /\ released' = released
        BY <1>1, <1>7, <3>2 DEF Locks, Writing
      <4> QED  BY <1>4, <2>4, <4>1 DEF Released, TypeOK
    <3> QED  BY <3>1, <3>2
  <2> QED  BY <2>5, <2>6, <2>7, <2>8, <2>9, <2>10, <2>11, <2>12
<1>8. CASE /\ open
           /\ toBroker' = Append(toBroker, Chunk(IF half THEN "rest" ELSE "all"))
           /\ Finish(TRUE)
  <2>1. toBroker'[Len(toBroker')].part # "first"
    BY <1>8, <1>2 DEF Types, Chunk
  <2> QED  BY <1>7, <1>8, <2>1
<1>9. CASE toBroker' = (IF half THEN Cut ELSE toBroker) /\ Finish(FALSE)
  <2>1. toBroker' # <<>> => toBroker'[Len(toBroker')].part # "first"
    <3>1. CASE half
      <4>1. toBroker # <<>> /\ toBroker[Len(toBroker)].part = "first"
        BY <3>1 DEF half
      <4> QED  BY <1>9, <3>1, <4>1, WireCut DEF Wire, Types
    <3>2. CASE ~half
      BY <1>1, <1>9, <3>2 DEF last
    <3> QED  BY <3>1, <3>2
  <2> QED  BY <1>7, <1>9, <2>1
<1> QED  BY <1>3, <1>6, <1>8, <1>9

\* A request that was not sent leaves the list before its function returns.
LEMMA send_failed_Inv ==
  ASSUME MqttInv, NEW t \in Threads, send_failed(t)
  PROVE  MqttInv'
<1> USE DEF MqttInv
<1>1. t \in Callers /\ t # Poller
  BY PollerIsOther DEF send_failed, PollLabels
<1>2. /\ pc' \in [Threads -> Labels] /\ pc'[t] = "idle"
      /\ retval' \in [Threads -> {"none", "ok", "conn", "timeout", "refused"}]
      /\ complete' \in [Threads -> 0 .. 1]
      /\ timeout' \in [Threads -> 0 .. Timeouts]
      /\ retval'[t] = "conn" /\ complete'[t] = 0
      /\ \A u \in Threads : u # t => /\ pc'[u] = pc[u]
                                     /\ retval'[u] = retval[u]
                                     /\ complete'[u] = complete[u]
  BY ReturnStep DEF send_failed
<1>3. /\ msg_list' \in Seq(Callers) /\ Once(msg_list')
      /\ \A u \in Callers : On(msg_list', u) <=> On(msg_list, u) /\ u # t
  BY <1>1, UnlistStep DEF send_failed
<1>4. TypeOK'
  BY <1>2, <1>3 DEF TypeOK, send_failed, netVars
<1>5. Types'
  BY DEF Types, send_failed, netVars, histVars
<1>6. Places'
  BY <1>1, <1>2 DEF Places, send_failed, Packing, Sending, Writing, PollLabels, Threads
<1>7. Locks'
  BY <1>2 DEF Locks, send_failed, Writing
<1>8. Listed'
  BY <1>1, <1>2, <1>3 DEF Listed, send_failed, Threads
<1>9. Outcomes'
  BY <1>2 DEF Outcomes, send_failed
<1>10. Wire'
  BY DEF Wire, WireWhole, send_failed, netVars
<1>11. Released'
  BY DEF Released, send_failed, histVars
<1> QED  BY <1>4, <1>5, <1>6, <1>7, <1>8, <1>9, <1>10, <1>11

\* A request without answer was never on the list.
LEMMA send_done_Inv ==
  ASSUME MqttInv, NEW t \in Threads, send_done(t)
  PROVE  MqttInv'
<1> USE DEF MqttInv
<1>1. t \in Callers /\ t # Poller /\ ~Answerable(req[t].kind)
  BY PollerIsOther DEF send_done, PollLabels, Places
<1>2. /\ pc' \in [Threads -> Labels] /\ pc'[t] = "idle"
      /\ retval' \in [Threads -> {"none", "ok", "conn", "timeout", "refused"}]
      /\ complete' \in [Threads -> 0 .. 1]
      /\ timeout' \in [Threads -> 0 .. Timeouts]
      /\ retval'[t] = "ok" /\ complete'[t] = 0
      /\ \A u \in Threads : u # t => /\ pc'[u] = pc[u]
                                     /\ retval'[u] = retval[u]
                                     /\ complete'[u] = complete[u]
  BY ReturnStep DEF send_done
<1>4. TypeOK'
  BY <1>2 DEF TypeOK, send_done, netVars
<1>5. Types'
  BY DEF Types, send_done, netVars, histVars
<1>6. Places'
  BY <1>1, <1>2 DEF Places, send_done, Packing, Sending, Writing, PollLabels, Threads
<1>7. Locks'
  BY <1>2 DEF Locks, send_done, Writing
<1>8. Listed'
  BY <1>1, <1>2 DEF Listed, send_done, Threads
<1>9. Outcomes'
  BY <1>2 DEF Outcomes, send_done
<1>10. Wire'
  BY DEF Wire, WireWhole, send_done, netVars
<1>11. Released'
  BY DEF Released, send_done, histVars
<1> QED  BY <1>4, <1>5, <1>6, <1>7, <1>8, <1>9, <1>10, <1>11


\* The semaphore of the request, or its timeout.
LEMMA wait_Inv ==
  ASSUME MqttInv, NEW t \in Threads, wait(t)
  PROVE  MqttInv'
<1> USE DEF MqttInv
<1>1. t \in Callers /\ t # Poller /\ pc[t] = "wait" /\ Answerable(req[t].kind)
  BY PollerIsOther DEF wait, PollLabels, Places
<1>2. /\ pc' \in [Threads -> Labels] /\ pc'[t] \in {"poll", "remove"}
      /\ \A u \in Threads : u # t => pc'[u] = pc[u]
  BY GotoStep DEF wait, Labels
<1>3. /\ complete' \in [Threads -> 0 .. 1]
      /\ \A u \in Threads : complete'[u] > 0 => complete[u] > 0
  <2>1. complete \in [Threads -> 0 .. 1]  BY DEF TypeOK
  <2>2. CASE complete[t] > 0 /\ complete' = [complete EXCEPT ![t] = @ - 1]
    BY <2>1, <2>2
  <2>3. CASE UNCHANGED complete
    BY <2>1, <2>3
  <2> QED  BY <2>2, <2>3 DEF wait
<1>4. timeout' \in [Threads -> 0 .. Timeouts]
  <2>1. timeout \in [Threads -> 0 .. Timeouts]  BY DEF TypeOK
  <2>2. CASE timeout[t] # 0 /\ timeout' = [timeout EXCEPT ![t] = @ - 1]
    BY <2>1, <2>2, MqttAssumption
  <2>3. CASE UNCHANGED timeout
    BY <2>1, <2>3
  <2> QED  BY <2>2, <2>3 DEF wait
<1>5. UNCHANGED <<clientVars, req, pkt, out, retval, netVars, histVars>>
  BY DEF wait
<1>6. TypeOK'
  BY <1>2, <1>3, <1>4, <1>5 DEF TypeOK, clientVars, netVars
<1>7. Types'
  BY <1>5 DEF Types, netVars, histVars
<1>8. Places'
  BY <1>1, <1>2, <1>5 DEF Places, Packing, Sending, Writing, PollLabels, Threads
<1>9. Locks'
  BY <1>1, <1>2, <1>5 DEF Locks, clientVars, Writing
<1>10. Listed'
  BY <1>1, <1>2, <1>5 DEF Listed, clientVars, Threads
<1>11. Outcomes'
  BY <1>2, <1>3, <1>5 DEF Outcomes
<1>12. Wire'
  BY <1>5 DEF Wire, WireWhole, netVars, clientVars
<1>13. Released'
  BY <1>5 DEF Released, clientVars, histVars
<1> QED  BY <1>6, <1>7, <1>8, <1>9, <1>10, <1>11, <1>12, <1>13

\* A request leaves the list before its function returns, and what it returns
\* is decided then.
LEMMA remove_Inv ==
  ASSUME MqttInv, NEW t \in Threads, remove(t)
  PROVE  MqttInv'
<1> USE DEF MqttInv
<1>1. t \in Callers /\ t # Poller /\ Answerable(req[t].kind)
  BY PollerIsOther DEF remove, PollLabels, Places
<1>0. /\ Result(t) \in {"ok", "refused", "timeout"}
      /\ Result(t) = "timeout" => req[t].state # Done[req[t].kind]
  <2>1. Done[req[t].kind] \in DoneStates
    BY <1>1 DEF Types, Requests, AllKinds, Answerable, Done, DoneStates, AckTypes
  <2> QED  BY <2>1 DEF Result, Outcomes
<1>2. /\ pc' \in [Threads -> Labels] /\ pc'[t] = "idle"
      /\ retval' \in [Threads -> {"none", "ok", "conn", "timeout", "refused"}]
      /\ complete' \in [Threads -> 0 .. 1]
      /\ timeout' \in [Threads -> 0 .. Timeouts]
      /\ retval'[t] = Result(t) /\ complete'[t] = 0
      /\ \A u \in Threads : u # t => /\ pc'[u] = pc[u]
                                     /\ retval'[u] = retval[u]
                                     /\ complete'[u] = complete[u]
  BY <1>0, ReturnStep DEF remove
<1>3. /\ msg_list' \in Seq(Callers) /\ Once(msg_list')
      /\ \A u \in Callers : On(msg_list', u) <=> On(msg_list, u) /\ u # t
  BY <1>1, UnlistStep DEF remove
<1>4. TypeOK'
  BY <1>2, <1>3 DEF TypeOK, remove, netVars
<1>5. Types'
  BY DEF Types, remove, netVars, histVars
<1>6. Places'
  BY <1>1, <1>2 DEF Places, remove, Packing, Sending, Writing, PollLabels, Threads
<1>7. Locks'
  BY <1>2 DEF Locks, remove, Writing
<1>8. Listed'
  BY <1>1, <1>2, <1>3 DEF Listed, remove, Threads
<1>9. Outcomes'
  BY <1>0, <1>2 DEF Outcomes, remove
<1>10. Wire'
  BY DEF Wire, WireWhole, remove, netVars
<1>11. Released'
  BY DEF Released, remove, histVars
<1> QED  BY <1>4, <1>5, <1>6, <1>7, <1>8, <1>9, <1>10, <1>11

\* What the steps that read have in common: they change no lock, no list and no
\* request, and the thread goes on with what the next place needs.
LEMMA ReadStep ==
  ASSUME MqttInv, NEW t \in Threads, pc[t] \in {"poll", "length", "body"},
         NEW l \in {AfterPoll(t), "length", "body", "handle", "send_ack"}, Goto(t, l),
         UNCHANGED <<next_id, msg_list, msg_mtx, sem_send, req, complete, timeout,
                     retval, open, toBroker, histVars>>,
         connected' \in BOOLEAN, toClient' \in Seq(InChunks),
         NEW p \in InPackets \cup {NULL}, pkt' = [pkt EXCEPT ![t] = p],
         NEW o \in OutPackets \cup {NULL}, out' = [out EXCEPT ![t] = o],
         l \in {"length", "body", "handle"} => p \in InPackets,
         l = "handle" => p.type \in AckTypes,
         l = "send_ack" => o \in OutPackets
  PROVE  MqttInv'
<1> USE DEF MqttInv
<1>1. /\ pc' \in [Threads -> Labels] /\ pc'[t] = l
      /\ \A u \in Threads : u # t => pc'[u] = pc[u]
  <2>1. l \in Labels  BY AfterPollPlace DEF Labels
  <2> QED  BY <2>1, GotoStep
<1>2. l \in {"poll", "wait", "length", "body", "handle", "send_ack"}
  BY AfterPollPlace
<1>3. /\ pkt' \in [Threads -> InPackets \cup {NULL}] /\ pkt'[t] = p
      /\ \A u \in Threads : u # t => pkt'[u] = pkt[u]
  BY DEF Types
<1>4. /\ out' \in [Threads -> OutPackets \cup {NULL}] /\ out'[t] = o
      /\ \A u \in Threads : u # t => out'[u] = out[u]
  BY DEF Types
<1>5. TypeOK'
  BY <1>1 DEF TypeOK
<1>6. Types'
  BY <1>3, <1>4 DEF Types, histVars
<1>7. Places'
  <2>1. t \in Callers => Answerable(req[t].kind)
    BY DEF Places, PollLabels
  <2>2. /\ l \in Packing => o \in OutPackets
        /\ t = Poller => l \in PollLabels
        /\ l # "done"
    BY <1>2, AfterPollPlace DEF Packing, Sending, Writing, PollLabels
  <2> QED  BY <1>1, <1>3, <1>4, <2>1, <2>2 DEF Places, Threads
<1>8. Locks'
  BY <1>1, <1>2 DEF Locks, Writing
<1>9. Listed'
  BY <1>1, <1>2 DEF Listed, Threads
<1>10. Outcomes'
  BY <1>1, <1>2 DEF Outcomes
<1>11. sem_send # t /\ msg_mtx # t
  BY DEF Locks, Writing
<1>12. Wire'
  BY <1>4, <1>11, MqttAssumption DEF Wire, WireWhole, TypeOK
<1>13. Released'
  BY <1>4, <1>11 DEF Released, TypeOK, histVars
<1> QED  BY <1>5, <1>6, <1>7, <1>8, <1>9, <1>10, <1>12, <1>13

\* What a read leaves is made of parts of packets.
LEMMA LeftChunks ==
  ASSUME toClient \in Seq(InChunks), NEW k \in DOMAIN toClient,
         NEW rest \in Left(k)
  PROVE  rest \in Seq(InChunks)
<1> DEFINE after == SubSeq(toClient, k + 1, Len(toClient))
           bytes == [part |-> "bytes", p |-> Received("none", 0)]
<1>1. after \in Seq(InChunks)
  BY DropElements
<1>2. bytes \in InChunks /\ <<bytes>> \in Seq(InChunks)
  BY DEF InChunks
<1>3. rest = after \/ rest = <<bytes>> \o after
  BY DEF Left
<1> HIDE DEF after, bytes
<1>4. <<bytes>> \o after \in Seq(InChunks)
  BY <1>1, <1>2, ConcatProperties
<1> QED  BY <1>1, <1>3, <1>4

\* The control byte of a packet.
LEMMA poll_control_Inv ==
  ASSUME MqttInv, NEW t \in Threads, poll_control(t)
  PROVE  MqttInv'
<1>1. /\ toClient \in Seq(InChunks) /\ toClient # <<>> /\ pc[t] = "poll"
      /\ 1 \in DOMAIN toClient /\ toClient[1] \in InChunks
      /\ toClient' \in Left(1)
      /\ connected \in BOOLEAN
      /\ pkt \in [Threads -> InPackets \cup {NULL}]
      /\ out \in [Threads -> OutPackets \cup {NULL}]
      /\ UNCHANGED <<clientVars, req, complete, timeout, out, retval, open, toBroker,
                     histVars>>
  BY DEF poll_control, MqttInv, Types, TypeOK
<1>2. toClient' \in Seq(InChunks)
  BY <1>1, LeftChunks
<1>3. PICK type \in ControlRead(toClient[1]) :
        IF type = "unknown"
        THEN UNCHANGED pkt /\ Goto(t, AfterPoll(t))
        ELSE pkt' = [pkt EXCEPT ![t] = Received(type, 0)] /\ Goto(t, "length")
  BY DEF poll_control
<1>4. type \in AckTypes \cup PublishTypes \cup {"unknown"}
  <2>1. CASE toClient[1].part = "control"
    <3>1. toClient[1].p \in InPackets  BY <1>1, <2>1 DEF InChunks
    <3> QED  BY <1>3, <2>1, <3>1 DEF ControlRead, InPackets
  <2>2. CASE toClient[1].part # "control"
    BY <1>3, <2>2, MqttAssumption DEF ControlRead
  <2> QED  BY <2>1, <2>2
<1>5. out' = [out EXCEPT ![t] = out[t]] /\ out[t] \in OutPackets \cup {NULL}
  BY <1>1
<1>6. CASE type = "unknown"
  <2>1. pkt' = [pkt EXCEPT ![t] = pkt[t]] /\ pkt[t] \in InPackets \cup {NULL}
    BY <1>1, <1>3, <1>6
  <2>2. AfterPoll(t) \notin {"length", "body", "handle", "send_ack"} /\ Goto(t, AfterPoll(t))
    BY <1>3, <1>6, AfterPollPlace
  <2> QED  BY <1>1, <1>2, <1>5, <2>1, <2>2, ReadStep DEF clientVars
<1>7. CASE type # "unknown"
  <2>1. pkt' = [pkt EXCEPT ![t] = Received(type, 0)] /\ Goto(t, "length")
    BY <1>3, <1>7
  <2>2. Received(type, 0) \in InPackets
    BY <1>4, <1>7 DEF Received, InPackets
  <2> QED  BY <1>1, <1>2, <1>5, <2>1, <2>2, ReadStep DEF clientVars
<1> QED  BY <1>6, <1>7

\* Nothing is read.
LEMMA poll_nothing_Inv ==
  ASSUME MqttInv, NEW t \in Threads, poll_nothing(t)
  PROVE  MqttInv'
<1>1. /\ pc[t] = "poll" /\ Goto(t, AfterPoll(t))
      /\ connected' \in BOOLEAN /\ toClient' \in Seq(InChunks)
      /\ pkt[t] \in InPackets \cup {NULL} /\ pkt' = [pkt EXCEPT ![t] = pkt[t]]
      /\ out[t] \in OutPackets \cup {NULL} /\ out' = [out EXCEPT ![t] = out[t]]
      /\ UNCHANGED <<next_id, msg_list, msg_mtx, sem_send, req, complete, timeout,
                     retval, open, toBroker, histVars>>
  BY DEF poll_nothing, MqttInv, Types, TypeOK, clientVars, netVars
<1>2. AfterPoll(t) \notin {"length", "body", "handle", "send_ack"}
  BY AfterPollPlace
<1> QED  BY <1>1, <1>2, ReadStep

\* mqtt_poll gives up.
LEMMA LoseStep ==
  ASSUME MqttInv, NEW t \in Threads, pc[t] \in {"poll", "length", "body"}, Lose(t),
         toClient' \in Seq(InChunks),
         UNCHANGED <<next_id, msg_list, msg_mtx, sem_send, req, complete, timeout,
                     out, retval, open, toBroker, histVars>>
  PROVE  MqttInv'
<1>1. /\ connected' \in BOOLEAN /\ Goto(t, AfterPoll(t))
      /\ pkt' = [pkt EXCEPT ![t] = NULL] /\ NULL \in InPackets \cup {NULL}
      /\ out[t] \in OutPackets \cup {NULL} /\ out' = [out EXCEPT ![t] = out[t]]
  BY DEF Lose, MqttInv, Types
<1>2. AfterPoll(t) \notin {"length", "body", "handle", "send_ack"}
  BY AfterPollPlace
<1> QED  BY <1>1, <1>2, ReadStep

\* The connection is found closed.
LEMMA poll_closed_Inv ==
  ASSUME MqttInv, NEW t \in Threads, poll_closed(t)
  PROVE  MqttInv'
<1>1. toClient' \in Seq(InChunks)
  BY DEF poll_closed
<1> QED  BY <1>1, LoseStep DEF poll_closed

\* The length of a packet.
LEMMA read_length_Inv ==
  ASSUME MqttInv, NEW t \in Threads, read_length(t)
  PROVE  MqttInv'
<1>1. /\ pc[t] = "length" /\ pkt[t] \in InPackets
      /\ toClient \in Seq(InChunks) /\ connected \in BOOLEAN
      /\ pkt \in [Threads -> InPackets \cup {NULL}]
      /\ out[t] \in OutPackets \cup {NULL} /\ out' = [out EXCEPT ![t] = out[t]]
      /\ UNCHANGED <<next_id, msg_list, msg_mtx, sem_send, req, complete, timeout,
                     out, retval, open, toBroker, histVars>>
  BY DEF read_length, MqttInv, Types, TypeOK, Places
<1>2. toClient' \in Seq(InChunks)
  <2>1. CASE toClient # <<>> /\ toClient' \in Left(1)
    <3>1. 1 \in DOMAIN toClient  BY <1>1, <2>1
    <3> QED  BY <1>1, <2>1, <3>1, LeftChunks
  <2>2. CASE toClient' = IF open THEN toClient ELSE <<>>
    <3>1. <<>> \in Seq(InChunks)  OBVIOUS
    <3> QED  BY <1>1, <2>2, <3>1
  <2> QED  BY <2>1, <2>2 DEF read_length
<1>3. CASE Lose(t)
  BY <1>1, <1>2, <1>3, LoseStep
<1>4. CASE /\ Goto(t, IF pkt[t].type = "PINGRESP" THEN "handle" ELSE "body")
           /\ UNCHANGED <<connected, pkt>>
  <2>1. pkt' = [pkt EXCEPT ![t] = pkt[t]] /\ connected' \in BOOLEAN
    BY <1>1, <1>4
  <2>2. CASE pkt[t].type = "PINGRESP"
    <3>1. Goto(t, "handle") /\ pkt[t].type \in AckTypes
      BY <1>4, <2>2 DEF AckTypes
    <3> QED  BY <1>1, <1>2, <2>1, <3>1, ReadStep
  <2>3. CASE pkt[t].type # "PINGRESP"
    <3>1. Goto(t, "body")  BY <1>4, <2>3
    <3> QED  BY <1>1, <1>2, <2>1, <3>1, ReadStep
  <2> QED  BY <2>2, <2>3
<1> QED  BY <1>3, <1>4 DEF read_length

\* All of a packet has been read.
LEMMA DispatchStep ==
  ASSUME MqttInv, NEW t \in Threads, pc[t] = "body", NEW id \in Nat, Dispatch(t, id),
         connected' \in BOOLEAN, toClient' \in Seq(InChunks),
         UNCHANGED <<next_id, msg_list, msg_mtx, sem_send, req, complete, timeout,
                     retval, open, toBroker, histVars>>
  PROVE  MqttInv'
<1>1. /\ pkt[t] \in InPackets /\ pkt[t].type \in AckTypes \cup PublishTypes
      /\ out \in [Threads -> OutPackets \cup {NULL}]
  BY DEF MqttInv, Places, Types, InPackets
<1>2. CASE pkt[t].type = "publish0"
  <2>1. /\ pkt' = [pkt EXCEPT ![t] = NULL] /\ NULL \in InPackets \cup {NULL}
        /\ out' = [out EXCEPT ![t] = out[t]] /\ out[t] \in OutPackets \cup {NULL}
        /\ Goto(t, AfterPoll(t))
    BY <1>1, <1>2 DEF Dispatch, PublishTypes
  <2>2. AfterPoll(t) \notin {"length", "body", "handle", "send_ack"}
    BY AfterPollPlace
  <2> QED  BY <2>1, <2>2, ReadStep
<1>3. CASE pkt[t].type = "publish1"
  <2>1. /\ pkt' = [pkt EXCEPT ![t] = NULL] /\ NULL \in InPackets \cup {NULL}
        /\ out' = [out EXCEPT ![t] = Packet("puback", 0, 0)]
        /\ Goto(t, "send_ack")
    BY <1>1, <1>3 DEF Dispatch, PublishTypes
  <2>2. Packet("puback", 0, 0) \in OutPackets
    BY DEF Packet, OutPackets
  <2> QED  BY <2>1, <2>2, ReadStep
<1>4. CASE pkt[t].type \in AckTypes
  <2>1. /\ pkt' = [pkt EXCEPT ![t] = Received(pkt[t].type, id)]
        /\ out' = [out EXCEPT ![t] = out[t]] /\ out[t] \in OutPackets \cup {NULL}
        /\ Goto(t, "handle")
    BY <1>1, <1>4 DEF Dispatch, PublishTypes, AckTypes
  <2>2. /\ Received(pkt[t].type, id) \in InPackets
        /\ Received(pkt[t].type, id).type \in AckTypes
    BY <1>4 DEF Received, InPackets
  <2> QED  BY <2>1, <2>2, ReadStep
<1> QED  BY <1>1, <1>2, <1>3, <1>4 DEF PublishTypes

\* The body of a packet.
LEMMA read_body_Inv ==
  ASSUME MqttInv, NEW t \in Threads, read_body(t)
  PROVE  MqttInv'
<1>1. /\ pc[t] = "body" /\ toClient \in Seq(InChunks) /\ connected \in BOOLEAN
      /\ UNCHANGED <<next_id, msg_list, msg_mtx, sem_send, req, complete, timeout,
                     retval, open, toBroker, histVars>>
  BY DEF read_body, MqttInv, Types, TypeOK
<1>2. CASE /\ toClient # <<>> /\ toClient[1].part = "body"
           /\ toClient' = Tail(toClient)
           /\ Dispatch(t, toClient[1].p.id)
           /\ UNCHANGED connected
  <2>1. toClient[1] \in InChunks /\ toClient' \in Seq(InChunks)
    BY <1>1, <1>2
  <2>2. toClient[1].p.id \in Nat
    BY <1>2, <2>1 DEF InChunks, InPackets
  <2> QED  BY <1>1, <1>2, <2>1, <2>2, DispatchStep
<1>3. ASSUME NEW k \in DOMAIN toClient, NEW id \in 0 .. IdMod - 1,
             toClient' \in Left(k), Dispatch(t, id), UNCHANGED connected
      PROVE  MqttInv'
  <2>1. toClient' \in Seq(InChunks)
    BY <1>1, <1>3, LeftChunks
  <2>2. id \in Nat
    BY MqttAssumption
  <2> QED  BY <1>1, <1>3, <2>1, <2>2, DispatchStep
<1>4. CASE /\ toClient' \in IF ~open THEN {<<>>}
                            ELSE {toClient} \cup IF toClient = <<>> THEN {} ELSE Left(1)
           /\ Lose(t)
           /\ UNCHANGED out
  <2>1. toClient' \in Seq(InChunks)
    <3>0. <<>> \in Seq(InChunks)  OBVIOUS
    <3>1. CASE toClient' = <<>> \/ toClient' = toClient
      BY <1>1, <3>0, <3>1
    <3>2. CASE toClient # <<>> /\ toClient' \in Left(1)
      <4>1. 1 \in DOMAIN toClient  BY <1>1, <3>2
      <4> QED  BY <1>1, <3>2, <4>1, LeftChunks
    <3> QED  BY <1>4, <3>1, <3>2
  <2> QED  BY <1>1, <1>4, <2>1, LoseStep
<1> QED  BY <1>2, <1>3, <1>4 DEF read_body

\* A packet is handled: the request it completes is on the list, so that its
\* function has not returned, and had not been completed.
LEMMA handle_Inv ==
  ASSUME MqttInv, NEW t \in Threads, handle(t)
  PROVE  MqttInv'
<1> USE DEF MqttInv
<1> DEFINE p == pkt[t]
           found == {i \in DOMAIN msg_list : Answers(p, msg_list[i])}
           u == msg_list[Min(found)]
<1>1. /\ pc[t] = "handle" /\ msg_mtx = NULL
      /\ p \in InPackets /\ p.type \in AckTypes
      /\ t \in Callers => Answerable(req[t].kind)
  BY DEF handle, Places, PollLabels
<1>2. /\ pkt' = [pkt EXCEPT ![t] = NULL]
      /\ UNCHANGED <<next_id, connected, msg_list, sem_send, timeout, retval,
                     netVars, histVars>>
  BY DEF handle
<1>3. \/ /\ found = {}
         /\ Goto(t, AfterPoll(t))
         /\ UNCHANGED <<req, complete, msg_mtx, out>>
      \/ /\ found # {} /\ p.type = "PUBREC"
         /\ req' = [req EXCEPT ![u].state = "PUBREC"]
         /\ msg_mtx' = t
         /\ out' = [out EXCEPT ![t] = Packet("pubrel", req[u].id, req[u].serial)]
         /\ Goto(t, "send_rel")
         /\ UNCHANGED complete
      \/ /\ found # {} /\ p.type # "PUBREC"
         /\ \E status \in {"ok", "refused"} :
              req' = [req EXCEPT ![u].state = p.type, ![u].status = status]
         /\ complete' = [complete EXCEPT ![u] = @ + 1]
         /\ Goto(t, AfterPoll(t))
         /\ UNCHANGED <<msg_mtx, out>>
  BY DEF handle, PubrelOwner
<1>4. found # {} =>
        /\ u \in Callers /\ u \in Threads /\ On(msg_list, u) /\ Answers(p, u)
        /\ pc[u] # "idle"
  <2> HIDE DEF p
  <2> SUFFICES ASSUME found # {}
               PROVE  u \in Callers /\ On(msg_list, u) /\ Answers(p, u)
    BY DEF Listed, Threads
  <2> QED  BY FoundRequest
<1> HIDE DEF p, found, u
<1>5. /\ pkt' \in [Threads -> InPackets \cup {NULL}] /\ pkt'[t] = NULL
      /\ \A v \in Threads : v # t => pkt'[v] = pkt[v]
  BY <1>2 DEF Types
<1>6. /\ pc' \in [Threads -> Labels]
      /\ pc'[t] \in {AfterPoll(t), "send_rel"}
      /\ \A v \in Threads : v # t => pc'[v] = pc[v]
  BY <1>3, GotoStep, AfterPollPlace DEF Labels
<1>7. /\ out' \in [Threads -> OutPackets \cup {NULL}]
      /\ \A v \in Threads : v # t => out'[v] = out[v]
      /\ pc'[t] = "send_rel" => out'[t] \in OutPackets /\ msg_mtx' = t
      /\ pc'[t] # "send_rel" => UNCHANGED msg_mtx
  <2>1. CASE UNCHANGED <<out, msg_mtx>> /\ Goto(t, AfterPoll(t))
    <3>1. pc'[t] # "send_rel"  BY <2>1, GotoStep, AfterPollPlace
    <3> QED  BY <2>1, <3>1 DEF Types
  <2>2. CASE /\ found # {}
             /\ out' = [out EXCEPT ![t] = Packet("pubrel", req[u].id, req[u].serial)]
             /\ msg_mtx' = t /\ Goto(t, "send_rel")
    <3>1. pc'[t] = "send_rel"  BY <2>2, GotoStep DEF Labels
    <3>2. Packet("pubrel", req[u].id, req[u].serial) \in OutPackets
      BY <1>4, <2>2 DEF Packet, OutPackets, Types, Requests
    <3> QED  BY <2>2, <3>1, <3>2 DEF Types
  <2> QED  BY <1>3, <2>1, <2>2
<1>0. found # {} => complete[u] = 0
  <2> SUFFICES ASSUME found # {}
               PROVE  complete[u] = 0
    OBVIOUS
  <2>1. req[u].state \notin DoneStates  BY <1>1, <1>4, AnswersState
  <2>2. complete[u] \in 0 .. 1  BY <1>4 DEF TypeOK
  <2> QED  BY <1>4, <2>1, <2>2 DEF Outcomes
<1>8. /\ req' \in [Threads -> Requests]
      /\ complete' \in [Threads -> 0 .. 1]
      /\ \A v \in Threads :
           /\ req'[v].kind = req[v].kind
           /\ complete'[v] > 0 => req'[v].state \in DoneStates
           /\ req'[v].state \in DoneStates => req'[v].status \in {"ok", "refused"}
           /\ pc[v] = "idle" => req'[v] = req[v]
  <2>1. CASE UNCHANGED <<req, complete>>
    BY <2>1 DEF Types, TypeOK, Outcomes
  <2>2. CASE /\ found # {} /\ req' = [req EXCEPT ![u].state = "PUBREC"]
             /\ UNCHANGED complete
    <3>1. req' \in [Threads -> Requests]
      BY <1>4, <2>2 DEF Types, Requests, AckTypes
    <3>2. /\ req'[u].kind = req[u].kind /\ req'[u].state = "PUBREC"
          /\ \A v \in Threads : v # u => req'[v] = req[v]
      BY <1>4, <2>2 DEF Types, Requests
    <3>3. complete[u] = 0
      BY <1>0, <2>2
    <3> QED  BY <1>4, <2>2, <3>1, <3>2, <3>3 DEF TypeOK, Outcomes, DoneStates
  <2>3. CASE /\ found # {} /\ p.type # "PUBREC"
             /\ \E status \in {"ok", "refused"} :
                  req' = [req EXCEPT ![u].state = p.type, ![u].status = status]
             /\ complete' = [complete EXCEPT ![u] = @ + 1]
    <3>0. PICK status \in {"ok", "refused"} :
                  req' = [req EXCEPT ![u].state = p.type, ![u].status = status]
      BY <2>3
    <3>1. req' \in [Threads -> Requests]
      <4> DEFINE r == [req[u] EXCEPT !.state = p.type, !.status = status]
      <4>1. r \in Requests
        <5>1. req[u] \in Requests  BY <1>4, <2>3 DEF Types
        <5> QED  BY <1>1, <5>1 DEF Requests
      <4>2. req' = [req EXCEPT ![u] = r]  BY <1>4, <2>3, <3>0 DEF Types
      <4> HIDE DEF r
      <4> QED  BY <4>1, <4>2 DEF Types
    <3>2. /\ req'[u].kind = req[u].kind /\ req'[u].state = p.type
          /\ req'[u].status = status
          /\ \A v \in Threads : v # u => req'[v] = req[v]
      BY <1>4, <2>3, <3>0 DEF Types, Requests
    <3>3. complete[u] = 0
      BY <1>0, <2>3
    <3>4. /\ complete' \in [Threads -> 0 .. 1]
          /\ \A v \in Threads : v # u => complete'[v] = complete[v]
      BY <1>4, <2>3, <3>3 DEF TypeOK
    <3>5. p.type \in DoneStates
      BY <1>1, <2>3 DEF DoneStates
    <3> QED  BY <1>4, <2>3, <3>1, <3>2, <3>4, <3>5 DEF Outcomes
  <2> QED  BY <1>3, <2>1, <2>2, <2>3
<1>9. TypeOK'
  BY <1>2, <1>6, <1>7, <1>8 DEF TypeOK, netVars
<1>10. Types'
  BY <1>2, <1>5, <1>7, <1>8 DEF Types, netVars, histVars
<1>11. Places'
  <2>1. /\ pc'[t] \in Packing => out'[t] \in OutPackets
        /\ pc'[t] \notin {"length", "body", "handle", "done"}
        /\ t = Poller => pc'[t] \in PollLabels
    BY <1>6, <1>7, AfterPollPlace DEF Packing, Sending, Writing, PollLabels
  <2> QED  BY <1>1, <1>5, <1>6, <1>7, <1>8, <2>1 DEF Places, Threads
<1>12. Locks'
  BY <1>1, <1>2, <1>6, <1>7, AfterPollPlace, MqttAssumption DEF Locks, Writing
<1>13. Listed'
  BY <1>1, <1>2, <1>6, <1>8, AfterPollPlace DEF Listed, Threads
<1>14. Outcomes'
  <2>1. pc'[t] # "idle" /\ pc[t] # "idle"  BY <1>1, <1>6, AfterPollPlace
  <2> QED  BY <1>2, <1>6, <1>8, <2>1 DEF Outcomes
<1>15. Wire'
  <2>1. sem_send # t  BY <1>1 DEF Locks, Writing
  <2> QED  BY <1>2, <1>7, <2>1 DEF Wire, WireWhole, netVars, TypeOK
<1>16. Released'
  <2>1. released' = released  BY <1>2 DEF histVars
  <2>2. CASE UNCHANGED <<req, msg_mtx, out>>
    BY <2>1, <2>2 DEF Released
  <2>3. CASE /\ found # {} /\ req' = [req EXCEPT ![u].state = "PUBREC"]
             /\ msg_mtx' = t
             /\ out' = [out EXCEPT ![t] = Packet("pubrel", req[u].id, req[u].serial)]
    <3>1. /\ req'[u].state = "PUBREC" /\ req'[u].serial = req[u].serial
          /\ \A v \in Threads : v # u => req'[v] = req[v]
      BY <1>4, <2>3 DEF Types, Requests
    <3>2. out'[t].serial = req[u].serial /\ msg_mtx' # NULL
      BY <2>3, MqttAssumption DEF Types, Packet
    <3>3. \A v \in Threads : v # u /\ req'[v].state \in {"PUBREC", "PUBCOMP"} =>
            req'[v].serial \in released
      BY <1>1, <3>1 DEF Released
    <3> QED  BY <2>1, <2>3, <3>1, <3>2, <3>3 DEF Released
  <2>4. CASE /\ found # {} /\ p.type # "PUBREC"
             /\ \E status \in {"ok", "refused"} :
                  req' = [req EXCEPT ![u].state = p.type, ![u].status = status]
             /\ UNCHANGED <<msg_mtx, out>>
    <3>1. /\ req'[u].state = p.type /\ req'[u].serial = req[u].serial
          /\ \A v \in Threads : v # u => req'[v] = req[v]
      BY <1>4, <2>4 DEF Types, Requests
    <3>2. p.type = "PUBCOMP" => req[u].state = "PUBREC"
      BY <1>4, <2>4 DEF Answers
    <3>3. p.type = "PUBCOMP" => req[u].serial \in released
      BY <1>1, <1>4, <2>4, <3>2 DEF Released
    <3> QED  BY <1>4, <2>1, <2>4, <3>1, <3>3 DEF Released
  <2> QED  BY <1>3, <2>2, <2>3, <2>4
<1> QED  BY <1>9, <1>10, <1>11, <1>12, <1>13, <1>14, <1>15, <1>16


\* The parts of a packet.
LEMMA PartsType ==
  ASSUME NEW s \in Seq(InChunks), NEW p \in InPackets
  PROVE  s \o PartsOf(p) \in Seq(InChunks)
<1> DEFINE part(name) == [part |-> name, p |-> p]
<1>1. \A name \in {"control", "length", "body"} : part(name) \in InChunks
  BY DEF InChunks
<1>2. \/ PartsOf(p) = <<part("control"), part("length")>> \o <<part("body")>>
      \/ PartsOf(p) = <<part("control"), part("length")>> \o <<>>
  BY DEF PartsOf
<1> HIDE DEF part
<1>3. /\ <<part("control"), part("length")>> \in Seq(InChunks)
      /\ <<part("body")>> \in Seq(InChunks) /\ <<>> \in Seq(InChunks)
  BY <1>1
<1>4. PartsOf(p) \in Seq(InChunks)
  BY <1>2, <1>3, ConcatProperties
<1> QED  BY <1>4, ConcatProperties

\* The broker takes a packet.
LEMMA Broker_Inv ==
  ASSUME MqttInv, Broker
  PROVE  MqttInv'
<1> USE DEF MqttInv
<1>1. /\ toBroker' \in Seq(Chunks) /\ toBroker # <<>> /\ toBroker[1] \in Chunks
      /\ WireWhole'
      /\ toBroker' # <<>> =>
           toBroker'[Len(toBroker')] = toBroker[Len(toBroker)]
  BY BrokerTakes DEF Broker, Types, Wire
<1>2. UNCHANGED <<clientVars, threadVars, open, histVars>> /\ open
  BY DEF Broker
<1>3. toClient' \in Seq(InChunks)
  <2> DEFINE p == toBroker[1].p
  <2>1. p \in OutPackets
    BY <1>1 DEF Chunks
  <2>2. p.type \in DOMAIN Answer => Received(Answer[p.type], p.id) \in InPackets
    BY <2>1 DEF Answer, Received, InPackets, OutPackets, AckTypes
  <2>3. \/ toClient' = toClient
        \/ /\ p.type \in DOMAIN Answer
           /\ toClient' = toClient \o PartsOf(Received(Answer[p.type], p.id))
    BY DEF Broker
  <2>4. toClient \in Seq(InChunks)  BY DEF Types
  <2> HIDE DEF p
  <2> QED  BY <2>2, <2>3, <2>4, PartsType
<1>4. TypeOK'
  BY <1>2 DEF TypeOK, clientVars, threadVars
<1>5. Types'
  BY <1>1, <1>2, <1>3 DEF Types, threadVars, histVars
<1>6. Places' /\ Locks' /\ Listed' /\ Outcomes' /\ Released'
  BY <1>2 DEF Places, Locks, Listed, Outcomes, Released, clientVars, threadVars, histVars
<1>7. Wire'
  BY <1>1, <1>2 DEF Wire, clientVars, threadVars
<1> QED  BY <1>4, <1>5, <1>6, <1>7

\* The broker publishes a message.
LEMMA BrokerPublish_Inv ==
  ASSUME MqttInv, BrokerPublish
  PROVE  MqttInv'
<1> USE DEF MqttInv
<1>1. /\ UNCHANGED <<clientVars, threadVars, open, toBroker, released>>
      /\ serial < MaxReq /\ serial' = serial + 1
  BY DEF BrokerPublish
<1>2. toClient' \in Seq(InChunks)
  <2>1. PICK type \in PublishTypes : toClient' = toClient \o PartsOf(Received(type, 0))
    BY DEF BrokerPublish
  <2>2. Received(type, 0) \in InPackets
    BY DEF Received, InPackets
  <2> QED  BY <2>1, <2>2, PartsType DEF Types
<1>3. TypeOK'
  BY <1>1 DEF TypeOK, clientVars, threadVars
<1>4. Types'
  <2>1. serial' \in 0 .. MaxReq
    BY <1>1, MqttAssumption DEF Types
  <2> QED  BY <1>1, <1>2, <2>1 DEF Types, threadVars
<1>5. Places' /\ Locks' /\ Listed' /\ Outcomes' /\ Wire' /\ Released'
  BY <1>1 DEF Places, Locks, Listed, Outcomes, Wire, WireWhole, Released, clientVars,
              threadVars
<1> QED  BY <1>3, <1>4, <1>5

\* Another thread takes an identifier.
LEMMA other_call_Inv ==
  ASSUME MqttInv, other_call
  PROVE  MqttInv'
<1> USE DEF MqttInv
<1>1. UNCHANGED <<connected, msg_list, msg_mtx, sem_send, threadVars, netVars, histVars>>
  BY DEF other_call
<1>2. next_id' \in 0 .. IdMod - 1
  <2>1. next_id \in Nat /\ IdMod \in Nat /\ IdMod > 0
    BY MqttAssumption DEF TypeOK
  <2>2. (next_id + 1) % IdMod \in 0 .. IdMod - 1
    BY <2>1
  <2> QED  BY <2>2 DEF other_call
<1>3. TypeOK' /\ Types'
  BY <1>1, <1>2 DEF TypeOK, Types, threadVars, netVars, histVars
<1>4. Places' /\ Locks' /\ Listed' /\ Outcomes' /\ Wire' /\ Released'
  BY <1>1 DEF Places, Locks, Listed, Outcomes, Wire, WireWhole, Released, threadVars,
              netVars, histVars
<1> QED  BY <1>3, <1>4

\* The connection is closed.
LEMMA Close_Inv ==
  ASSUME MqttInv, Close
  PROVE  MqttInv'
<1> USE DEF MqttInv
<1>1. /\ open' = FALSE /\ toBroker' = <<>>
      /\ UNCHANGED <<clientVars, threadVars, toClient, histVars>>
  BY DEF Close
<1>2. toBroker' \in Seq(Chunks) /\ DOMAIN toBroker' = {}
  BY <1>1
<1>3. TypeOK'
  BY <1>1 DEF TypeOK, clientVars, threadVars
<1>4. Types'
  BY <1>1, <1>2 DEF Types, threadVars, histVars
<1>5. Places' /\ Locks' /\ Listed' /\ Outcomes' /\ Released'
  BY <1>1 DEF Places, Locks, Listed, Outcomes, Released, clientVars, threadVars, histVars
<1>6. Wire'
  BY <1>1, <1>2 DEF Wire, WireWhole
<1> QED  BY <1>3, <1>4, <1>5, <1>6

-----------------------------------------------------------------------------
\* MqttInv is inductive.
LEMMA Next_Inv ==
  ASSUME MqttInv, [Next]_vars
  PROVE  MqttInv'
<1>1. CASE \E t \in Threads : Step(t)
  BY <1>1, append_Inv, send_wait_Inv, net_write_Inv, send_failed_Inv,
     send_done_Inv, wait_Inv, remove_Inv, poll_control_Inv, poll_nothing_Inv,
     poll_closed_Inv, read_length_Inv, read_body_Inv, handle_Inv DEF Step
<1>2. CASE \E t \in Callers, kind \in Kinds : call(t, kind)
  BY <1>2, call_Inv
<1>3. CASE other_call \/ Broker \/ BrokerPublish \/ Close
  BY <1>3, other_call_Inv, Broker_Inv, BrokerPublish_Inv, Close_Inv
<1>4. CASE UNCHANGED vars
  BY <1>4 DEF MqttInv, TypeOK, Types, Places, Locks, Listed, Outcomes, Wire,
              WireWhole, Released, vars, clientVars, threadVars, netVars, histVars
<1> QED  BY <1>1, <1>2, <1>3, <1>4 DEF Next

\* MqttInv holds in every state, for every number of threads and requests.
THEOREM MqttInvariant == Spec => []MqttInv
<1>1. Init => MqttInv
  BY Init_Inv
<1>2. MqttInv /\ [Next]_vars => MqttInv'
  BY Next_Inv
<1> QED  BY <1>1, <1>2, PTL DEF Spec

\* The permit to send and msg_mtx are given back on every path, a thread that
\* holds the permit waits for no lock, and one that holds msg_mtx waits for
\* nothing but the permit.  With the types of all variables, complete <= 1
\* among them.
THEOREM LocksOrdered == Spec => []LockOrder
<1>1. MqttInv => LockOrder
  BY DEF MqttInv, Locks, Writing, LockOrder
<1> QED  BY <1>1, MqttInvariant, PTL

\* A request is on msg_list once while its function waits for the answer, and
\* not at all when that stack frame is gone (mqtt_publish, mqtt_subscribe and
\* the others take it off on each path).
THEOREM RequestsDoNotDangle == Spec => []NoDanglingRequest
<1>1. MqttInv => NoDanglingRequest
  <2> SUFFICES ASSUME MqttInv, NEW t \in Callers
               PROVE  Cardinality({i \in DOMAIN msg_list : msg_list[i] = t}) =
                        IF Answerable(req[t].kind) /\ pc[t] \notin {"idle", "append"}
                        THEN 1 ELSE 0
    BY DEF NoDanglingRequest
  <2>1. msg_list \in Seq(Callers) /\ Once(msg_list)
    BY DEF MqttInv, TypeOK, Listed
  <2>2. Cardinality({i \in DOMAIN msg_list : msg_list[i] = t})
          = IF On(msg_list, t) THEN 1 ELSE 0
    BY <2>1, PlacesOnce
  <2> QED  BY <2>2 DEF MqttInv, Listed
<1> QED  BY <1>1, MqttInvariant, PTL

\* Packets written in parts by several threads are not mixed on the wire
\* (mqtt_send with sem_send).
THEOREM PacketsStayWhole == Spec => []WireWhole
<1>1. MqttInv => WireWhole
  BY DEF MqttInv, Wire
<1> QED  BY <1>1, MqttInvariant, PTL

\* The outcome of a request fits what has been done for it, whatever identifiers
\* are used again and whatever the threads that poll make of torn packets:
\* PUBCOMP completes a message after its PUBREL (handle_pubrec holds msg_mtx
\* while it sends), and a request that was answered does not report a timeout.
THEOREM ResultsAreHonest == Spec => []ResultHonest
<1>1. MqttInv => ResultHonest
  BY DEF MqttInv, Outcomes, Released, ResultHonest, Threads
<1> QED  BY <1>1, MqttInvariant, PTL
=============================================================================
