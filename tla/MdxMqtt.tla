------------------------------- MODULE MdxMqtt ------------------------------
(***************************************************************************)
(* The MQTT client (lib/mqtt/mqtt.c): threads that connect, subscribe,     *)
(* publish, ping and disconnect, and a receive thread that calls mqtt_poll *)
(* for ever, on one connection to a broker.  Requests wait on msg_list for *)
(* their answer, which any thread that polls may be the one to read.       *)
(*                                                                         *)
(* The threads are cooperative: they are switched where they wait for a    *)
(* lock, a permit or the network, so next_id++ is one step.  No lock is    *)
(* held while a packet is read: its control byte, its length and its body  *)
(* are three reads, and threads that poll may tear a packet.  A read that  *)
(* does not begin where it should yields any value that the bytes it finds *)
(* there may have.  The callbacks of the application do nothing here.  The *)
(* broker answers requests, in their order, or not at all; the connection  *)
(* loses nothing before it is closed, which it may be at any time.         *)
(***************************************************************************)
EXTENDS Naturals, Sequences, FiniteSets, SequencesExt

CONSTANTS
  Callers,     \* the threads that make requests
  Poller,      \* the receive thread
  NULL,
  Kinds,       \* the requests they make
  Timeouts,    \* initial value of timeout in the request loops
  IdMod,       \* next_id is below this
  MaxReq,      \* bound: requests made and messages published by the broker
  Garbled      \* bound: the packets that bytes out of place are taken for

Threads == Callers \cup {Poller}

AllKinds == {"connect", "subscribe", "publish0", "publish1", "publish2",
             "ping", "disconnect"}

\* Packets that the client handles.
AckTypes == {"CONNACK", "SUBACK", "PUBACK", "PUBREC", "PUBCOMP", "PINGRESP"}
PublishTypes == {"publish0", "publish1"}

ASSUME MqttAssumption ==
  /\ Poller \notin Callers
  /\ NULL \notin Threads
  /\ Kinds \subseteq AllKinds
  /\ Timeouts \in Nat
  /\ IdMod \in Nat /\ IdMod > 1
  /\ MaxReq \in Nat
  /\ Garbled \subseteq AckTypes \cup PublishTypes

VARIABLES
  next_id,     \* c->next_id
  connected,   \* c->connected
  msg_list,    \* c->msg_list: the threads whose requests are on it
  msg_mtx,     \* owner of c->msg_mtx
  sem_send,    \* holder of the permit of c->sem_send
  pc,          \* where thread t is
  req,         \* its request: [kind, state, id, serial, status]
  complete,    \* req.complete.sem_count
  timeout,     \* local variable timeout
  pkt,         \* what mqtt_poll has read of a packet
  out,         \* packet that mqtt_send writes
  retval,      \* what the last request of t returned
  open,        \* is the connection open?
  toBroker,    \* chunks of packets written: [p, part]
  toClient,    \* parts of packets sent by the broker and not read
  serial,      \* history: requests made and messages published by the broker
  released     \* history: requests for which sending PUBREL has ended

clientVars == <<next_id, connected, msg_list, msg_mtx, sem_send>>
threadVars == <<pc, req, complete, timeout, pkt, out, retval>>
netVars == <<open, toBroker, toClient>>
histVars == <<serial, released>>
vars == <<clientVars, threadVars, netVars, histVars>>

-----------------------------------------------------------------------------
Packet(type, id, n) == [type |-> type, id |-> id, serial |-> n]
Received(type, id) == [type |-> type, id |-> id]

\* Remaining length of the packets that have a fixed one.
Remaining == [CONNACK |-> 2, SUBACK |-> 3, PUBACK |-> 2, PUBREC |-> 2,
              PUBCOMP |-> 2, PINGRESP |-> 0]

\* The state in which a request waits for the answer that completes it, and
\* the one that the answer puts it in.
Sent == [connect |-> "CONNECT", subscribe |-> "SUBSCRIBE", publish0 |-> "none",
         publish1 |-> "PUBLISH", publish2 |-> "PUBLISH", ping |-> "PINGREQ",
         disconnect |-> "none"]
Done == [connect |-> "CONNACK", subscribe |-> "SUBACK", publish0 |-> "none",
         publish1 |-> "PUBACK", publish2 |-> "PUBCOMP", ping |-> "PINGRESP",
         disconnect |-> "none"]

NoRequest == [kind |-> "none", state |-> "none", id |-> 0, serial |-> 0,
              status |-> "none"]

\* Kinds of requests that wait on msg_list for an answer.
Answerable(kind) == kind \notin {"none", "publish0", "disconnect"}
HasId(kind) == kind \in {"subscribe", "publish1", "publish2"}

Goto(t, l) == pc' = [pc EXCEPT ![t] = l]

\* After mqtt_poll: the loop of a request waits, the receive thread polls.
AfterPoll(t) == IF t = Poller THEN "poll" ELSE "wait"

Init ==
  /\ next_id = 1
  /\ connected = FALSE
  /\ msg_list = <<>>
  /\ msg_mtx = NULL /\ sem_send = NULL
  /\ pc = [t \in Threads |-> IF t = Poller THEN "poll" ELSE "idle"]
  /\ req = [t \in Threads |-> NoRequest]
  /\ complete = [t \in Threads |-> 0]
  /\ timeout = [t \in Threads |-> 0]
  /\ pkt = [t \in Threads |-> NULL]
  /\ out = [t \in Threads |-> NULL]
  /\ retval = [t \in Threads |-> "none"]
  /\ open = TRUE
  /\ toBroker = <<>> /\ toClient = <<>>
  /\ serial = 0 /\ released = {}

-----------------------------------------------------------------------------
(***************************************************************************)
(* mqtt_connect, mqtt_subscribe, mqtt_publish, mqtt_ping, mqtt_disconnect. *)
(***************************************************************************)

NextId(kind) == IF HasId(kind) THEN (next_id + 1) % IdMod ELSE next_id

\* The packet is built and the request initialised.
call(t, kind) ==
  /\ pc[t] = "idle"
  /\ serial < MaxReq
  /\ LET id == IF HasId(kind) THEN next_id ELSE 0
     IN  /\ req' = [req EXCEPT ![t] = [kind |-> kind, state |-> Sent[kind],
                      id |-> id, serial |-> serial + 1, status |-> "none"]]
         /\ out' = [out EXCEPT ![t] = Packet(kind, id, serial + 1)]
  /\ next_id' = NextId(kind)
  /\ complete' = [complete EXCEPT ![t] = 0]
  /\ timeout' = [timeout EXCEPT ![t] = Timeouts]
  /\ serial' = serial + 1
  /\ Goto(t, IF Answerable(kind) THEN "append" ELSE "send")
  /\ UNCHANGED <<connected, msg_list, msg_mtx, sem_send, pkt, retval, netVars,
                 released>>

\* A thread that is not modelled makes a request, of which only the identifier
\* matters: 65536 of them, here IdMod, and an identifier is used again.  It
\* comes between requests that are modelled, elsewhere it makes no difference.
other_call ==
  /\ serial \in 1 .. MaxReq - 1
  /\ next_id' = (next_id + 1) % IdMod
  /\ UNCHANGED <<connected, msg_list, msg_mtx, sem_send, threadVars, netVars,
                 histVars>>

append(t) ==
  /\ pc[t] = "append"
  /\ msg_mtx = NULL
  /\ msg_list' = Append(msg_list, t)
  /\ Goto(t, "send")
  /\ UNCHANGED <<next_id, connected, msg_mtx, sem_send, req, complete, timeout,
                 pkt, out, retval, netVars, histVars>>

\* Mutant: mqtt_send does not take the permit.
send_wait_free(t) ==
  /\ pc[t] \in {"send", "send_rel", "send_ack"}
  /\ Goto(t, CASE pc[t] = "send" -> "write" [] pc[t] = "send_rel" -> "write_rel"
               [] pc[t] = "send_ack" -> "write_ack")
  /\ UNCHANGED <<clientVars, req, complete, timeout, pkt, out, retval, netVars,
                 histVars>>

\* mqtt_send waits for the permit.
send_wait(t) ==
  /\ pc[t] \in {"send", "send_rel", "send_ack"}
  /\ sem_send = NULL
  /\ sem_send' = t
  /\ Goto(t, CASE pc[t] = "send" -> "write" [] pc[t] = "send_rel" -> "write_rel"
               [] pc[t] = "send_ack" -> "write_ack")
  /\ UNCHANGED <<next_id, connected, msg_list, msg_mtx, req, complete, timeout,
                 pkt, out, retval, netVars, histVars>>

\* Where the caller of mqtt_send goes on.
AfterSend(t, sent) ==
  IF pc[t] # "write" THEN AfterPoll(t)
  ELSE IF ~sent THEN "fail"
  ELSE IF Answerable(req[t].kind) THEN "poll" ELSE "done"

\* Mutant: handle_pubrec returns at once when PUBREL cannot be sent.
Unlocks_sent(t, ok) == pc[t] = "write_rel" /\ ok

\* handle_pubrec unlocks msg_mtx, whatever mqtt_send_pubrel returned.
Unlocks(t, ok) == pc[t] = "write_rel"

\* net->write takes all of the packet, a part of it, or fails, and what it has
\* taken is then cut; the permit is given back, and msg_mtx if handle_pubrec
\* holds it.
net_write(t) ==
  LET half == /\ toBroker # <<>>
              /\ toBroker[Len(toBroker)] = [p |-> out[t], part |-> "first"]
      sent(part) == toBroker' = Append(toBroker, [p |-> out[t], part |-> part])
      finish(ok) ==
        /\ sem_send' = NULL
        /\ msg_mtx' = IF Unlocks(t, ok) THEN NULL ELSE msg_mtx
        /\ out' = [out EXCEPT ![t] = NULL]
        /\ released' = IF pc[t] = "write_rel" THEN released \cup {out[t].serial}
                       ELSE released
        /\ Goto(t, AfterSend(t, ok))
  IN  /\ pc[t] \in {"write", "write_rel", "write_ack"}
      /\ \/ /\ open /\ ~half
            /\ sent("first")
            /\ UNCHANGED <<pc, out, sem_send, msg_mtx, released>>
         \/ /\ open
            /\ sent(IF half THEN "rest" ELSE "all")
            /\ finish(TRUE)
         \/ /\ toBroker' = IF half THEN [toBroker EXCEPT ![Len(toBroker)].part = "cut"]
                           ELSE toBroker
            /\ finish(FALSE)
      /\ UNCHANGED <<next_id, connected, msg_list, req, complete, timeout, pkt,
                     retval, open, toClient, serial>>

\* The function returns; its local variables and its semaphore are gone.
Return(t, value) ==
  /\ retval' = [retval EXCEPT ![t] = value]
  /\ timeout' = [timeout EXCEPT ![t] = 0]
  /\ complete' = [complete EXCEPT ![t] = 0]
  /\ Goto(t, "idle")

\* Mutant: a request that could not be sent stays on the list.
send_failed_keep(t) ==
  /\ pc[t] = "fail"
  /\ msg_mtx = NULL
  /\ connected' = FALSE
  /\ Return(t, "conn")
  /\ UNCHANGED <<next_id, msg_list, msg_mtx, sem_send, req, pkt,
                 out, netVars, histVars>>

\* The packet could not be sent.  mqtt_disconnect raises no event.
send_failed(t) ==
  /\ pc[t] = "fail"
  /\ Answerable(req[t].kind) => msg_mtx = NULL
  /\ msg_list' = RemoveFirst(msg_list, t)
  /\ connected' = IF req[t].kind = "disconnect" THEN connected ELSE FALSE
  /\ Return(t, "conn")
  /\ UNCHANGED <<next_id, msg_mtx, sem_send, req, pkt, out,
                 netVars, histVars>>

\* A request without answer is done: mqtt_publish with qos 0, or
\* mqtt_disconnect, which raises the event.
send_done(t) ==
  /\ pc[t] = "done"
  /\ connected' = IF req[t].kind = "disconnect" THEN FALSE ELSE connected
  /\ Return(t, "ok")
  /\ UNCHANGED <<next_id, msg_list, msg_mtx, sem_send, req, pkt,
                 out, netVars, histVars>>

\* mdx_sem_timedwait(&req->complete): the answer, or a timeout.
wait(t) ==
  /\ pc[t] = "wait"
  /\ \/ /\ complete[t] > 0
        /\ complete' = [complete EXCEPT ![t] = @ - 1]
        /\ Goto(t, "remove")
        /\ UNCHANGED timeout
     \/ /\ complete[t] = 0
        /\ IF timeout[t] = 0
           THEN Goto(t, "remove") /\ UNCHANGED timeout
           ELSE Goto(t, "poll") /\ timeout' = [timeout EXCEPT ![t] = @ - 1]
        /\ UNCHANGED complete
  /\ UNCHANGED <<clientVars, req, pkt, out, retval, netVars, histVars>>

\* What a request returns is decided by its state, once it is off the list.
Result(t) ==
  IF req[t].state = Done[req[t].kind] THEN req[t].status ELSE "timeout"

remove(t) ==
  /\ pc[t] = "remove"
  /\ msg_mtx = NULL
  /\ msg_list' = RemoveFirst(msg_list, t)
  /\ connected' = IF req[t].kind = "connect" /\ Result(t) = "ok" THEN TRUE
                  ELSE connected
  /\ Return(t, Result(t))
  /\ UNCHANGED <<next_id, msg_mtx, sem_send, req, pkt, out,
                 netVars, histVars>>

-----------------------------------------------------------------------------
(***************************************************************************)
(* mqtt_poll, called by the receive thread and by the loops of requests.   *)
(***************************************************************************)

\* What may be left to read after a read that has reached the k-th part and
\* has taken all of it or, of a body, some of its bytes: two reads exhaust it.
Left(k) ==
  LET after == SubSeq(toClient, k + 1, Len(toClient))
      bytes == [part |-> "bytes", p |-> Received("none", 0)]
  IN  {after} \cup IF toClient[k].part = "body" THEN {<<bytes>> \o after} ELSE {}

\* The control bytes that a read may find at the head of the stream.  The
\* lengths of packets other than PUBLISH are no control bytes.
ControlRead(c) ==
  CASE c.part = "control" -> {c.p.type}
    [] c.part = "length" /\ c.p.type \in AckTypes -> {"unknown"}
    [] OTHER -> Garbled \cup {"unknown"}

\* The first byte of a packet.  Unknown ones are dropped.
poll_control(t) ==
  /\ pc[t] = "poll"
  /\ toClient # <<>>
  /\ \E type \in ControlRead(toClient[1]) :
       IF type = "unknown"
       THEN UNCHANGED pkt /\ Goto(t, AfterPoll(t))
       ELSE pkt' = [pkt EXCEPT ![t] = Received(type, 0)] /\ Goto(t, "length")
  /\ toClient' \in Left(1)
  /\ UNCHANGED <<clientVars, req, complete, timeout, out, retval, open, toBroker,
                 histVars>>

\* Nothing has come yet.
poll_nothing(t) ==
  /\ pc[t] = "poll"
  /\ open
  /\ Goto(t, AfterPoll(t))
  /\ UNCHANGED <<clientVars, req, complete, timeout, pkt, out, retval, netVars,
                 histVars>>

\* mqtt_poll finds the connection closed, or has read what it cannot use.
Lose(t) ==
  /\ connected' = FALSE
  /\ pkt' = [pkt EXCEPT ![t] = NULL]
  /\ Goto(t, AfterPoll(t))

\* The connection is closed; what has not arrived is lost.
poll_closed(t) ==
  /\ pc[t] = "poll"
  /\ ~open
  /\ toClient' = <<>>
  /\ Lose(t)
  /\ UNCHANGED <<next_id, msg_list, msg_mtx, sem_send, req, complete, timeout,
                 out, retval, open, toBroker, histVars>>

\* Is the length the one that a packet of this type has?  No control byte is
\* the length of a packet other than PUBLISH.
LengthRead(c, type) ==
  CASE type \in PublishTypes \cup {"PINGRESP"} -> {TRUE}
    [] c.part = "control" -> {FALSE}
    [] c.part = "length" /\ c.p.type \in AckTypes -> {Remaining[c.p.type] = Remaining[type]}
    [] OTHER -> BOOLEAN

\* read_msg, handle_pingresp and handle_publish read the length, if it comes.
read_length(t) ==
  /\ pc[t] = "length"
  /\ \/ /\ toClient # <<>>
        /\ toClient' \in Left(1)
        /\ \E right \in LengthRead(toClient[1], pkt[t].type) :
             IF right
             THEN /\ Goto(t, IF pkt[t].type = "PINGRESP" THEN "handle" ELSE "body")
                  /\ UNCHANGED <<connected, pkt>>
             ELSE Lose(t)
     \/ /\ toClient' = IF open THEN toClient ELSE <<>>
        /\ Lose(t)
  /\ UNCHANGED <<next_id, msg_list, msg_mtx, sem_send, req, complete, timeout,
                 out, retval, open, toBroker, histVars>>

\* Where mqtt_poll goes on with all of a packet: handle_publish gives the
\* message to the application and, if its qos is 1, sends PUBACK.
Dispatch(t, id) ==
  LET type == pkt[t].type
  IN  /\ pkt' = [pkt EXCEPT ![t] = IF type \in PublishTypes THEN NULL
                                   ELSE Received(type, id)]
      /\ out' = [out EXCEPT ![t] = IF type = "publish1" THEN Packet("puback", 0, 0) ELSE @]
      /\ Goto(t, CASE type = "publish0" -> AfterPoll(t) [] type = "publish1" -> "send_ack"
                   [] OTHER -> "handle")

\* They read the body: the one that belongs to what has been read, or any
\* bytes; or it does not come, or not all of it.
read_body(t) ==
  LET whole == toClient # <<>> /\ toClient[1].part = "body"
                 /\ toClient[1].p.type = pkt[t].type
  IN  /\ pc[t] = "body"
      /\ \/ /\ whole
            /\ toClient' = Tail(toClient)
            /\ Dispatch(t, toClient[1].p.id)
            /\ UNCHANGED connected
         \/ /\ ~whole
            /\ \E k \in DOMAIN toClient, id \in 0 .. IdMod - 1 :
                 toClient' \in Left(k) /\ Dispatch(t, id)
            /\ UNCHANGED connected
         \/ /\ toClient' \in IF ~open THEN {<<>>}
                             ELSE {toClient} \cup IF toClient = <<>> THEN {} ELSE Left(1)
            /\ Lose(t)
            /\ UNCHANGED out
      /\ UNCHANGED <<next_id, msg_list, msg_mtx, sem_send, req, complete, timeout,
                     retval, open, toBroker, histVars>>

\* Does packet p answer the request of u?
Answers(p, u) ==
  CASE p.type = "CONNACK" -> req[u].state = "CONNECT"
    [] p.type = "PINGRESP" -> req[u].state = "PINGREQ"
    [] p.type = "SUBACK" -> req[u].id = p.id /\ req[u].state = "SUBSCRIBE"
    [] p.type = "PUBACK" ->
         req[u].id = p.id /\ req[u].state = "PUBLISH" /\ req[u].kind = "publish1"
    [] p.type = "PUBREC" ->
         req[u].id = p.id /\ req[u].state = "PUBLISH" /\ req[u].kind = "publish2"
    [] p.type = "PUBCOMP" -> req[u].id = p.id /\ req[u].state = "PUBREC"

\* Mutant: handle_pubrec unlocks before it sends PUBREL.
PubrelOwner_none(t) == NULL

\* Who owns msg_mtx while handle_pubrec sends PUBREL.
PubrelOwner(t) == t

\* handle_connack, handle_pingresp, handle_suback, handle_puback,
\* handle_pubrec and handle_pubcomp: the first request on the list that the
\* packet answers.  handle_pubrec keeps msg_mtx and sends PUBREL.
handle(t) ==
  LET p == pkt[t]
      found == {i \in DOMAIN msg_list : Answers(p, msg_list[i])}
      u == msg_list[Min(found)]
  IN  /\ pc[t] = "handle"
      /\ msg_mtx = NULL
      /\ pkt' = [pkt EXCEPT ![t] = NULL]
      /\ \/ /\ found = {}
            /\ Goto(t, AfterPoll(t))
            /\ UNCHANGED <<req, complete, msg_mtx, out>>
         \/ /\ found # {} /\ p.type = "PUBREC"
            /\ req' = [req EXCEPT ![u].state = "PUBREC"]
            /\ msg_mtx' = PubrelOwner(t)
            /\ out' = [out EXCEPT ![t] = Packet("pubrel", req[u].id, req[u].serial)]
            /\ Goto(t, "send_rel")
            /\ UNCHANGED complete
         \/ /\ found # {} /\ p.type # "PUBREC"
            /\ \E status \in IF p.type \in {"CONNACK", "SUBACK"} THEN {"ok", "refused"}
                             ELSE {"ok"} :
                 req' = [req EXCEPT ![u].state = p.type, ![u].status = status]
            /\ complete' = [complete EXCEPT ![u] = @ + 1]
            /\ Goto(t, AfterPoll(t))
            /\ UNCHANGED <<msg_mtx, out>>
      /\ UNCHANGED <<next_id, connected, msg_list, sem_send, timeout, retval,
                     netVars, histVars>>

-----------------------------------------------------------------------------
(***************************************************************************)
(* The broker and the connection.                                          *)
(***************************************************************************)
Answer == [connect |-> "CONNACK", subscribe |-> "SUBACK", publish1 |-> "PUBACK",
           publish2 |-> "PUBREC", pubrel |-> "PUBCOMP", ping |-> "PINGRESP"]

\* A packet that is on the wire as a whole, or in parts that follow.
Parts == IF toBroker = <<>> THEN 0
         ELSE IF toBroker[1].part = "all" THEN 1
         ELSE IF toBroker[1].part = "first" /\ Len(toBroker) > 1 THEN 2 ELSE 0

\* The parts in which the client reads a packet; PINGRESP has no body.
PartsOf(p) ==
  LET part(name) == [part |-> name, p |-> p]
  IN  <<part("control"), part("length")>>
        \o IF p.type = "PINGRESP" THEN <<>> ELSE <<part("body")>>

\* The broker takes a packet and answers it or does not.  After a packet that
\* was cut it understands nothing.
Broker ==
  LET p == toBroker[1].p
  IN  /\ open
      /\ Parts > 0
      /\ toBroker' = SubSeq(toBroker, Parts + 1, Len(toBroker))
      /\ \/ UNCHANGED toClient
         \/ /\ p.type \in DOMAIN Answer
            /\ toClient' = toClient \o PartsOf(Received(Answer[p.type], p.id))
      /\ UNCHANGED <<clientVars, threadVars, open, histVars>>

\* The broker publishes a message, with qos 0 or 1.
BrokerPublish ==
  /\ open
  /\ serial < MaxReq
  /\ serial' = serial + 1
  /\ \E type \in PublishTypes : toClient' = toClient \o PartsOf(Received(type, 0))
  /\ UNCHANGED <<clientVars, threadVars, open, toBroker, released>>

Close ==
  /\ open
  /\ open' = FALSE
  /\ toBroker' = <<>>
  /\ UNCHANGED <<clientVars, threadVars, toClient, histVars>>

-----------------------------------------------------------------------------
Step(t) ==
  \/ append(t) \/ send_wait(t) \/ net_write(t) \/ send_failed(t)
  \/ send_done(t) \/ wait(t) \/ remove(t) \/ poll_control(t)
  \/ poll_nothing(t) \/ poll_closed(t) \/ read_length(t) \/ read_body(t)
  \/ handle(t)

Next ==
  \/ \E t \in Threads : Step(t)
  \/ \E t \in Callers, kind \in Kinds : call(t, kind)
  \/ other_call \/ Broker \/ BrokerPublish \/ Close

Spec == Init /\ [][Next]_vars

-----------------------------------------------------------------------------
(***************************************************************************)
(* Properties.                                                             *)
(***************************************************************************)
Labels == {"idle", "append", "send", "write", "fail", "done", "poll", "length",
           "body", "handle",
           "send_rel", "write_rel", "send_ack", "write_ack", "wait", "remove"}

\* Every variable has its type; nothing is completed twice.
TypeOK ==
  /\ next_id \in 0 .. IdMod - 1
  /\ connected \in BOOLEAN /\ open \in BOOLEAN
  /\ msg_list \in Seq(Callers)
  /\ {msg_mtx, sem_send} \subseteq Threads \cup {NULL}
  /\ pc \in [Threads -> Labels]
  /\ complete \in [Threads -> 0 .. 1]
  /\ timeout \in [Threads -> 0 .. Timeouts]
  /\ retval \in [Threads -> {"none", "ok", "conn", "timeout", "refused"}]

\* A request is on the list once, and only while the function that owns it
\* waits for the answer: no handler finds a request on a stack frame that is
\* gone.
NoDanglingRequest ==
  \A t \in Callers :
    LET places == {i \in DOMAIN msg_list : msg_list[i] = t}
        waits == Answerable(req[t].kind) /\ pc[t] \notin {"idle", "append"}
    IN  Cardinality(places) = IF waits THEN 1 ELSE 0

\* The outcome of a request fits what has been done for it, whatever the threads
\* that poll have read: an answer that comes late, the answer to another request
\* with the same identifier, or the bytes of a torn packet.  PUBCOMP completes
\* a message only when the attempt to send its PUBREL has ended, because
\* handle_pubrec holds msg_mtx while it sends; and an answer is not lost when
\* another thread handles it between the last timeout and the removal from the
\* list.
ResultHonest ==
  \A t \in Callers :
    /\ req[t].state = "PUBCOMP" => req[t].serial \in released
    /\ pc[t] = "idle" /\ retval[t] = "timeout" => req[t].state # Done[req[t].kind]

\* Packets of several threads are not mixed on the wire, although they are
\* written in parts: what follows the first part of a packet is its rest, unless
\* net->write failed and the packet stays cut.
WireWhole ==
  \A i \in DOMAIN toBroker :
    /\ toBroker[i].part = "first" /\ i < Len(toBroker) =>
         toBroker[i + 1] = [p |-> toBroker[i].p, part |-> "rest"]
    /\ toBroker[i].part = "rest" =>
         i > 1 /\ toBroker[i - 1] = [p |-> toBroker[i].p, part |-> "first"]

\* With the types: the locks are given back on every path and never waited for
\* in a circle.  A thread that holds the permit to send waits for no lock, and one that
\* holds msg_mtx, which handle_pubrec does while it sends, waits for nothing
\* but that permit.
LockOrder ==
  /\ TypeOK
  /\ \A t \in Threads :
       /\ sem_send = t <=> pc[t] \in {"write", "write_rel", "write_ack"}
       /\ msg_mtx = t <=> pc[t] \in {"send_rel", "write_rel"}
=============================================================================
