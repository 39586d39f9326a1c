---------------------------- MODULE PacketReceiver ----------------------------
(***************************************************************************)
(* protocol/direct/packet_receiver_linux.go: one epoll thread fetches the  *)
(* datagrams of every registered UDP socket and queues them for a delivery *)
(* goroutine per registration.  The model follows one descriptor number:   *)
(* successive sockets get it, each may be registered several times, and    *)
(* stop, Close, the epoll thread and the delivery goroutines interleave.   *)
(* A datagram is <<socket, number>>; its storage is the raw buffer or, for *)
(* a mapping that decrypts into a second buffer, the decoded one.          *)
(***************************************************************************)
EXTENDS Integers, Sequences

CONSTANTS MaxSockets, MaxEntries, MaxDatagrams, BatchSize, MaxFailures,
          Errors,   \* datagram numbers that are socket errors
          Kinds     \* handlers: "plain", "copy" (shadowsocks), "inplace" (the others)

VARIABLES conn, open, sock, arrived, receiverStop, closing, ent, entry, next,
          loop, cur, pending, failures, fetched, released, owned

vars == <<conn, open, sock, arrived, receiverStop, closing, ent, entry, next,
          loop, cur, pending, failures, fetched, released, owned>>

Entries == 1 .. MaxEntries
socket == <<conn, open, sock, arrived, closing>>
thread == <<loop, cur, pending, failures, fetched>>
storage == <<released, owned>>

Unused == [conn |-> 0, kind |-> "plain", active |-> FALSE, queued |-> <<>>, signal |-> FALSE,
           stopped |-> FALSE, pc |-> "off", batch |-> <<>>, stop |-> "none", seen |-> 0]

Init ==
  /\ conn = 0 /\ open = FALSE /\ sock = <<>> /\ arrived = 0 /\ receiverStop = 0 /\ closing = "no"
  /\ ent = 0 /\ entry = [e \in Entries |-> Unused] /\ next = 1
  /\ loop = "off" /\ cur = 0 /\ pending = <<>> /\ failures = 0
  /\ fetched = {} /\ released = {} /\ owned = {}

Raw(p) == <<p, "raw">>
Decoded(p) == <<p, "decoded">>
RawOf(s) == {Raw(s[i]) : i \in DOMAIN s}
IsError(p) == p[2] \in Errors

\* The kernel gives the descriptor number to the next socket.
Open ==
  /\ ~open /\ conn < MaxSockets
  /\ open' = TRUE /\ conn' = conn + 1 /\ closing' = "no" /\ receiverStop' = 0
  /\ UNCHANGED <<sock, arrived, ent, entry, next, thread, storage>>

Arrive ==
  /\ open /\ arrived < MaxDatagrams
  /\ arrived' = arrived + 1 /\ sock' = Append(sock, <<conn, arrived + 1>>)
  /\ UNCHANGED <<conn, open, closing, receiverStop, ent, entry, next, thread, storage>>

\* RegisterPacketReceiver, register, ensureStartedLocked and startDelivery.
\* added is the outcome of EPOLL_CTL_ADD: on failure the delivery goroutine
\* stays, with nothing to deliver.
Register(kind, added) ==
  /\ open /\ closing = "no" /\ receiverStop = 0 /\ ent = 0 /\ next <= MaxEntries
  /\ next' = next + 1
  /\ entry' = [entry EXCEPT ![next] = [Unused EXCEPT !.conn = conn, !.kind = kind, !.active = added,
                                       !.pc = "look", !.stop = IF added THEN "idle" ELSE "none"]]
  /\ ent' = IF added THEN next ELSE 0
  /\ receiverStop' = IF added THEN next ELSE 0
  /\ loop' = IF loop = "off" THEN "wait" ELSE loop
  /\ UNCHANGED <<socket, cur, pending, failures, fetched, storage>>

(***************************************************************************)
(* Stopping: once per entry, by its registrant or by Close.                *)
(***************************************************************************)
Stop(e) ==
  /\ entry[e].stop = "idle"
  /\ entry' = [entry EXCEPT ![e].active = FALSE, ![e].stop = "delivery"]
  /\ UNCHANGED <<socket, receiverStop, ent, next, thread, storage>>

Stopped(r) == [r EXCEPT !.active = FALSE, !.stopped = TRUE, !.queued = <<>>, !.signal = TRUE]

StopDelivery(e) ==
  /\ entry[e].stop = "delivery"
  /\ entry' = [entry EXCEPT ![e] = [Stopped(entry[e]) EXCEPT !.stop = "unregister"]]
  /\ released' = released \union RawOf(entry[e].queued)
  /\ UNCHANGED <<socket, receiverStop, ent, next, thread, owned>>

\* unregister waits for the write lock while a fetch holds the read lock.
Unregister(e) ==
  /\ entry[e].stop = "unregister" /\ loop \notin {"check", "recv"}
  /\ ent' = IF ent = e THEN 0 ELSE ent
  /\ entry' = [entry EXCEPT ![e].stop = "generation"]
  /\ UNCHANGED <<socket, receiverStop, next, thread, storage>>

\* receiverGeneration is the number of the socket's last registration.
StopEnds(e) ==
  /\ entry[e].stop = "generation"
  /\ receiverStop' = IF entry[e].conn = conn /\ e = next - 1 THEN 0 ELSE receiverStop
  /\ entry' = [entry EXCEPT ![e].stop = "done"]
  /\ UNCHANGED <<socket, ent, next, thread, storage>>

CloseBegins ==
  /\ open /\ closing = "no"
  /\ closing' = IF receiverStop = 0 THEN "close" ELSE "stop"
  /\ receiverStop' = 0
  /\ entry' = IF receiverStop # 0 /\ entry[receiverStop].stop = "idle"
              THEN [entry EXCEPT ![receiverStop].active = FALSE, ![receiverStop].stop = "delivery"]
              ELSE entry
  /\ UNCHANGED <<conn, open, sock, arrived, ent, next, thread, storage>>

\* Close returns from stop, its own or the one it waits for, and closes the fd.
CloseEnds ==
  /\ \/ closing = "close"
     \/ closing = "stop" /\ \A e \in Entries : entry[e].conn = conn => entry[e].stop \in {"none", "done"}
  /\ closing' = "done" /\ open' = FALSE /\ sock' = <<>>
  /\ UNCHANGED <<conn, arrived, receiverStop, ent, entry, next, thread, storage>>

(***************************************************************************)
(* The epoll thread.                                                       *)
(***************************************************************************)
shared == <<socket, receiverStop, ent, next>>

Event ==
  /\ loop = "wait" /\ ent # 0 /\ sock # <<>> /\ loop' = "event"
  /\ UNCHANGED <<shared, entry, cur, pending, failures, fetched, storage>>

Look ==
  /\ loop = "event" /\ cur' = ent /\ loop' = IF ent = 0 THEN "wait" ELSE "fetch"
  /\ UNCHANGED <<shared, entry, pending, failures, fetched, storage>>

FetchBegins ==
  /\ loop = "fetch" /\ loop' = "check" /\ pending' = <<>>
  /\ UNCHANGED <<shared, entry, cur, failures, fetched, storage>>

FetchCheck ==
  /\ loop = "check"
  /\ loop' = IF entry[cur].active /\ Len(pending) < BatchSize THEN "recv" ELSE "enqueue"
  /\ UNCHANGED <<shared, entry, cur, pending, failures, fetched, storage>>

\* recvfrom reads whatever socket has the descriptor number now.
Recv ==
  /\ loop = "recv"
  /\ IF sock = <<>>
     THEN loop' = "enqueue" /\ UNCHANGED <<sock, pending, fetched>>
     ELSE /\ pending' = Append(pending, Head(sock)) /\ sock' = Tail(sock)
          /\ fetched' = fetched \union {Head(sock)}
          /\ loop' = IF IsError(Head(sock)) THEN "enqueue" ELSE "check"
  /\ UNCHANGED <<conn, open, arrived, closing, receiverStop, ent, next, entry, cur, failures, storage>>


\* enqueuePending: a stopped entry's datagrams are released, not queued.
Enqueue ==
  /\ loop = "enqueue" /\ pending' = <<>>
  /\ IF pending = <<>> \/ entry[cur].stopped
     THEN loop' = "wait" /\ released' = released \union RawOf(pending) /\ UNCHANGED entry
     ELSE /\ entry' = [entry EXCEPT ![cur].queued = @ \o pending]
          /\ loop' = "signal" /\ UNCHANGED released
  /\ UNCHANGED <<shared, cur, failures, fetched, owned>>

Signal ==
  /\ loop = "signal" /\ loop' = "wait"
  /\ entry' = [entry EXCEPT ![cur].signal = TRUE]
  /\ UNCHANGED <<shared, cur, pending, failures, fetched, storage>>

\* fail: the thread ends, its entry is stopped and told; a later
\* registration starts a new thread.
Fail ==
  /\ loop = "wait" /\ failures < MaxFailures
  /\ failures' = failures + 1 /\ loop' = "off" /\ ent' = 0
  /\ IF ent # 0 /\ entry[ent].active
     THEN /\ entry' = [entry EXCEPT ![ent] = Stopped(entry[ent])]
          /\ released' = released \union RawOf(entry[ent].queued)
     ELSE UNCHANGED <<entry, released>>
  /\ UNCHANGED <<socket, receiverStop, next, cur, pending, fetched, owned>>

(***************************************************************************)
(* The delivery goroutine of an entry.                                     *)
(***************************************************************************)
DeliverLook(e) ==
  /\ entry[e].pc = "look"
  /\ entry' = [entry EXCEPT ![e].batch = entry[e].queued, ![e].queued = <<>>,
                            ![e].pc = IF entry[e].queued # <<>> THEN "deliver"
                                      ELSE IF entry[e].stopped THEN "gone" ELSE "wait"]
  /\ UNCHANGED <<shared, thread, storage>>

DeliverWakes(e) ==
  /\ entry[e].pc = "wait" /\ entry[e].signal
  /\ entry' = [entry EXCEPT ![e].signal = FALSE, ![e].pc = "look"]
  /\ UNCHANGED <<shared, thread, storage>>

DeliverCheck(e) ==
  /\ entry[e].pc = "deliver"
  /\ LET b == entry[e].batch IN
     IF b = <<>>
     THEN entry' = [entry EXCEPT ![e].pc = "look"] /\ UNCHANGED released
     ELSE IF entry[e].active
     THEN entry' = [entry EXCEPT ![e].pc = "call"] /\ UNCHANGED released
     ELSE entry' = [entry EXCEPT ![e].batch = Tail(b)] /\ released' = released \union {Raw(Head(b))}
  /\ UNCHANGED <<shared, thread, owned>>

\* RegisterMappedPacketReceiver returns the input unless it is the result.
MapperReleases(p, given) == IF given = Raw(p) THEN {} ELSE {Raw(p)}

\* mapReceivedPacket of shadowsocks: a second buffer when decoding succeeds.
Mapped(kind, p) == IF kind = "copy" /\ ~IsError(p) THEN {Raw(p), Decoded(p)} ELSE {Raw(p)}

\* deliverToHandler: the handler takes the packet, refuses it or panics; a
\* panic loses a decoded buffer, the raw one goes back to the pool.
Call(e, outcome) ==
  /\ entry[e].pc = "call"
  /\ LET p == Head(entry[e].batch) IN
     \E given \in Mapped(entry[e].kind, p) :
       /\ owned' = owned \union (IF outcome = "take" THEN {given} ELSE {})
       /\ released' = released \union MapperReleases(p, given)
                      \union (CASE outcome = "take" -> {}
                                [] outcome = "refuse" -> {given}
                                [] outcome = "panic" -> {Raw(p)})
       /\ entry' = [entry EXCEPT ![e].pc = "deliver", ![e].batch = Tail(@), ![e].seen = p[2]]
  /\ UNCHANGED <<shared, thread>>

Next ==
  \/ Open \/ Arrive \/ CloseBegins \/ CloseEnds
  \/ Event \/ Look \/ FetchBegins \/ FetchCheck \/ Recv \/ Enqueue \/ Signal \/ Fail
  \/ \E kind \in Kinds, added \in BOOLEAN : Register(kind, added)
  \/ \E e \in Entries :
       \/ Stop(e) \/ StopDelivery(e) \/ Unregister(e) \/ StopEnds(e)
       \/ DeliverLook(e) \/ DeliverWakes(e) \/ DeliverCheck(e)
       \/ \E outcome \in {"take", "refuse", "panic"} : Call(e, outcome)

Spec == Init /\ [][Next]_vars

-----------------------------------------------------------------------------
Waiting(e) == entry[e].batch \o entry[e].queued \o (IF cur = e THEN pending ELSE <<>>)

\* Storage a handler owns is never in the pool, and every datagram taken from
\* a socket is on its way to a handler, owned, or back in the pool.
StorageIsSafe ==
  /\ owned \intersect released = {}
  /\ \A p \in fetched :
       \/ \E e \in Entries : \E i \in DOMAIN Waiting(e) : Waiting(e)[i] = p
       \/ Raw(p) \in owned \union released

\* A delivery goroutine that ended left nothing behind, and one that waits
\* with something to do has a wakeup pending or coming.
NoDatagramStranded ==
  \A e \in Entries :
    /\ entry[e].pc = "gone" => entry[e].queued = <<>>
    /\ entry[e].pc = "wait" /\ (entry[e].queued # <<>> \/ entry[e].stopped)
         => entry[e].signal \/ (loop = "signal" /\ cur = e)

\* A registration only ever gets datagrams of its own socket, in the order
\* they arrived, whoever has the descriptor number by now.
OwnSocketInOrder ==
  \A e \in Entries :
    LET s == Waiting(e) IN
    \A i \in DOMAIN s :
      /\ s[i][1] = entry[e].conn
      /\ s[i][2] > entry[e].seen
      /\ \A j \in 1 .. i - 1 : s[j][2] < s[i][2]
=============================================================================
