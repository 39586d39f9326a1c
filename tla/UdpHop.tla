------------------------------- MODULE UdpHop -------------------------------
(***************************************************************************)
(* udpHopPacketConn (protocol/hysteria2/udphop): one packet connection     *)
(* over sockets that change at every hop.  A goroutine per socket receives *)
(* into a shared bounded queue, the hop loop dials the next socket without *)
(* holding connMutex, and the previous socket keeps receiving until the    *)
(* hop after next.                                                         *)
(*                                                                         *)
(* Sockets are numbered in the order they are dialled.  A datagram is the  *)
(* pair of its socket and its number there.  connMutex is held within one  *)
(* step, except that Close and hop find it taken by a write under way.     *)
(***************************************************************************)
EXTENDS Integers, Sequences, FiniteSetsExt

CONSTANTS Sockets,    \* number of sockets that can be dialled
          Arrivals,   \* datagrams that arrive at each socket
          Errors,     \* bound on the transient read errors
          QueueCap,   \* packetQueueSize
          PoolCap,    \* capacity of hopBufPool
          Batch,      \* recvBatchSize, or 0 where the socket has no file descriptor
          Buffers,    \* number of receive buffers
          Deadlines,  \* calls of SetReadDeadline with a deadline that passes
          None

\* A queued packet without a buffer carries a timeout error.
Timeout == [buf |-> None, from |-> 0, n |-> 0]

VARIABLES
  cur, prev,    \* currentConn and prevConn
  closed,       \* closed, and closeChan
  open,         \* sockets that are open
  hopper,       \* the hop loop: "wait", "dial", "dialed" or "ended"
  dialed,       \* the socket it dialled
  loop,         \* per socket: its receive loop
  slots,        \* per socket: the buffers its loop owns
  full,         \* per socket: the datagrams of the current batch not yet queued, in order
  sent,         \* per socket: datagrams that arrived
  late,         \* sockets whose read deadline has passed
  queue,        \* recvQueue: records of a buffer and a datagram, or Timeout
  pool,         \* hopBufPool
  reader,       \* "idle" or "wait", in ReadFrom
  writer,       \* "idle", or "write" with connMutex held for reading
  last,         \* history: per socket the last datagram handed to the caller
  errors, deadlines

vars == <<cur, prev, closed, open, hopper, dialed, loop, slots, full, sent, late, queue, pool, reader, writer,
          last, errors, deadlines>>

Socket == 1..Sockets
Buffer == 1..Buffers
Packets == [buf : Buffer, from : Socket, n : 1..Arrivals]

TypeOK ==
  /\ cur \in Socket /\ prev \in Socket \cup {None} /\ closed \in BOOLEAN /\ open \subseteq Socket
  /\ hopper \in {"wait", "dial", "dialed", "ended"} /\ dialed \in Socket \cup {None}
  /\ loop \in [Socket -> {"none", "read", "queue", "check", "backoff", "ended"}]
  /\ slots \in [Socket -> SUBSET Buffer] /\ sent \in [Socket -> 0..Arrivals] /\ late \subseteq Socket
  /\ last \in [Socket -> 0..Arrivals]
  /\ queue \in Seq(Packets \cup {Timeout}) /\ Len(queue) <= QueueCap /\ Cardinality(pool) <= PoolCap
  /\ reader \in {"idle", "wait"} /\ writer \in {"idle", "write"}

-----------------------------------------------------------------------------
(* The buffer pool: Get allocates when the pool is empty, Put drops the    *)
(* buffer when it is full.                                                 *)

Queued == {queue[i].buf : i \in {j \in 1..Len(queue) : queue[j] # Timeout}}
Held == UNION {slots[s] : s \in Socket}
Unused == Buffer \ (pool \cup Queued \cup Held)

\* What Get returns: which of the pooled buffers it is makes no difference.
Get == IF pool # {} THEN Min(pool) ELSE Min(Unused)
PutPool(p, bs) == IF Cardinality(p \cup bs) <= PoolCap THEN p \cup bs ELSE p

\* The number of buffers a receive loop owns: a slot per message of a batch, or one.
Width == IF Batch = 0 THEN 1 ELSE Batch

\* The buffers a receive loop starts with.
Initial(p, unused) ==
  IF Cardinality(p) >= Width THEN {b \in p : Cardinality({x \in p : x < b}) < Width}
  ELSE p \cup {b \in unused : Cardinality({x \in unused : x < b}) < Width - Cardinality(p)}
StartLoop(s) ==
  /\ slots' = [slots EXCEPT ![s] = Initial(pool, Unused)] /\ pool' = pool \ Initial(pool, Unused)
  /\ loop' = [loop EXCEPT ![s] = "read"]

Init ==
  /\ cur = 1 /\ prev = None /\ closed = FALSE /\ open = {1}
  /\ hopper = "wait" /\ dialed = None
  /\ slots = [s \in Socket |-> IF s = 1 THEN 1..Width ELSE {}] /\ pool = {}
  /\ loop = [s \in Socket |-> IF s = 1 THEN "read" ELSE "none"]
  /\ full = [s \in Socket |-> <<>>] /\ sent = [s \in Socket |-> 0] /\ last = sent /\ late = {}
  /\ queue = <<>> /\ reader = "idle" /\ writer = "idle" /\ errors = 0 /\ deadlines = 0

hopVars == <<cur, prev, closed, open, hopper, dialed>>
bufVars == <<slots, pool>>

-----------------------------------------------------------------------------
(* The receive loops.                                                      *)

Live(s) == ~closed /\ s \in {cur, prev}

\* ReadBatch or ReadFrom returns datagrams, at most one per buffer of the loop.
Receive(s) ==
  /\ loop[s] = "read" /\ s \in open /\ s \notin late
  /\ \E n \in 1..Width :
       /\ sent[s] + n <= Arrivals
       /\ full' = [full EXCEPT ![s] = [i \in 1..n |-> sent[s] + i]]
       /\ sent' = [sent EXCEPT ![s] = @ + n]
  /\ loop' = [loop EXCEPT ![s] = "queue"]
  /\ UNCHANGED <<hopVars, bufVars, late, queue, reader, writer, last, errors, deadlines>>

\* The next datagram is queued with its buffer, and the loop gets another one; when the
\* queue is full it is dropped and the buffer used again.
AfterQueue(s) == loop' = [loop EXCEPT ![s] = IF Len(full[s]) = 1 THEN "read" ELSE "queue"]
EnqueueKeeps(s) ==
  /\ loop[s] = "queue" /\ full' = [full EXCEPT ![s] = Tail(@)] /\ AfterQueue(s)
  /\ IF Len(queue) = QueueCap
     THEN UNCHANGED <<queue, bufVars>>
     ELSE queue' = Append(queue, [buf |-> Min(slots[s]), from |-> s, n |-> Head(full[s])]) /\ UNCHANGED bufVars
  /\ UNCHANGED <<hopVars, sent, late, reader, writer, last, errors, deadlines>>
Enqueue(s) ==
  /\ loop[s] = "queue" /\ full' = [full EXCEPT ![s] = Tail(@)] /\ AfterQueue(s)
  /\ IF Len(queue) = QueueCap
     THEN UNCHANGED <<queue, bufVars>>
     ELSE LET b == Min(slots[s]) new == Get IN
            /\ queue' = Append(queue, [buf |-> b, from |-> s, n |-> Head(full[s])])
            /\ slots' = [slots EXCEPT ![s] = (@ \ {b}) \cup {new}] /\ pool' = pool \ {new}
  /\ UNCHANGED <<hopVars, sent, late, reader, writer, last, errors, deadlines>>

\* The read fails: the socket was closed, its deadline has passed, or a transient error.
ReadFails(s) ==
  /\ loop[s] = "read"
  /\ IF s \in open /\ s \notin late THEN errors < Errors /\ errors' = errors + 1 ELSE UNCHANGED errors
  /\ loop' = [loop EXCEPT ![s] = "check"]
  /\ UNCHANGED <<hopVars, bufVars, full, sent, late, queue, reader, writer, last, deadlines>>

\* connStillLive decides between another try and the end of the loop, which gives its
\* buffers back and forwards a timeout if there is room for it.
Check(s) ==
  /\ loop[s] = "check"
  /\ IF Live(s)
     THEN loop' = [loop EXCEPT ![s] = "backoff"] /\ UNCHANGED <<bufVars, queue>>
     ELSE /\ loop' = [loop EXCEPT ![s] = "ended"]
          /\ slots' = [slots EXCEPT ![s] = {}] /\ pool' = PutPool(pool, slots[s])
          /\ queue' = IF s \in open /\ s \in late /\ Len(queue) < QueueCap THEN Append(queue, Timeout) ELSE queue
  /\ UNCHANGED <<hopVars, full, sent, late, reader, writer, last, errors, deadlines>>

Backoff(s) ==
  /\ loop[s] = "backoff" /\ loop' = [loop EXCEPT ![s] = "read"]
  /\ UNCHANGED <<hopVars, bufVars, full, sent, late, queue, reader, writer, last, errors, deadlines>>

-----------------------------------------------------------------------------
(* Hopping and closing.                                                    *)

\* The ticker fires; hop dials without the lock, or the dial fails.
HopDial ==
  /\ hopper = "wait" /\ ~closed /\ cur < Sockets /\ hopper' = "dial"
  /\ UNCHANGED <<cur, prev, closed, open, dialed, loop, bufVars, full, sent, late, queue, reader, writer, last,
                 errors, deadlines>>
HopDialed ==
  /\ hopper = "dial"
  /\ \/ hopper' = "dialed" /\ dialed' = cur + 1 /\ open' = open \cup {cur + 1}
     \/ hopper' = "wait" /\ UNCHANGED <<dialed, open>>
  /\ UNCHANGED <<cur, prev, closed, loop, bufVars, full, sent, late, queue, reader, writer, last, errors, deadlines>>

\* hop installs the socket, retires the one before the previous, and starts the receive
\* loop; a connection closed in the meantime gives the socket up.
HopSwap ==
  /\ hopper = "dialed" /\ writer = "idle" /\ hopper' = "wait" /\ dialed' = None
  /\ IF closed THEN open' = open \ {dialed} /\ UNCHANGED <<cur, prev, loop, bufVars>>
     ELSE open' = open \ {prev} /\ prev' = cur /\ cur' = dialed /\ StartLoop(dialed)
  /\ UNCHANGED <<closed, full, sent, late, queue, reader, writer, last, errors, deadlines>>

HopEnds ==
  /\ hopper = "wait" /\ closed /\ hopper' = "ended"
  /\ UNCHANGED <<cur, prev, closed, open, dialed, loop, bufVars, full, sent, late, queue, reader, writer, last,
                 errors, deadlines>>

\* Close takes the write lock, so it waits for a write under way.
Close ==
  /\ ~closed /\ writer = "idle" /\ closed' = TRUE /\ open' = open \ {prev, cur}
  /\ UNCHANGED <<cur, prev, hopper, dialed, loop, bufVars, full, sent, late, queue, reader, writer, last, errors,
                 deadlines>>

\* SetReadDeadline arms the two sockets of the moment, and the deadline passes.
SetReadDeadline ==
  /\ deadlines < Deadlines /\ deadlines' = deadlines + 1 /\ late' = late \cup ({cur, prev} \ {None})
  /\ UNCHANGED <<hopVars, loop, bufVars, full, sent, queue, reader, writer, last, errors>>

-----------------------------------------------------------------------------
(* The user of the connection.                                             *)

\* WriteTo holds the lock for reading while it writes to the current socket.
WriteStarts ==
  /\ writer = "idle" /\ ~closed /\ writer' = "write"
  /\ UNCHANGED <<hopVars, loop, bufVars, full, sent, late, queue, reader, last, errors, deadlines>>
WriteEnds ==
  /\ writer = "write" /\ writer' = "idle"
  /\ UNCHANGED <<hopVars, loop, bufVars, full, sent, late, queue, reader, last, errors, deadlines>>

ReadStarts ==
  /\ reader = "idle" /\ ~closed /\ reader' = "wait"
  /\ UNCHANGED <<hopVars, loop, bufVars, full, sent, late, queue, writer, last, errors, deadlines>>

\* ReadFrom and ReadBatch take what is first in the queue: a datagram is copied out and its
\* buffer recycled, a timeout is returned as error.
Take ==
  /\ reader = "wait" /\ queue # <<>> /\ queue' = Tail(queue) /\ reader' = "idle"
  /\ IF Head(queue) = Timeout THEN UNCHANGED <<pool, last>>
     ELSE /\ pool' = PutPool(pool, {Head(queue).buf})
          /\ last' = [last EXCEPT ![Head(queue).from] = Head(queue).n]
  /\ UNCHANGED <<hopVars, loop, slots, full, sent, late, writer, errors, deadlines>>

ReadClosed ==
  /\ reader = "wait" /\ closed /\ reader' = "idle"
  /\ UNCHANGED <<hopVars, loop, bufVars, full, sent, late, queue, writer, last, errors, deadlines>>

LoopStep(s) == Receive(s) \/ Enqueue(s) \/ ReadFails(s) \/ Check(s) \/ Backoff(s)
HopStep == HopDialed \/ HopSwap \/ HopEnds
ReadStep == Take \/ ReadClosed

Next ==
  \/ \E s \in Socket : LoopStep(s)
  \/ HopDial \/ HopStep \/ Close \/ SetReadDeadline
  \/ WriteStarts \/ WriteEnds \/ ReadStarts \/ ReadStep

Spec == Init /\ [][Next]_vars

-----------------------------------------------------------------------------
(* Properties.                                                             *)

\* The open sockets are the current one, the previous one and one being installed, and a
\* closed connection keeps at most the last, which hop then closes.
SocketsAreOwned ==
  /\ open \subseteq {cur, prev, dialed}
  /\ closed => open \subseteq {dialed}
  /\ ~closed => cur \in open /\ (prev # None => prev \in open)

\* A receive buffer is in the pool, with one receive loop or in one place of the queue, and
\* in one of them only.
BufferHasOneOwner ==
  /\ pool \cap (Queued \cup Held) = {} /\ Queued \cap Held = {}
  /\ \A s, t \in Socket : s # t => slots[s] \cap slots[t] = {}
  /\ \A i, j \in 1..Len(queue) : i # j /\ queue[i] # Timeout => queue[i].buf # queue[j].buf

\* While the connection is open both of its sockets have a receive loop, whatever errors
\* their reads report and however the hops interleave with them.
BothSocketsReceive == ~closed => loop[cur] # "ended" /\ (prev # None => loop[prev] # "ended")

\* Datagrams of one socket are delivered in the order they arrived, each at most once.
DeliveredInOrder ==
  \A i \in 1..Len(queue) : queue[i] # Timeout =>
    /\ queue[i].n > last[queue[i].from]
    /\ \A j \in 1..i-1 : queue[j].from = queue[i].from => queue[j].n < queue[i].n

\* After Close every goroutine ends, every socket is closed and the reader returns.
ClosedEnds ==
  closed ~> (hopper = "ended" /\ open = {} /\ reader = "idle" /\ \A s \in Socket : loop[s] \in {"none", "ended"})

=============================================================================
