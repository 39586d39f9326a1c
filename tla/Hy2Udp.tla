------------------------------- MODULE Hy2Udp -------------------------------
(***************************************************************************)
(* The data path of the Hysteria2 UDP session manager                      *)
(* (protocol/hysteria2/client/udp.go) for one session: the router that is  *)
(* the only receiver of the tunnel, the worker that owns the session, the  *)
(* session's receive channel with readers and registered receivers, its    *)
(* send buffer, and the ways to close session and manager.                 *)
(*                                                                         *)
(* A message is its arrival number and carries a pooled buffer; messages   *)
(* are not fragmented here (Hy2Defrag).  What the code does under          *)
(* receiverMu or receiveMu alone is one step.                              *)
(***************************************************************************)
EXTENDS Integers, Sequences, TLAPS

CONSTANTS
  Registrars,   \* goroutines that register a packet receiver
  Nobody,       \* no receiver, no holder, no message
  Worker,       \* the worker as holder of deliverMu
  Closers,      \* goroutines that close the session
  Owner, Router,\* goroutines that close the manager
  Messages,     \* bound: messages that arrive, 1..N
  QueueCap,     \* demuxWorkerQueueLen
  ChanCap       \* udpMessageChanSize

Msgs == 1..Messages
AllClosers == Closers \cup {Owner, Router}

\* Nobody is no message and no goroutine, and the worker registers no receiver.
Setting ==
  /\ Messages \in Nat /\ QueueCap \in Nat /\ ChanCap \in Nat
  /\ Nobody \notin Msgs /\ Nobody \notin Registrars /\ Nobody # Worker
  /\ Worker \notin Registrars

VARIABLES
  arrived,    \* messages taken from the tunnel so far
  dead,       \* the tunnel is dead
  done,       \* m.done is closed
  once,       \* closeOnce: "no", "run", "done"
  mx,         \* who holds m.mutex exclusively
  inMap,      \* the session is in m.m
  router,     \* routeDemux: "recv", "send", "close", "end"
  inRouter,   \* the message it holds
  queue,      \* the worker's queue
  worker,     \* demuxWorker and feed
  inWorker,   \* the message it holds
  deliverMu,  \* holder: the worker, a registrar or Nobody
  receiver,   \* the registered receiver
  reg,        \* registrars
  inReg,      \* the message each holds
  chan,       \* ReceiveCh
  closed,     \* udpConn.closed
  dClosed,    \* the defragger is closed
  chClosed,   \* ReceiveCh is closed
  reader,     \* ReadFrom: "idle", "block", "feed"
  inReader,
  closing,    \* closers: "no", "lock", "frag", "chan", "buf", "done"
  writer,     \* WriteTo: "idle", "writing" (writeMu held)
  sendBuf,    \* the session still owns SendBuf
  released,   \* messages whose buffer went back to the pool
  taken,      \* messages the application owns
  calls       \* history: messages in the order receivers were called

routeVars == <<arrived, dead, router, inRouter, queue>>
workVars  == <<worker, inWorker>>
regVars   == <<reg, inReg>>
readVars  == <<reader, inReader>>
sessVars  == <<inMap, chan, closed, dClosed, chClosed>>
lifeVars  == <<done, once, mx, closing>>
writeVars == <<writer, sendBuf>>
fateVars  == <<released, taken, calls>>
vars == <<routeVars, workVars, regVars, readVars, sessVars, lifeVars, writeVars, fateVars,
          deliverMu, receiver>>

(* The variables by group: a goroutine holds a message where it handles one. *)
RouteTyped ==
  /\ arrived \in 0..Messages
  /\ dead \in BOOLEAN
  /\ router \in {"recv", "send", "close", "end"}
  /\ inRouter \in Msgs \cup {Nobody} /\ (inRouter # Nobody <=> router = "send")
  /\ queue \in Seq(Msgs) /\ Len(queue) <= QueueCap
WorkTyped ==
  /\ worker \in {"idle", "lookup", "lock", "try", "feed", "call", "queue", "exit"}
  /\ inWorker \in Msgs \cup {Nobody} /\ (inWorker = Nobody <=> worker \in {"idle", "exit"})
RegTyped ==
  /\ reg \in [Registrars -> {"idle", "lock", "drain", "feed", "call", "on", "off"}]
  /\ inReg \in [Registrars -> Msgs \cup {Nobody}]
  /\ \A r \in Registrars : inReg[r] # Nobody <=> reg[r] \in {"feed", "call"}
ReadTyped ==
  /\ reader \in {"idle", "block", "feed"}
  /\ inReader \in Msgs \cup {Nobody} /\ (inReader # Nobody <=> reader = "feed")
SessTyped ==
  /\ inMap \in BOOLEAN /\ closed \in BOOLEAN /\ dClosed \in BOOLEAN /\ chClosed \in BOOLEAN
  /\ chan \in Seq(Msgs) /\ Len(chan) <= ChanCap
LifeTyped ==
  /\ done \in BOOLEAN
  /\ once \in {"no", "run", "done"}
  /\ mx \in AllClosers \cup {Nobody}
  /\ closing \in [AllClosers -> {"no", "lock", "frag", "chan", "buf", "done"}]
WriteTyped == writer \in {"idle", "writing"} /\ sendBuf \in BOOLEAN
FateTyped == released \subseteq Msgs /\ taken \subseteq Msgs /\ calls \in Seq(Msgs)
MuTyped == deliverMu \in Registrars \cup {Worker, Nobody} /\ receiver \in Registrars \cup {Nobody}

TypeOK ==
  /\ RouteTyped /\ WorkTyped /\ RegTyped /\ ReadTyped /\ SessTyped /\ LifeTyped /\ WriteTyped
  /\ FateTyped /\ MuTyped

Init ==
  /\ arrived = 0
  /\ dead = FALSE /\ done = FALSE /\ inMap = TRUE /\ closed = FALSE /\ dClosed = FALSE /\ chClosed = FALSE
  /\ sendBuf = TRUE
  /\ once = "no"
  /\ mx = Nobody
  /\ router = "recv"
  /\ inRouter = Nobody /\ inWorker = Nobody /\ inReader = Nobody
  /\ queue = <<>> /\ chan = <<>>
  /\ worker = "idle"
  /\ deliverMu = Nobody
  /\ receiver = Nobody
  /\ reg = [r \in Registrars |-> "idle"]
  /\ inReg = [r \in Registrars |-> Nobody]
  /\ reader = "idle"
  /\ closing = [g \in AllClosers |-> "no"]
  /\ writer = "idle"
  /\ released = {} /\ taken = {} /\ calls = <<>>

ToSet(s) == {s[i] : i \in 1..Len(s)}
Release(ms) == released' = released \cup ms /\ UNCHANGED <<taken, calls>>

-----------------------------------------------------------------------------
(* routeDemux                                                              *)

TunnelDies ==
  /\ ~dead
  /\ dead' = TRUE
  /\ UNCHANGED <<arrived, router, inRouter, queue, workVars, regVars, readVars, sessVars, lifeVars,
                 writeVars, fateVars, deliverMu, receiver>>

Receive ==
  /\ router = "recv"
  /\ \/ /\ arrived < Messages
        /\ arrived' = arrived + 1
        /\ inRouter' = arrived + 1
        /\ router' = "send"
     \/ /\ dead
        /\ router' = "close"
        /\ UNCHANGED <<arrived, inRouter>>
  /\ UNCHANGED <<dead, queue, workVars, regVars, readVars, sessVars, lifeVars, writeVars, fateVars,
                 deliverMu, receiver>>

\* Mutant of Dispatch: a send that is parked on a full queue misses done.
DispatchParked ==
  /\ router = "send"
  /\ inRouter' = Nobody
  /\ Len(queue) < QueueCap
  /\ queue' = Append(queue, inRouter)
  /\ router' = "recv"
  /\ UNCHANGED <<arrived, dead, workVars, regVars, readVars, sessVars, lifeVars, writeVars,
                 fateVars, deliverMu, receiver>>

\* The blocking dispatch, which m.done unblocks.
Dispatch ==
  /\ router = "send"
  /\ inRouter' = Nobody
  /\ \/ /\ Len(queue) < QueueCap
        /\ queue' = Append(queue, inRouter)
        /\ router' = "recv"
        /\ UNCHANGED fateVars
     \/ /\ done
        /\ Release({inRouter})
        /\ router' = "close"
        /\ UNCHANGED queue
  /\ UNCHANGED <<arrived, dead, workVars, regVars, readVars, sessVars, lifeVars, writeVars,
                 deliverMu, receiver>>

\* The deferred closeOnce.Do.
RouterCloses ==
  /\ router = "close"
  /\ \/ /\ closing[Router] = "no"
        /\ once = "no"
        /\ once' = "run"
        /\ closing' = [closing EXCEPT ![Router] = "lock"]
        /\ UNCHANGED router
     \/ /\ once = "done"
        /\ router' = "end"
        /\ UNCHANGED <<once, closing>>
  /\ UNCHANGED <<arrived, dead, inRouter, queue, workVars, regVars, readVars, sessVars, done, mx,
                 writeVars, fateVars, deliverMu, receiver>>

-----------------------------------------------------------------------------
(* demuxWorker and feed                                                    *)

WorkerTake ==
  /\ worker = "idle"
  /\ queue # <<>>
  /\ worker' = "lookup"
  /\ inWorker' = Head(queue)
  /\ queue' = Tail(queue)
  /\ UNCHANGED <<arrived, dead, router, inRouter, regVars, readVars, sessVars, lifeVars, writeVars,
                 fateVars, deliverMu, receiver>>

\* m.done: what is still queued goes back to the pool.
WorkerExit ==
  /\ worker = "idle"
  /\ done
  /\ worker' = "exit"
  /\ queue' = <<>>
  /\ Release(ToSet(queue))
  /\ UNCHANGED <<arrived, dead, router, inRouter, inWorker, regVars, readVars, sessVars, lifeVars,
                 writeVars, deliverMu, receiver>>

\* The worker is through with its message; UNCHANGED of the fate is the caller's.
WorkerFree ==
  /\ worker' = "idle"
  /\ inWorker' = Nobody

WorkerLookup ==
  /\ worker = "lookup"
  /\ mx = Nobody
  /\ IF inMap
     THEN worker' = "lock" /\ UNCHANGED <<inWorker, fateVars>>
     ELSE WorkerFree /\ Release({inWorker})
  /\ UNCHANGED <<routeVars, regVars, readVars, sessVars, lifeVars, writeVars, deliverMu, receiver>>

WorkerLock ==
  /\ worker = "lock"
  /\ deliverMu = Nobody
  /\ deliverMu' = Worker
  /\ worker' = "try"
  /\ UNCHANGED <<routeVars, inWorker, regVars, readVars, sessVars, lifeVars, writeVars, fateVars, receiver>>

\* deliverMessage reads the receiver.
WorkerTry ==
  /\ worker = "try"
  /\ worker' = IF receiver = Nobody THEN "queue" ELSE "feed"
  /\ UNCHANGED <<routeVars, inWorker, regVars, readVars, sessVars, lifeVars, writeVars, fateVars,
                 deliverMu, receiver>>

\* A closed defragger, or an address that does not parse, gives the buffer
\* back; otherwise the receiver is called with the packet.
WorkerFeed ==
  /\ worker = "feed"
  /\ \/ WorkerFree /\ deliverMu' = Nobody /\ Release({inWorker})
     \/ /\ ~dClosed
        /\ worker' = "call"
        /\ calls' = Append(calls, inWorker)
        /\ UNCHANGED <<inWorker, deliverMu, released, taken>>
  /\ UNCHANGED <<routeVars, regVars, readVars, sessVars, lifeVars, writeVars, receiver>>

\* The receiver accepts the packet and owns it, or declines.
WorkerCalled ==
  /\ worker = "call"
  /\ WorkerFree
  /\ deliverMu' = Nobody
  /\ \/ taken' = taken \cup {inWorker} /\ UNCHANGED released
     \/ released' = released \cup {inWorker} /\ UNCHANGED taken
  /\ UNCHANGED <<routeVars, regVars, readVars, sessVars, lifeVars, writeVars, calls, receiver>>

\* The session is looked up again under the read lock, then queueIfNoReceiver.
WorkerQueue ==
  /\ worker = "queue"
  /\ mx = Nobody
  /\ IF inMap /\ receiver # Nobody
     THEN worker' = "try" /\ UNCHANGED <<inWorker, deliverMu, chan, fateVars>>
     ELSE /\ WorkerFree
          /\ deliverMu' = Nobody
          /\ IF ~inMap \/ closed \/ Len(chan) = ChanCap
             THEN Release({inWorker}) /\ UNCHANGED chan
             ELSE chan' = Append(chan, inWorker) /\ UNCHANGED fateVars
  /\ UNCHANGED <<routeVars, regVars, readVars, inMap, closed, dClosed, chClosed, lifeVars, writeVars, receiver>>

-----------------------------------------------------------------------------
(* RegisterPacketReceiver                                                  *)

Register(r) ==
  /\ reg[r] = "idle"
  /\ reg' = [reg EXCEPT ![r] = "lock"]
  /\ UNCHANGED <<routeVars, workVars, inReg, readVars, sessVars, lifeVars, writeVars, fateVars,
                 deliverMu, receiver>>

\* Mutant of RegLock: deliverMu is not held across the drain.
RegLockUnserialized(r) ==
  /\ reg[r] = "lock"
  /\ receiver = Nobody
  /\ receiver' = r
  /\ reg' = [reg EXCEPT ![r] = "drain"]
  /\ UNCHANGED <<routeVars, workVars, inReg, readVars, sessVars, lifeVars, writeVars, fateVars,
                 deliverMu>>

\* One receiver at a time; deliverMu is kept across the drain.
RegLock(r) ==
  /\ reg[r] = "lock"
  /\ deliverMu = Nobody
  /\ IF receiver # Nobody
     THEN reg' = [reg EXCEPT ![r] = "off"] /\ UNCHANGED <<deliverMu, receiver>>
     ELSE /\ deliverMu' = r
          /\ receiver' = r
          /\ reg' = [reg EXCEPT ![r] = "drain"]
  /\ UNCHANGED <<routeVars, workVars, inReg, readVars, sessVars, lifeVars, writeVars, fateVars>>

\* One round of the drain: a message, the end of the channel, or nothing queued.
RegDrain(r) ==
  /\ reg[r] = "drain"
  /\ \/ /\ chan # <<>>
        /\ chan' = Tail(chan)
        /\ IF receiver = Nobody
           THEN Release({Head(chan)}) /\ UNCHANGED <<reg, inReg>>
           ELSE /\ reg' = [reg EXCEPT ![r] = "feed"]
                /\ inReg' = [inReg EXCEPT ![r] = Head(chan)]
                /\ UNCHANGED fateVars
        /\ UNCHANGED <<deliverMu, receiver>>
     \/ /\ chan = <<>>
        /\ receiver' = IF chClosed THEN Nobody ELSE receiver
        /\ reg' = [reg EXCEPT ![r] = IF chClosed THEN "off" ELSE "on"]
        /\ deliverMu' = Nobody
        /\ UNCHANGED <<chan, inReg, fateVars>>
  /\ UNCHANGED <<routeVars, workVars, readVars, inMap, closed, dClosed, chClosed, lifeVars, writeVars>>

RegFeed(r) ==
  /\ reg[r] = "feed"
  /\ \/ /\ reg' = [reg EXCEPT ![r] = "drain"]
        /\ inReg' = [inReg EXCEPT ![r] = Nobody]
        /\ Release({inReg[r]})
     \/ /\ ~dClosed
        /\ reg' = [reg EXCEPT ![r] = "call"]
        /\ calls' = Append(calls, inReg[r])
        /\ UNCHANGED <<inReg, released, taken>>
  /\ UNCHANGED <<routeVars, workVars, readVars, sessVars, lifeVars, writeVars, deliverMu, receiver>>

RegCalled(r) ==
  /\ reg[r] = "call"
  /\ reg' = [reg EXCEPT ![r] = "drain"]
  /\ inReg' = [inReg EXCEPT ![r] = Nobody]
  /\ \/ taken' = taken \cup {inReg[r]} /\ UNCHANGED released
     \/ released' = released \cup {inReg[r]} /\ UNCHANGED taken
  /\ UNCHANGED <<routeVars, workVars, readVars, sessVars, lifeVars, writeVars, calls, deliverMu, receiver>>

Unregister(r) ==
  /\ reg[r] = "on"
  /\ reg' = [reg EXCEPT ![r] = "off"]
  /\ receiver' = Nobody
  /\ UNCHANGED <<routeVars, workVars, inReg, readVars, sessVars, lifeVars, writeVars, fateVars, deliverMu>>

-----------------------------------------------------------------------------
(* ReadFrom and WriteTo                                                    *)

Read ==
  /\ reader = "idle"
  /\ reader' = "block"
  /\ UNCHANGED <<routeVars, workVars, regVars, inReader, sessVars, lifeVars, writeVars, fateVars,
                 deliverMu, receiver>>

ReadPop ==
  /\ reader = "block"
  /\ \/ /\ chan # <<>>
        /\ reader' = "feed"
        /\ inReader' = Head(chan)
        /\ chan' = Tail(chan)
     \/ /\ chan = <<>>
        /\ chClosed
        /\ reader' = "idle"
        /\ UNCHANGED <<inReader, chan>>
  /\ UNCHANGED <<routeVars, workVars, regVars, inMap, closed, dClosed, chClosed, lifeVars, writeVars, fateVars,
                 deliverMu, receiver>>

\* The defragger of a closed session gives the message back and ReadFrom goes
\* round; otherwise its bytes are copied out.
ReadFeed ==
  /\ reader = "feed"
  /\ inReader' = Nobody
  /\ reader' = IF dClosed THEN "block" ELSE "idle"
  /\ Release({inReader})
  /\ UNCHANGED <<routeVars, workVars, regVars, sessVars, lifeVars, writeVars, deliverMu, receiver>>

Write ==
  /\ writer = "idle"
  /\ ~closed
  /\ sendBuf
  /\ writer' = "writing"
  /\ UNCHANGED <<routeVars, workVars, regVars, readVars, sessVars, lifeVars, sendBuf, fateVars,
                 deliverMu, receiver>>

WriteEnds ==
  /\ writer = "writing"
  /\ writer' = "idle"
  /\ UNCHANGED <<routeVars, workVars, regVars, readVars, sessVars, lifeVars, sendBuf, fateVars,
                 deliverMu, receiver>>

-----------------------------------------------------------------------------
(* Closing                                                                 *)

\* udpConn.Close, or the manager's Close through closeOnce.
CloseCalled(g) ==
  /\ g # Router
  /\ closing[g] = "no"
  /\ IF g = Owner THEN once = "no" /\ once' = "run" ELSE UNCHANGED once
  /\ closing' = [closing EXCEPT ![g] = "lock"]
  /\ UNCHANGED <<routeVars, workVars, regVars, readVars, sessVars, done, mx, writeVars, fateVars,
                 deliverMu, receiver>>

\* closeLocked publishes the closure and drops the receiver; closeCleanup
\* closes done first.  A session closed before is left alone.
CloseMark(g) ==
  /\ closing[g] = "lock"
  /\ mx = Nobody
  /\ done' = (done \/ g \notin Closers)
  /\ IF closed
     THEN /\ closing' = [closing EXCEPT ![g] = "done"]
          /\ once' = IF g \in Closers THEN once ELSE "done"
          /\ UNCHANGED <<mx, closed, receiver>>
     ELSE /\ closing' = [closing EXCEPT ![g] = "frag"]
          /\ mx' = g
          /\ closed' = TRUE
          /\ receiver' = Nobody
          /\ UNCHANGED once
  /\ UNCHANGED <<routeVars, workVars, regVars, readVars, inMap, chan, dClosed, chClosed, writeVars,
                 fateVars, deliverMu>>

\* D.Close, under receiveMu.
CloseDefrag(g) ==
  /\ closing[g] = "frag"
  /\ closing' = [closing EXCEPT ![g] = "chan"]
  /\ dClosed' = TRUE
  /\ UNCHANGED <<routeVars, workVars, regVars, readVars, inMap, chan, closed, chClosed, done, once, mx,
                 writeVars, fateVars, deliverMu, receiver>>

\* ReceiveCh is closed and drained and the session leaves the map.
CloseChan(g) ==
  /\ closing[g] = "chan"
  /\ closing' = [closing EXCEPT ![g] = "buf"]
  /\ chClosed' = TRUE
  /\ chan' = <<>>
  /\ Release(ToSet(chan))
  /\ inMap' = FALSE
  /\ UNCHANGED <<routeVars, workVars, regVars, readVars, closed, dClosed, done, once, mx, writeVars,
                 deliverMu, receiver>>

\* SendBuf goes back under writeMu; then m.mutex is released.
CloseBuf(g) ==
  /\ closing[g] = "buf"
  /\ writer = "idle"
  /\ sendBuf' = FALSE
  /\ mx' = Nobody
  /\ closing' = [closing EXCEPT ![g] = "done"]
  /\ once' = IF g \in Closers THEN once ELSE "done"
  /\ UNCHANGED <<routeVars, workVars, regVars, readVars, sessVars, done, writer, fateVars,
                 deliverMu, receiver>>

-----------------------------------------------------------------------------
RouterStep == Receive \/ Dispatch \/ RouterCloses
WorkerStep == \/ WorkerTake \/ WorkerExit \/ WorkerLookup \/ WorkerLock \/ WorkerTry
              \/ WorkerFeed \/ WorkerCalled \/ WorkerQueue
RegStep(r) == RegLock(r) \/ RegDrain(r) \/ RegFeed(r) \/ RegCalled(r)
ReadStep == ReadPop \/ ReadFeed
CloseStep(g) == CloseMark(g) \/ CloseDefrag(g) \/ CloseChan(g) \/ CloseBuf(g)

Next ==
  \/ TunnelDies \/ RouterStep \/ WorkerStep
  \/ \E r \in Registrars : Register(r) \/ RegStep(r) \/ Unregister(r)
  \/ Read \/ ReadStep \/ Write \/ WriteEnds
  \/ \E g \in AllClosers : CloseCalled(g) \/ CloseStep(g)

Spec == Init /\ [][Next]_vars

-----------------------------------------------------------------------------
(* Who answers for the buffer of message m: the tunnel until the router    *)
(* takes it, a goroutine that handles it, a queue, the pool or the         *)
(* application.                                                            *)
Places == {"tunnel", "router", "queue", "worker", "chan", "registrar", "reader", "released", "taken"}
\* Place p has message m.
Owns(p, m) ==
  \/ p = "tunnel" /\ m > arrived
  \/ p = "router" /\ m = inRouter
  \/ p = "queue" /\ m \in ToSet(queue)
  \/ p = "worker" /\ m = inWorker
  \/ p = "chan" /\ m \in ToSet(chan)
  \/ p = "registrar" /\ \E r \in Registrars : m = inReg[r]
  \/ p = "reader" /\ m = inReader
  \/ p = "released" /\ m \in released
  \/ p = "taken" /\ m \in taken

\* Every message is at one place.
OneOwner == \A m \in Msgs : \E p \in Places : \A q \in Places : Owns(q, m) <=> q = p

\* Neither queue has a message twice, and no two registrars have the same.
HeldOnce ==
  /\ \A i, j \in 1..Len(queue) : queue[i] = queue[j] => i = j
  /\ \A i, j \in 1..Len(chan) : chan[i] = chan[j] => i = j
  /\ \A r, s \in Registrars : inReg[r] = inReg[s] => r = s \/ inReg[r] = Nobody

(* Every pooled buffer that came from the tunnel has exactly one owner at  *)
(* all times, whatever closes, registers or reads meanwhile: none is       *)
(* dropped without being released and none is released and still held      *)
(* (releaseUDPMessage in feed, closeLocked, demuxWorker, ReadFrom).        *)
BufferHasOneOwner == OneOwner /\ HeldOnce

\* The messages of s are in the order of their arrival.
Sorted(s) == \A i, j \in 1..Len(s) : i < j => s[i] < s[j]

(* Receivers are called in arrival order, the messages queued before a     *)
(* receiver was registered included (deliverMu across swap and drain).     *)
ReceiverOrder == Sorted(calls)

(* Nothing is sent on ReceiveCh once it is closed, which would panic (the  *)
(* recheck of the session under the read lock in feed).                    *)
NoSendOnClosed == chClosed => chan = <<>>

(* SendBuf is not back in the pool while a write serializes into it        *)
(* (closeLocked takes writeMu).                                            *)
WriteOwnsBuffer == writer = "writing" => sendBuf

(* The buffer of a message has one owner and so has SendBuf while a write  *)
(* is under way, receivers are called in the order of arrival, and nothing *)
(* is sent on a closed ReceiveCh (the data path of udp.go as a whole).     *)
MessagesInOrder == TypeOK /\ BufferHasOneOwner /\ WriteOwnsBuffer /\ ReceiverOrder /\ NoSendOnClosed

(* Once the manager is closed and the tunnel dead, router and worker end:  *)
(* a dispatch parked on the full queue of a worker that is gone is         *)
(* unblocked by m.done.                                                    *)
ManagerEnds == (done /\ dead) ~> (router = "end" /\ worker = "exit")

(* A ReadFrom blocked on a session that closes returns.                    *)
ReaderReturns == (closed /\ reader = "block") ~> reader = "idle"

-----------------------------------------------------------------------------
(* The inductive invariant.  A message on its way to a receiver is at one  *)
(* of seven stages, and what is at an earlier stage arrived later.         *)

\* Message m is at stage k.
At(k, m) ==
  \/ k = 1 /\ m \in ToSet(calls)
  \/ k = 2 /\ \E r \in Registrars : reg[r] = "feed" /\ m = inReg[r]
  \/ k = 3 /\ m \in ToSet(chan)
  \/ k = 4 /\ worker # "call" /\ m = inWorker
  \/ k = 5 /\ m \in ToSet(queue)
  \/ k = 6 /\ m = inRouter
  \/ k = 7 /\ m > arrived

\* What is further on arrived before.
InOrder ==
  \A k, l \in 1..7 : k < l => \A a, b \in Msgs : At(k, a) /\ At(l, b) => a < b

\* deliverMu is held from the lookup of the receiver to the end of the delivery, and
\* across the drain of a registration.
DeliverMuHeld ==
  /\ worker \in {"try", "feed", "call", "queue"} <=> deliverMu = Worker
  /\ \A r \in Registrars : reg[r] \in {"drain", "feed", "call"} <=> deliverMu = r

\* A receiver that is called directly has been given what was queued before.
DrainedFirst ==
  /\ receiver # Nobody /\ deliverMu \notin Registrars => chan = <<>>
  /\ worker = "feed" => chan = <<>>

\* A session is marked closed before ReceiveCh is closed.
ClosedFirst ==
  /\ chClosed => closed
  /\ \A g \in AllClosers : closing[g] \in {"frag", "chan", "buf"} => closed

\* Owners, stages and queues, with the locks and marks that keep them.
UdpInv ==
  /\ TypeOK /\ OneOwner /\ InOrder
  /\ Sorted(queue) /\ Sorted(chan) /\ Sorted(calls)
  /\ DeliverMuHeld /\ DrainedFirst /\ ClosedFirst
  /\ NoSendOnClosed /\ WriteOwnsBuffer
-----------------------------------------------------------------------------
(* Sequences of messages.                                                  *)

\* The empty queue.
LEMMA EmptySeq == <<>> \in Seq(Msgs) /\ Len(<<>>) = 0 /\ ToSet(<<>>) = {} /\ Sorted(<<>>)
BY DEF ToSet, Sorted

\* A message at the end of a sequence whose messages arrived before it.
LEMMA AppendSeq ==
  ASSUME NEW s \in Seq(Msgs), NEW x \in Msgs
  PROVE  /\ Append(s, x) \in Seq(Msgs) /\ Len(Append(s, x)) = Len(s) + 1
         /\ \A y : y \in ToSet(Append(s, x)) <=> y \in ToSet(s) \/ y = x
         /\ Sorted(s) /\ (\A y \in ToSet(s) : y < x) => Sorted(Append(s, x))
<1> DEFINE t == Append(s, x)
<1>1. /\ t \in Seq(Msgs) /\ Len(t) = Len(s) + 1 /\ Len(s) \in Nat
      /\ \A i \in 1..Len(s) : t[i] = s[i]
      /\ t[Len(s) + 1] = x
  OBVIOUS
<1> HIDE DEF t
<1>2. ASSUME NEW y
      PROVE  y \in ToSet(t) <=> y \in ToSet(s) \/ y = x
  <2>1. ASSUME y \in ToSet(t) PROVE y \in ToSet(s) \/ y = x
    <3>1. PICK i \in 1..Len(t) : y = t[i]
      BY <2>1, Zenon DEF ToSet
    <3>2. i \in 1..Len(s) \/ i = Len(s) + 1
      BY <1>1
    <3> QED
      BY <1>1, <3>1, <3>2, Zenon DEF ToSet
  <2>2. ASSUME y \in ToSet(s) PROVE y \in ToSet(t)
    <3>1. PICK i \in 1..Len(s) : y = s[i]
      BY <2>2, Zenon DEF ToSet
    <3>2. i \in 1..Len(t) /\ t[i] = y
      BY <1>1, <3>1
    <3> QED
      BY <3>2, Zenon DEF ToSet
  <2>3. x \in ToSet(t)
    <3>1. Len(s) + 1 \in 1..Len(t)
      BY <1>1
    <3> QED
      BY <1>1, <3>1, Zenon DEF ToSet
  <2> QED
    BY <2>1, <2>2, <2>3, Zenon
<1>3. ASSUME Sorted(s), \A y \in ToSet(s) : y < x
      PROVE  Sorted(t)
  <2> SUFFICES ASSUME NEW i \in 1..Len(t), NEW j \in 1..Len(t), i < j
               PROVE  t[i] < t[j]
    BY Zenon DEF Sorted
  <2>1. i \in 1..Len(s) /\ s[i] \in ToSet(s)
    BY <1>1 DEF ToSet
  <2>2. CASE j = Len(s) + 1
    BY <1>1, <1>3, <2>1, <2>2, Zenon
  <2>3. CASE j \in 1..Len(s)
    BY <1>1, <1>3, <2>1, <2>3, Zenon DEF Sorted
  <2> QED
    BY <1>1, <2>2, <2>3
<1> QED
  BY <1>1, <1>2, <1>3, Zenon DEF t

\* The head of a sequence taken off.
LEMMA TailSeq ==
  ASSUME NEW s \in Seq(Msgs), s # <<>>
  PROVE  /\ Tail(s) \in Seq(Msgs) /\ Len(Tail(s)) = Len(s) - 1
         /\ Head(s) \in Msgs
         /\ \A y : y \in ToSet(s) <=> y = Head(s) \/ y \in ToSet(Tail(s))
         /\ Sorted(s) => Sorted(Tail(s)) /\ (\A y \in ToSet(Tail(s)) : Head(s) < y) /\ Head(s) \notin ToSet(Tail(s))
<1> DEFINE t == Tail(s)
           x == Head(s)
<1>1. /\ t \in Seq(Msgs) /\ Len(t) = Len(s) - 1 /\ Len(s) \in Nat /\ Len(s) > 0
      /\ \A i \in 1..Len(t) : t[i] = s[i + 1]
      /\ x = s[1] /\ x \in Msgs
  OBVIOUS
<1> HIDE DEF t, x
<1>2. ASSUME NEW y
      PROVE  y \in ToSet(s) <=> y = x \/ y \in ToSet(t)
  <2>1. ASSUME y \in ToSet(s) PROVE y = x \/ y \in ToSet(t)
    <3>1. PICK i \in 1..Len(s) : y = s[i]
      BY <2>1, Zenon DEF ToSet
    <3>2. i = 1 \/ (i - 1 \in 1..Len(t) /\ t[i - 1] = s[i])
      BY <1>1
    <3> QED
      BY <1>1, <3>1, <3>2, Zenon DEF ToSet
  <2>2. ASSUME y \in ToSet(t) PROVE y \in ToSet(s)
    <3>1. PICK i \in 1..Len(t) : y = t[i]
      BY <2>2, Zenon DEF ToSet
    <3>2. i + 1 \in 1..Len(s) /\ s[i + 1] = y
      BY <1>1, <3>1
    <3> QED
      BY <3>2, Zenon DEF ToSet
  <2>3. x \in ToSet(s)
    <3>1. 1 \in 1..Len(s)
      BY <1>1
    <3> QED
      BY <1>1, <3>1, Zenon DEF ToSet
  <2> QED
    BY <2>1, <2>2, <2>3, Zenon
<1>3. ASSUME Sorted(s)
      PROVE  Sorted(t) /\ (\A y \in ToSet(t) : x < y) /\ x \notin ToSet(t)
  <2>1. Sorted(t)
    <3> SUFFICES ASSUME NEW i \in 1..Len(t), NEW j \in 1..Len(t), i < j
                 PROVE  t[i] < t[j]
      BY Zenon DEF Sorted
    <3>1. i + 1 \in 1..Len(s) /\ j + 1 \in 1..Len(s) /\ i + 1 < j + 1
      BY <1>1
    <3> QED
      BY <1>1, <1>3, <3>1, Zenon DEF Sorted
  <2>2. ASSUME NEW y \in ToSet(t) PROVE x < y
    <3>1. PICK i \in 1..Len(t) : y = t[i]
      BY Zenon DEF ToSet
    <3>2. 1 \in 1..Len(s) /\ i + 1 \in 1..Len(s) /\ 1 < i + 1
      BY <1>1
    <3> QED
      BY <1>1, <1>3, <3>1, <3>2, Zenon DEF Sorted
  <2>3. x \notin ToSet(t)
    <3>1. x \in Int /\ ~(x < x)
      BY <1>1 DEF Msgs
    <3> QED
      BY <2>2, <3>1, Zenon
  <2> QED
    BY <2>1, <2>2, <2>3, Zenon
<1> QED
  BY <1>1, <1>2, <1>3, Zenon DEF t, x

\* A sorted sequence has no message twice.
LEMMA SortedOnce ==
  ASSUME NEW s \in Seq(Msgs), Sorted(s), NEW i \in 1..Len(s), NEW j \in 1..Len(s), s[i] = s[j]
  PROVE  i = j
<1>1. s[i] \in Msgs /\ i \in Int /\ j \in Int
  OBVIOUS
<1>2. s[i] \in Int
  BY <1>1 DEF Msgs
<1> QED
  BY <1>1, <1>2 DEF Sorted

-----------------------------------------------------------------------------
(* Messages that change hands.                                             *)

\* Each place, before a step.
LEMMA OwnsIs ==
  \A m : /\ Owns("tunnel", m) <=> m > arrived
         /\ Owns("router", m) <=> m = inRouter
         /\ Owns("queue", m) <=> m \in ToSet(queue)
         /\ Owns("worker", m) <=> m = inWorker
         /\ Owns("chan", m) <=> m \in ToSet(chan)
         /\ Owns("registrar", m) <=> \E r \in Registrars : m = inReg[r]
         /\ Owns("reader", m) <=> m = inReader
         /\ Owns("released", m) <=> m \in released
         /\ Owns("taken", m) <=> m \in taken
BY DEF Owns

\* Each place, after a step.
LEMMA OwnsNext ==
  \A m : /\ Owns("tunnel", m)' <=> m > arrived'
         /\ Owns("router", m)' <=> m = inRouter'
         /\ Owns("queue", m)' <=> m \in ToSet(queue')
         /\ Owns("worker", m)' <=> m = inWorker'
         /\ Owns("chan", m)' <=> m \in ToSet(chan')
         /\ Owns("registrar", m)' <=> \E r \in Registrars : m = inReg'[r]
         /\ Owns("reader", m)' <=> m = inReader'
         /\ Owns("released", m)' <=> m \in released'
         /\ Owns("taken", m)' <=> m \in taken'
BY DEF Owns

\* A place whose variable is unchanged has what it had.
LEMMA OwnsStay ==
  \A m : /\ UNCHANGED arrived => (Owns("tunnel", m)' <=> Owns("tunnel", m))
         /\ UNCHANGED inRouter => (Owns("router", m)' <=> Owns("router", m))
         /\ UNCHANGED queue => (Owns("queue", m)' <=> Owns("queue", m))
         /\ UNCHANGED inWorker => (Owns("worker", m)' <=> Owns("worker", m))
         /\ UNCHANGED chan => (Owns("chan", m)' <=> Owns("chan", m))
         /\ UNCHANGED inReg => (Owns("registrar", m)' <=> Owns("registrar", m))
         /\ UNCHANGED inReader => (Owns("reader", m)' <=> Owns("reader", m))
         /\ UNCHANGED released => (Owns("released", m)' <=> Owns("released", m))
         /\ UNCHANGED taken => (Owns("taken", m)' <=> Owns("taken", m))
BY OwnsIs, OwnsNext

\* Nothing but the places a and b changes.
Still(a, b) ==
  /\ "tunnel" \in {a, b} \/ UNCHANGED arrived
  /\ "router" \in {a, b} \/ UNCHANGED inRouter
  /\ "queue" \in {a, b} \/ UNCHANGED queue
  /\ "worker" \in {a, b} \/ UNCHANGED inWorker
  /\ "chan" \in {a, b} \/ UNCHANGED chan
  /\ "registrar" \in {a, b} \/ UNCHANGED inReg
  /\ "reader" \in {a, b} \/ UNCHANGED inReader
  /\ "released" \in {a, b} \/ UNCHANGED released
  /\ "taken" \in {a, b} \/ UNCHANGED taken

\* Where nothing but a and b changes, the other places have what they had.
LEMMA OthersStay ==
  ASSUME NEW a, NEW b, Still(a, b), NEW q \in Places \ {a, b}, NEW m
  PROVE  Owns(q, m)' <=> Owns(q, m)
<1>1. \/ q \in {"tunnel", "router", "queue"}
      \/ q \in {"worker", "chan", "registrar"}
      \/ q \in {"reader", "released", "taken"}
  BY Zenon DEF Places
<1>2. CASE q \in {"tunnel", "router", "queue"}
  BY <1>2, OwnsStay, Zenon DEF Still
<1>3. CASE q \in {"worker", "chan", "registrar"}
  BY <1>3, OwnsStay, Zenon DEF Still
<1>4. CASE q \in {"reader", "released", "taken"}
  BY <1>4, OwnsStay, Zenon DEF Still
<1> QED
  BY <1>1, <1>2, <1>3, <1>4, Zenon

\* The messages of S go from one owner to another and the rest stay.
Moves(a, b, S) ==
  /\ Still(a, b)
  /\ \A m \in S : Owns(a, m) /\ ~Owns(a, m)' /\ Owns(b, m)'
  /\ \A m \in Msgs \ S : (Owns(a, m)' <=> Owns(a, m)) /\ (Owns(b, m)' <=> Owns(b, m))

\* A move leaves every message with one owner.
LEMMA MoveKeepsOwner ==
  ASSUME OneOwner, NEW a \in Places, NEW b \in Places, a # b, NEW S, Moves(a, b, S)
  PROVE  OneOwner'
<1> SUFFICES ASSUME NEW m \in Msgs
             PROVE  \E p \in Places : \A q \in Places : Owns(q, m)' <=> q = p
  BY Zenon DEF OneOwner
<1>1. PICK p \in Places : \A q \in Places : Owns(q, m) <=> q = p
  BY Zenon DEF OneOwner
<1>2. CASE m \in S
  <2>1. p = a
    BY <1>1, <1>2, Zenon DEF Moves
  <2>2. ASSUME NEW q \in Places PROVE Owns(q, m)' <=> q = b
    BY <1>1, <1>2, <2>1, OthersStay, Zenon DEF Moves
  <2> QED
    BY <2>2, Zenon
<1>3. CASE m \notin S
  <2>1. ASSUME NEW q \in Places PROVE Owns(q, m)' <=> Owns(q, m)
    <3>1. CASE q \in {a, b}
      BY <1>3, <3>1, Zenon DEF Moves
    <3>2. CASE q \notin {a, b}
      BY <3>2, OthersStay, Zenon DEF Moves
    <3> QED
      BY <3>1, <3>2, Zenon
  <2> QED
    BY <1>1, <2>1, Zenon
<1> QED
  BY <1>2, <1>3, Zenon

\* A message goes back to the pool.
LEMMA GivenBack ==
  ASSUME OneOwner, NEW a \in {"router", "worker", "chan", "registrar", "reader"}, NEW x \in Msgs,
         Still(a, "released"),
         \A m \in Msgs : Owns(a, m) <=> m = x \/ Owns(a, m)',
         ~Owns(a, x)', released' = released \cup {x}
  PROVE  OneOwner'
<1>1. \A m : Owns("released", m)' <=> Owns("released", m) \/ m = x
  BY OwnsIs, OwnsNext, Zenon
<1>2. Moves(a, "released", {x})
  BY <1>1, Zenon DEF Moves
<1>3. a \in Places /\ "released" \in Places /\ a # "released"
  BY DEF Places
<1> QED
  BY <1>2, <1>3, MoveKeepsOwner, Zenon

\* A message goes to the application.
LEMMA Accepted ==
  ASSUME OneOwner, NEW a \in {"router", "worker", "chan", "registrar", "reader"}, NEW x \in Msgs,
         Still(a, "taken"),
         \A m \in Msgs : Owns(a, m) <=> m = x \/ Owns(a, m)',
         ~Owns(a, x)', taken' = taken \cup {x}
  PROVE  OneOwner'
<1>1. \A m : Owns("taken", m)' <=> Owns("taken", m) \/ m = x
  BY OwnsIs, OwnsNext, Zenon
<1>2. Moves(a, "taken", {x})
  BY <1>1, Zenon DEF Moves
<1>3. a \in Places /\ "taken" \in Places /\ a # "taken"
  BY DEF Places
<1> QED
  BY <1>2, <1>3, MoveKeepsOwner, Zenon

\* A step that touches no buffer leaves every message with its owner.
LEMMA KeepOwner ==
  ASSUME OneOwner, UNCHANGED <<arrived, inRouter, queue, inWorker, chan, inReg, inReader, released, taken>>
  PROVE  OneOwner'
<1>1. \A p, m : Owns(p, m)' <=> Owns(p, m)
  BY DEF Owns, ToSet
<1> QED
  BY <1>1, Zenon DEF OneOwner

\* Nothing comes to a stage it was not at.
LEMMA StayInOrder ==
  ASSUME InOrder, \A k \in 1..7 : \A m \in Msgs : At(k, m)' => At(k, m)
  PROVE  InOrder'
BY Zenon DEF InOrder

\* A message that goes on follows those it joins.
LEMMA Follows ==
  ASSUME TypeOK, InOrder, NEW x \in Msgs
  PROVE  /\ At(2, x) \/ At(4, x) => \A y \in ToSet(calls) : y < x
         /\ At(4, x) => \A y \in ToSet(chan) : y < x
         /\ At(6, x) => \A y \in ToSet(queue) : y < x
<1>1. \A y \in ToSet(calls) : y \in Msgs /\ At(1, y)
  BY DEF TypeOK, FateTyped, ToSet, At
<1>2. \A y \in ToSet(chan) : y \in Msgs /\ At(3, y)
  BY DEF TypeOK, SessTyped, ToSet, At
<1>3. \A y \in ToSet(queue) : y \in Msgs /\ At(5, y)
  BY DEF TypeOK, RouteTyped, ToSet, At
<1> QED
  BY <1>1, <1>2, <1>3 DEF InOrder

\* The first message of stage j goes on to stage i, past stages that are empty.
LEMMA AdvanceInOrder ==
  ASSUME InOrder, NEW i \in 1..7, NEW j \in 1..7, i < j, NEW x \in Msgs, At(j, x),
         \A k \in 1..7 : \A m \in Msgs : At(k, m)' => At(k, m) \/ (k = i /\ m = x),
         \A m \in Msgs : At(j, m)' => x < m,
         \A k \in 1..7 : i < k /\ k < j => \A m \in Msgs : ~At(k, m)
  PROVE  InOrder'
<1> SUFFICES ASSUME NEW k \in 1..7, NEW l \in 1..7, k < l, NEW a \in Msgs, NEW b \in Msgs, At(k, a)', At(l, b)'
             PROVE  a < b
  BY Zenon DEF InOrder
<1>1. CASE At(k, a) /\ At(l, b)
  BY <1>1, Zenon DEF InOrder
<1>2. CASE k = i /\ a = x
  <2>1. l < j \/ l = j \/ j < l
    OBVIOUS
  <2>2. CASE l < j
    <3>1. l # i
      BY <1>2
    <3> QED
      BY <1>2, <2>2, <3>1, Zenon
  <2>3. CASE l = j
    BY <1>2, <2>3, Zenon
  <2>4. CASE j < l
    <3>1. At(l, b)
      BY <1>2, <2>4
    <3> QED
      BY <1>2, <2>4, <3>1, Zenon DEF InOrder
  <2> QED
    BY <2>1, <2>2, <2>3, <2>4, Zenon
<1>3. CASE l = i /\ b = x
  <2>1. k # i /\ k < j
    BY <1>3
  <2>2. At(k, a)
    BY <2>1, Zenon
  <2> QED
    BY <1>3, <2>1, <2>2, Zenon DEF InOrder
<1> QED
  BY <1>1, <1>2, <1>3, Zenon

-----------------------------------------------------------------------------
(* Each step keeps the invariant.                                          *)

\* The conjuncts of the invariant that hold after a step since their variables are unchanged.
LEMMA Frames ==
  ASSUME UdpInv
  PROVE  /\ UNCHANGED routeVars => RouteTyped'
         /\ UNCHANGED workVars => WorkTyped'
         /\ UNCHANGED regVars => RegTyped'
         /\ UNCHANGED readVars => ReadTyped'
         /\ UNCHANGED sessVars => SessTyped'
         /\ UNCHANGED lifeVars => LifeTyped'
         /\ UNCHANGED writeVars => WriteTyped' /\ WriteOwnsBuffer'
         /\ UNCHANGED fateVars => FateTyped'
         /\ UNCHANGED <<deliverMu, receiver>> => MuTyped'
         /\ UNCHANGED queue => Sorted(queue)'
         /\ UNCHANGED chan => Sorted(chan)'
         /\ UNCHANGED calls => Sorted(calls)'
         /\ UNCHANGED <<worker, reg, deliverMu>> => DeliverMuHeld'
         /\ UNCHANGED <<worker, receiver, deliverMu, chan>> => DrainedFirst'
         /\ UNCHANGED <<chClosed, closed, closing>> => ClosedFirst'
         /\ UNCHANGED <<chClosed, chan>> => NoSendOnClosed'
<1> USE DEF UdpInv, TypeOK
<1>1. UNCHANGED routeVars => RouteTyped'
  BY Zenon DEF RouteTyped, routeVars
<1>2. UNCHANGED workVars => WorkTyped'
  BY Zenon DEF WorkTyped, workVars
<1>3. UNCHANGED regVars => RegTyped'
  BY Zenon DEF RegTyped, regVars
<1>4. UNCHANGED readVars => ReadTyped'
  BY Zenon DEF ReadTyped, readVars
<1>5. UNCHANGED sessVars => SessTyped'
  BY Zenon DEF SessTyped, sessVars
<1>6. UNCHANGED lifeVars => LifeTyped'
  BY Zenon DEF LifeTyped, lifeVars
<1>7. UNCHANGED writeVars => WriteTyped' /\ WriteOwnsBuffer'
  BY DEF WriteTyped, WriteOwnsBuffer, writeVars
<1>8. UNCHANGED fateVars => FateTyped'
  BY Zenon DEF FateTyped, fateVars
<1>9. UNCHANGED <<deliverMu, receiver>> => MuTyped'
  BY Zenon DEF MuTyped
<1>10. /\ UNCHANGED queue => Sorted(queue)'
       /\ UNCHANGED chan => Sorted(chan)'
       /\ UNCHANGED calls => Sorted(calls)'
  BY Zenon DEF Sorted
<1>11. UNCHANGED <<worker, reg, deliverMu>> => DeliverMuHeld'
  BY Zenon DEF DeliverMuHeld
<1>12. UNCHANGED <<worker, receiver, deliverMu, chan>> => DrainedFirst'
  BY Zenon DEF DrainedFirst
<1>13. UNCHANGED <<chClosed, closed, closing>> => ClosedFirst'
  BY DEF ClosedFirst
<1>14. UNCHANGED <<chClosed, chan>> => NoSendOnClosed'
  BY Zenon DEF NoSendOnClosed
<1> QED
  BY <1>1, <1>2, <1>3, <1>4, <1>5, <1>6, <1>7, <1>8, <1>9, <1>10, <1>11, <1>12, <1>13, <1>14, Zenon

\* A step that moves no message leaves every one at its stage.
LEMMA KeepOrder ==
  ASSUME InOrder, UNCHANGED <<arrived, inRouter, queue, worker, inWorker, chan, reg, inReg, calls>>
  PROVE  InOrder'
<1>1. \A k, m : At(k, m)' => At(k, m)
  BY Zenon DEF At, ToSet
<1> QED
  BY <1>1, StayInOrder, Zenon

\* Steps that leave every message where it is.
LEMMA StillSteps ==
  ASSUME Setting, UdpInv,
         TunnelDies \/ RouterCloses \/ Read \/ Write \/ WriteEnds
  PROVE  UdpInv'
<1> USE DEF UdpInv, TypeOK, routeVars, workVars, regVars, readVars, sessVars, lifeVars, writeVars, fateVars
<1>1. OneOwner'
  BY KeepOwner, Zenon DEF TunnelDies, RouterCloses, Read, Write, WriteEnds
<1>2. InOrder'
  BY KeepOrder, Zenon DEF TunnelDies, RouterCloses, Read, Write, WriteEnds
<1>3. CASE TunnelDies
  <2>1. RouteTyped'
    BY <1>3, Zenon DEF TunnelDies, RouteTyped
  <2> QED
    BY <1>1, <1>2, <1>3, <2>1, Frames, Zenon DEF TunnelDies
<1>4. CASE RouterCloses
  <2>1. RouteTyped'
    BY <1>4, Zenon DEF RouterCloses, RouteTyped
  <2>2. LifeTyped'
    BY <1>4, Zenon DEF RouterCloses, LifeTyped
  <2>3. ClosedFirst'
    BY <1>4, Zenon DEF RouterCloses, LifeTyped, ClosedFirst
  <2> QED
    BY <1>1, <1>2, <1>4, <2>1, <2>2, <2>3, Frames, Zenon DEF RouterCloses
<1>5. CASE Read
  <2>1. ReadTyped'
    BY <1>5, Zenon DEF Read, ReadTyped
  <2> QED
    BY <1>1, <1>2, <1>5, <2>1, Frames, Zenon DEF Read
<1>6. CASE Write \/ WriteEnds
  <2>1. WriteTyped' /\ WriteOwnsBuffer'
    BY <1>6, Zenon DEF Write, WriteEnds, WriteTyped, WriteOwnsBuffer
  <2> QED
    BY <1>1, <1>2, <1>6, <2>1, Frames, Zenon DEF Write, WriteEnds
<1> QED
  BY <1>3, <1>4, <1>5, <1>6, Zenon

\* The router takes the next message from the tunnel.
LEMMA ReceiveStep ==
  ASSUME Setting, UdpInv, Receive
  PROVE  UdpInv'
<1> USE DEF UdpInv, TypeOK, routeVars, workVars, regVars, readVars, sessVars, lifeVars, writeVars, fateVars
<1>1. RouteTyped'
  BY DEF Receive, RouteTyped, Setting, Msgs
<1>2. OneOwner' /\ InOrder'
  <2>1. CASE arrived' # arrived
    <3> DEFINE x == arrived + 1
    <3>1. /\ arrived \in Nat /\ x \in Msgs /\ arrived' = x /\ inRouter' = x /\ inRouter = Nobody
          /\ UNCHANGED <<queue, worker, inWorker, chan, reg, inReg, calls, inReader, released, taken>>
      BY <2>1 DEF Receive, RouteTyped, Msgs, Setting
    <3>2. \A m \in Msgs : m \in Int /\ m # Nobody
      BY DEF Msgs, Setting
    <3> HIDE DEF x
    <3>3. Moves("tunnel", "router", {x})
      <4>1. ~(x > arrived') /\ \A m \in Msgs : m > arrived <=> m = x \/ m > arrived'
        BY <3>1, <3>2 DEF x
      <4> QED
        BY <3>1, <3>2, <4>1, OwnsIs, OwnsNext, Zenon DEF Moves, Still
    <3>4. \A k \in 1..7 : \A m \in Msgs : At(k, m)' => At(k, m) \/ (k = 6 /\ m = x)
      BY <3>1, <3>2 DEF At, ToSet, x
    <3>5. At(7, x) /\ \A m \in Msgs : At(7, m)' => x < m
      BY <3>1, <3>2 DEF At, x
    <3>6. OneOwner'
      BY <3>3, MoveKeepsOwner DEF Places
    <3>7. InOrder'
      BY <3>1, <3>4, <3>5, AdvanceInOrder
    <3> QED
      BY <3>6, <3>7
  <2>2. CASE arrived' = arrived
    BY <2>2, KeepOwner, KeepOrder DEF Receive, RouteTyped
  <2> QED
    BY <2>1, <2>2, Zenon
<1> QED
  BY <1>1, <1>2, Frames, Zenon DEF Receive

\* A message is no goroutine's Nobody.
LEMMA MessagesAreNumbers == ASSUME Setting PROVE \A m \in Msgs : m \in Int /\ m # Nobody
BY DEF Msgs, Setting

\* The router passes its message to the worker, or gives up when the manager is done.
LEMMA DispatchStep ==
  ASSUME Setting, UdpInv, Dispatch
  PROVE  UdpInv'
<1> USE DEF UdpInv, TypeOK, routeVars, workVars, regVars, readVars, sessVars, lifeVars, writeVars, fateVars
<1> DEFINE x == inRouter
<1>1. /\ x \in Msgs /\ inRouter' = Nobody
      /\ UNCHANGED <<arrived, worker, inWorker, chan, reg, inReg, calls, inReader, taken>>
  BY Zenon DEF Dispatch, RouteTyped, Release
<1>2. CASE queue' = Append(queue, x) /\ Len(queue) < QueueCap /\ router' = "recv" /\ UNCHANGED fateVars
  <2>1. \A y \in ToSet(queue) : y < x
    <3>1. At(6, x)
      BY Zenon DEF At
    <3> QED
      BY <1>1, <3>1, Follows, Zenon
  <2>2. queue \in Seq(Msgs)
    BY Zenon DEF RouteTyped
  <2>3. /\ queue' \in Seq(Msgs) /\ Len(queue') = Len(queue) + 1 /\ Sorted(queue')
        /\ \A y : y \in ToSet(queue)' <=> y \in ToSet(queue) \/ y = x
    BY <1>1, <1>2, <2>1, <2>2, AppendSeq, Zenon
  <2>4. RouteTyped'
    BY <1>1, <1>2, <2>2, <2>3 DEF Dispatch, RouteTyped, Setting
  <2> HIDE DEF x
  <2>5. Moves("router", "queue", {x})
    BY <1>1, <1>2, <2>1, <2>3, MessagesAreNumbers, OwnsIs, OwnsNext, Zenon DEF Moves, Still, x
  <2>6. /\ At(6, x) /\ \A m \in Msgs : ~At(6, m)'
        /\ \A k \in 1..7 : \A m \in Msgs : At(k, m)' => At(k, m) \/ (k = 5 /\ m = x)
    BY <1>1, <1>2, <2>3, MessagesAreNumbers DEF At, x
  <2>7. OneOwner'
    BY <2>5, MoveKeepsOwner, Zenon DEF Places
  <2>8. InOrder'
    BY <1>1, <2>6, AdvanceInOrder
  <2> QED
    BY <1>2, <2>3, <2>4, <2>7, <2>8, Frames, Zenon DEF Dispatch
<1>3. CASE released' = released \cup {x} /\ router' = "close" /\ UNCHANGED queue
  <2>1. RouteTyped' /\ FateTyped'
    BY <1>1, <1>3, Zenon DEF Dispatch, RouteTyped, FateTyped
  <2> HIDE DEF x
  <2>2. Moves("router", "released", {x})
    BY <1>1, <1>3, MessagesAreNumbers, OwnsIs, OwnsNext, Zenon DEF Moves, Still, x
  <2>3. \A k \in 1..7 : \A m \in Msgs : At(k, m)' => At(k, m)
    BY <1>1, <1>3, MessagesAreNumbers DEF At, ToSet, x
  <2>4. OneOwner'
    BY <2>2, MoveKeepsOwner, Zenon DEF Places
  <2>5. InOrder'
    BY <2>3, StayInOrder, Zenon
  <2> QED
    BY <1>1, <1>3, <2>1, <2>4, <2>5, Frames, Zenon DEF Dispatch
<1> QED
  BY <1>2, <1>3, Zenon DEF Dispatch, Release

\* The worker takes a message from its queue.
LEMMA TakeStep ==
  ASSUME Setting, UdpInv, WorkerTake
  PROVE  UdpInv'
<1> USE DEF UdpInv, TypeOK, routeVars, workVars, regVars, readVars, sessVars, lifeVars, writeVars, fateVars
<1> DEFINE x == Head(queue)
<1>1. /\ inWorker = Nobody /\ inWorker' = x /\ worker = "idle" /\ worker' = "lookup" /\ queue' = Tail(queue)
      /\ UNCHANGED <<arrived, inRouter, chan, reg, inReg, calls, inReader, released, taken>>
  BY Zenon DEF WorkerTake, WorkTyped
<1>2. queue \in Seq(Msgs) /\ queue # <<>> /\ Sorted(queue)
  BY Zenon DEF WorkerTake, RouteTyped
<1>3. /\ queue' \in Seq(Msgs) /\ Len(queue') = Len(queue) - 1 /\ Sorted(queue')
      /\ x \in Msgs
      /\ \A y : y \in ToSet(queue) <=> y = x \/ y \in ToSet(queue)'
      /\ (\A y \in ToSet(queue)' : x < y) /\ x \notin ToSet(queue)'
  BY <1>1, <1>2, TailSeq, Zenon
<1> HIDE DEF x
<1>4. RouteTyped'
  BY <1>1, <1>2, <1>3 DEF WorkerTake, RouteTyped, Setting
<1>5. WorkTyped'
  BY <1>1, <1>3, MessagesAreNumbers, Zenon DEF WorkTyped
<1>6. Moves("queue", "worker", {x})
  BY <1>1, <1>3, MessagesAreNumbers, OwnsIs, OwnsNext, Zenon DEF Moves, Still
<1>7. /\ At(5, x)
      /\ \A k \in 1..7 : \A m \in Msgs : At(k, m)' => At(k, m) \/ (k = 4 /\ m = x)
  BY <1>1, <1>3, MessagesAreNumbers, Zenon DEF At
<1>8. \A m \in Msgs : At(5, m)' => x < m
  BY <1>3 DEF At
<1>9. OneOwner'
  BY <1>6, MoveKeepsOwner, Zenon DEF Places
<1>10. InOrder'
  BY <1>3, <1>7, <1>8, AdvanceInOrder
<1>11. DeliverMuHeld' /\ DrainedFirst'
  BY <1>1, Zenon DEF WorkerTake, DeliverMuHeld, DrainedFirst
<1> QED
  BY <1>3, <1>4, <1>5, <1>9, <1>10, <1>11, Frames, Zenon DEF WorkerTake

\* A worker whose manager is done gives back what is queued.
LEMMA ExitStep ==
  ASSUME Setting, UdpInv, WorkerExit
  PROVE  UdpInv'
<1> USE DEF UdpInv, TypeOK, routeVars, workVars, regVars, readVars, sessVars, lifeVars, writeVars, fateVars
<1>1. /\ worker = "idle" /\ worker' = "exit" /\ queue' = <<>> /\ released' = released \cup ToSet(queue)
      /\ UNCHANGED <<arrived, inRouter, inWorker, chan, reg, inReg, calls, inReader, taken>>
  BY Zenon DEF WorkerExit, Release
<1>2. ToSet(queue) \subseteq Msgs
  BY DEF RouteTyped, ToSet
<1>3. ToSet(queue)' = {} /\ Sorted(queue)' /\ queue' \in Seq(Msgs) /\ Len(queue') = 0
  BY <1>1, EmptySeq, Zenon
<1>4. RouteTyped' /\ WorkTyped' /\ FateTyped'
  BY <1>1, <1>2, <1>3 DEF WorkerExit, RouteTyped, WorkTyped, FateTyped, Setting
<1>5. Moves("queue", "released", ToSet(queue))
  BY <1>1, <1>3, OwnsIs, OwnsNext, Zenon DEF Moves, Still
<1>6. \A k \in 1..7 : \A m \in Msgs : At(k, m)' => At(k, m)
  BY <1>1, <1>3, Zenon DEF At
<1>7. OneOwner'
  BY <1>5, MoveKeepsOwner, Zenon DEF Places
<1>8. InOrder'
  BY <1>6, StayInOrder, Zenon
<1>9. DeliverMuHeld' /\ DrainedFirst'
  BY <1>1, Zenon DEF WorkerExit, DeliverMuHeld, DrainedFirst
<1> QED
  BY <1>1, <1>3, <1>4, <1>7, <1>8, <1>9, Frames, Zenon DEF WorkerExit

\* The message of the worker goes to the pool or to the application.
LEMMA WorkerGives ==
  ASSUME Setting, UdpInv, inWorker \in Msgs, WorkerFree,
         \/ released' = released \cup {inWorker} /\ UNCHANGED taken
         \/ taken' = taken \cup {inWorker} /\ UNCHANGED released,
         UNCHANGED <<routeVars, chan, regVars, inReader, calls>>
  PROVE  OneOwner' /\ InOrder' /\ WorkTyped' /\ FateTyped'
<1> USE DEF UdpInv, TypeOK, routeVars, regVars
<1>1. WorkTyped' /\ FateTyped'
  BY Zenon DEF WorkerFree, WorkTyped, FateTyped
<1>2. Owns("worker", inWorker) /\ \A m \in Msgs : ~Owns("worker", m)' /\ (Owns("worker", m) <=> m = inWorker)
  BY MessagesAreNumbers, OwnsIs, OwnsNext, Zenon DEF WorkerFree
<1>3. \A k \in 1..7 : \A m \in Msgs : At(k, m)' => At(k, m)
  BY MessagesAreNumbers, Zenon DEF WorkerFree, At
<1>4. OneOwner'
  <2>1. CASE released' = released \cup {inWorker} /\ UNCHANGED taken
    <3>1. Still("worker", "released")
      BY <2>1, Zenon DEF Still
    <3> QED
      BY <1>2, <2>1, <3>1, GivenBack, Zenon
  <2>2. CASE taken' = taken \cup {inWorker} /\ UNCHANGED released
    <3>1. Still("worker", "taken")
      BY <2>2, Zenon DEF Still
    <3> QED
      BY <1>2, <2>2, <3>1, Accepted, Zenon
  <2> QED
    BY <2>1, <2>2, Zenon
<1>5. InOrder'
  BY <1>3, StayInOrder, Zenon
<1> QED
  BY <1>1, <1>4, <1>5, Zenon

\* deliverMu is free once the worker has let go of it.
LEMMA WorkerUnlocks ==
  ASSUME Setting, UdpInv, worker \in {"try", "feed", "call", "queue"}, worker' = "idle", deliverMu' = Nobody,
         UNCHANGED <<reg, receiver>>
  PROVE  /\ DeliverMuHeld' /\ MuTyped'
         /\ chan' = chan \/ receiver = Nobody => DrainedFirst'
<1> USE DEF UdpInv, TypeOK, Setting
<1>1. deliverMu = Worker
  BY Zenon DEF DeliverMuHeld
<1>2. DeliverMuHeld' /\ MuTyped'
  BY <1>1, Zenon DEF DeliverMuHeld, MuTyped
<1>3. chan' = chan \/ receiver = Nobody => DrainedFirst'
  BY <1>1, Zenon DEF DrainedFirst
<1> QED
  BY <1>2, <1>3, Zenon

\* The worker looks up its session, takes deliverMu and looks for a receiver.
LEMMA LookupSteps ==
  ASSUME Setting, UdpInv, WorkerLookup \/ WorkerLock \/ WorkerTry
  PROVE  UdpInv'
<1> USE DEF UdpInv, TypeOK, routeVars, workVars, regVars, readVars, sessVars, lifeVars, writeVars, fateVars
<1>1. CASE WorkerLookup /\ ~inMap
  <2>1. inWorker \in Msgs
    BY <1>1, Zenon DEF WorkerLookup, WorkTyped
  <2>2. OneOwner' /\ InOrder' /\ WorkTyped' /\ FateTyped'
    BY <1>1, <2>1, WorkerGives, Zenon DEF WorkerLookup, Release
  <2>3. DeliverMuHeld' /\ DrainedFirst'
    BY <1>1, Zenon DEF WorkerLookup, WorkerFree, DeliverMuHeld, DrainedFirst
  <2> QED
    BY <1>1, <2>2, <2>3, Frames, Zenon DEF WorkerLookup, Release
<1>2. CASE (WorkerLookup /\ inMap) \/ WorkerLock \/ WorkerTry
  <2>1. OneOwner'
    BY <1>2, KeepOwner, Zenon DEF WorkerLookup, WorkerLock, WorkerTry
  <2>2. WorkTyped' /\ worker # "call"
    BY <1>2, Zenon DEF WorkerLookup, WorkerLock, WorkerTry, WorkTyped
  <2>3. \A k \in 1..7 : \A m \in Msgs : At(k, m)' => At(k, m)
    <3>1. UNCHANGED <<arrived, inRouter, queue, inWorker, chan, reg, inReg, calls>>
      BY <1>2, Zenon DEF WorkerLookup, WorkerLock, WorkerTry
    <3> QED
      BY <2>2, <3>1, Zenon DEF At
  <2>4. InOrder'
    BY <2>3, StayInOrder, Zenon
  <2>5. DeliverMuHeld' /\ MuTyped'
    BY <1>2, Zenon DEF WorkerLookup, WorkerLock, WorkerTry, DeliverMuHeld, MuTyped, Setting
  <2>6. DrainedFirst'
    BY <1>2, Zenon DEF WorkerLookup, WorkerLock, WorkerTry, DrainedFirst, DeliverMuHeld, MuTyped, Setting
  <2> QED
    BY <1>2, <2>1, <2>2, <2>4, <2>5, <2>6, Frames, Zenon DEF WorkerLookup, WorkerLock, WorkerTry
<1> QED
  BY <1>1, <1>2, Zenon

\* The worker hands its message to the receiver, behind everything that was queued.
LEMMA FeedStep ==
  ASSUME Setting, UdpInv, WorkerFeed
  PROVE  UdpInv'
<1> USE DEF UdpInv, TypeOK, routeVars, workVars, regVars, readVars, sessVars, lifeVars, writeVars, fateVars
<1> DEFINE x == inWorker
<1>1. x \in Msgs /\ worker = "feed" /\ deliverMu = Worker /\ chan = <<>>
  BY Zenon DEF WorkerFeed, WorkTyped, DeliverMuHeld, DrainedFirst
<1>2. CASE WorkerFree /\ deliverMu' = Nobody /\ Release({x})
  <2>1. OneOwner' /\ InOrder' /\ WorkTyped' /\ FateTyped'
    BY <1>1, <1>2, WorkerGives, Zenon DEF WorkerFeed, Release
  <2>2. DeliverMuHeld' /\ MuTyped' /\ DrainedFirst'
    BY <1>1, <1>2, WorkerUnlocks, Zenon DEF WorkerFeed, WorkerFree
  <2> QED
    BY <1>2, <2>1, <2>2, Frames, Zenon DEF WorkerFeed, Release
<1>3. CASE worker' = "call" /\ calls' = Append(calls, x) /\ UNCHANGED <<inWorker, deliverMu, released, taken>>
  <2>1. UNCHANGED <<arrived, inRouter, queue, inWorker, chan, reg, inReg, inReader, released, taken>>
    BY <1>3, Zenon DEF WorkerFeed
  <2>2. OneOwner'
    BY <2>1, KeepOwner, Zenon
  <2>3. \A y \in ToSet(calls) : y < x
    <3>1. At(4, x)
      BY <1>1, Zenon DEF At
    <3> QED
      BY <1>1, <3>1, Follows, Zenon
  <2>4. /\ calls' \in Seq(Msgs) /\ Sorted(calls')
        /\ \A y : y \in ToSet(calls)' <=> y \in ToSet(calls) \/ y = x
    <3>1. calls \in Seq(Msgs)
      BY Zenon DEF FateTyped
    <3> QED
      BY <1>1, <1>3, <2>3, <3>1, AppendSeq, Zenon
  <2>5. WorkTyped' /\ FateTyped'
    BY <1>1, <1>3, <2>1, <2>4, Zenon DEF WorkTyped, FateTyped
  <2>6. \A r \in Registrars : reg[r] # "feed"
    BY <1>1, Zenon DEF DeliverMuHeld, Setting
  <2> HIDE DEF x
  <2>7. /\ At(4, x) /\ \A m \in Msgs : ~At(4, m)'
        /\ \A k \in 1..7 : \A m \in Msgs : At(k, m)' => At(k, m) \/ (k = 1 /\ m = x)
    BY <1>1, <1>3, <2>1, <2>4 DEF At, x
  <2>8. \A k \in 1..7 : 1 < k /\ k < 4 => \A m \in Msgs : ~At(k, m)
    BY <1>1, <2>6, EmptySeq DEF At
  <2>9. InOrder'
    BY <1>1, <2>7, <2>8, AdvanceInOrder DEF x
  <2>10. DeliverMuHeld' /\ DrainedFirst'
    BY <1>1, <1>3, <2>1, Zenon DEF WorkerFeed, DeliverMuHeld, DrainedFirst
  <2> QED
    BY <1>3, <2>1, <2>2, <2>4, <2>5, <2>9, <2>10, Frames, Zenon DEF WorkerFeed
<1> QED
  BY <1>2, <1>3, Zenon DEF WorkerFeed

\* The receiver has answered.
LEMMA CalledStep ==
  ASSUME Setting, UdpInv, WorkerCalled
  PROVE  UdpInv'
<1> USE DEF UdpInv, TypeOK, routeVars, workVars, regVars, readVars, sessVars, lifeVars, writeVars, fateVars
<1>1. inWorker \in Msgs
  BY Zenon DEF WorkerCalled, WorkTyped
<1>2. OneOwner' /\ InOrder' /\ WorkTyped' /\ FateTyped'
  BY <1>1, WorkerGives, Zenon DEF WorkerCalled
<1>3. DeliverMuHeld' /\ MuTyped' /\ DrainedFirst'
  BY WorkerUnlocks, Zenon DEF WorkerCalled, WorkerFree
<1> QED
  BY <1>2, <1>3, Frames, Zenon DEF WorkerCalled

\* The worker queues its message for readers while no receiver is registered.
LEMMA QueueStep ==
  ASSUME Setting, UdpInv, WorkerQueue
  PROVE  UdpInv'
<1> USE DEF UdpInv, TypeOK, routeVars, workVars, regVars, readVars, sessVars, lifeVars, writeVars, fateVars
<1> DEFINE x == inWorker
<1>1. x \in Msgs /\ worker = "queue" /\ deliverMu = Worker
  BY Zenon DEF WorkerQueue, WorkTyped, DeliverMuHeld
<1>2. CASE worker' = "try" /\ UNCHANGED <<inWorker, deliverMu, chan, fateVars>>
  <2>1. OneOwner'
    BY <1>2, KeepOwner, Zenon DEF WorkerQueue
  <2>2. \A k \in 1..7 : \A m \in Msgs : At(k, m)' => At(k, m)
    <3>1. UNCHANGED <<arrived, inRouter, queue, inWorker, chan, reg, inReg, calls>>
      BY <1>2, Zenon DEF WorkerQueue
    <3> QED
      BY <1>1, <3>1, Zenon DEF At
  <2>3. InOrder'
    BY <2>2, StayInOrder, Zenon
  <2>4. WorkTyped' /\ DeliverMuHeld' /\ DrainedFirst'
    BY <1>1, <1>2, Zenon DEF WorkerQueue, WorkTyped, DeliverMuHeld, DrainedFirst
  <2> QED
    BY <1>2, <2>1, <2>3, <2>4, Frames, Zenon DEF WorkerQueue
<1>3. CASE WorkerFree /\ deliverMu' = Nobody /\ Release({x}) /\ UNCHANGED chan
  <2>1. OneOwner' /\ InOrder' /\ WorkTyped' /\ FateTyped'
    BY <1>1, <1>3, WorkerGives, Zenon DEF WorkerQueue, Release
  <2>2. DeliverMuHeld' /\ MuTyped' /\ DrainedFirst'
    BY <1>1, <1>3, WorkerUnlocks, Zenon DEF WorkerQueue, WorkerFree
  <2> QED
    BY <1>3, <2>1, <2>2, Frames, Zenon DEF WorkerQueue, Release
<1>4. CASE /\ WorkerFree /\ deliverMu' = Nobody
           /\ receiver = Nobody /\ ~closed /\ Len(chan) # ChanCap
           /\ chan' = Append(chan, x) /\ UNCHANGED fateVars
  <2>1. /\ worker' = "idle" /\ inWorker' = Nobody
        /\ UNCHANGED <<arrived, inRouter, queue, reg, inReg, calls, inReader, released, taken>>
    BY <1>4, Zenon DEF WorkerQueue, WorkerFree
  <2>2. chan \in Seq(Msgs)
    BY Zenon DEF SessTyped
  <2>3. \A y \in ToSet(chan) : y < x
    <3>1. At(4, x)
      BY <1>1, Zenon DEF At
    <3> QED
      BY <1>1, <3>1, Follows, Zenon
  <2>4. /\ chan' \in Seq(Msgs) /\ Len(chan') = Len(chan) + 1 /\ Sorted(chan')
        /\ \A y : y \in ToSet(chan)' <=> y \in ToSet(chan) \/ y = x
    BY <1>1, <1>4, <2>2, <2>3, AppendSeq, Zenon
  <2>5. SessTyped'
    BY <1>4, <2>2, <2>4 DEF WorkerQueue, SessTyped, Setting
  <2> HIDE DEF x
  <2>6. Moves("worker", "chan", {x})
    BY <1>1, <2>1, <2>3, <2>4, MessagesAreNumbers, OwnsIs, OwnsNext, Zenon DEF Moves, Still, x
  <2>7. /\ At(4, x) /\ \A m \in Msgs : ~At(4, m)'
        /\ \A k \in 1..7 : \A m \in Msgs : At(k, m)' => At(k, m) \/ (k = 3 /\ m = x)
    BY <1>1, <2>1, <2>4, MessagesAreNumbers DEF At, x
  <2>8. OneOwner'
    BY <2>6, MoveKeepsOwner, Zenon DEF Places
  <2>9. InOrder'
    BY <1>1, <2>7, AdvanceInOrder
  <2>10. WorkTyped'
    BY <2>1, Zenon DEF WorkTyped
  <2>11. DeliverMuHeld' /\ MuTyped' /\ DrainedFirst'
    BY <1>1, <1>4, <2>1, WorkerUnlocks, Zenon DEF WorkerQueue
  <2>12. NoSendOnClosed'
    BY <1>4, Zenon DEF WorkerQueue, ClosedFirst, NoSendOnClosed
  <2> QED
    BY <1>4, <2>4, <2>5, <2>8, <2>9, <2>10, <2>11, <2>12, Frames, Zenon DEF WorkerQueue
<1> QED
  BY <1>2, <1>3, <1>4, Zenon DEF WorkerQueue

\* While r has deliverMu no other registrar has a message.
LEMMA OneDrains ==
  ASSUME Setting, UdpInv, NEW r \in Registrars, reg[r] \in {"drain", "feed", "call"}
  PROVE  /\ deliverMu = r /\ worker # "feed"
         /\ \A s \in Registrars : s # r => inReg[s] = Nobody /\ reg[s] # "feed"
<1> USE DEF UdpInv, TypeOK
<1>1. deliverMu = r
  BY Zenon DEF DeliverMuHeld
<1>2. worker # "feed"
  BY <1>1, Zenon DEF DeliverMuHeld, Setting
<1>3. \A s \in Registrars : s # r => reg[s] \notin {"drain", "feed", "call"}
  BY <1>1, Zenon DEF DeliverMuHeld
<1> QED
  BY <1>1, <1>2, <1>3, Zenon DEF RegTyped

\* A registration starts, is refused or ends, or finds nothing more to drain.
LEMMA RegisterSteps ==
  ASSUME Setting, UdpInv, NEW r \in Registrars,
         Register(r) \/ RegLock(r) \/ (RegDrain(r) /\ chan = <<>>) \/ Unregister(r)
  PROVE  UdpInv'
<1> USE DEF UdpInv, TypeOK, routeVars, workVars, regVars, readVars, sessVars, lifeVars, writeVars, fateVars
<1>1. /\ UNCHANGED <<routeVars, workVars, inReg, readVars, sessVars, lifeVars, writeVars, fateVars>>
      /\ reg[r] \in {"idle", "lock", "drain", "on"}
      /\ \E p \in {"lock", "drain", "on", "off"} : reg' = [reg EXCEPT ![r] = p]
  BY Zenon DEF Register, RegLock, RegDrain, Unregister
<1>2. /\ reg' \in [Registrars -> {"idle", "lock", "drain", "feed", "call", "on", "off"}]
      /\ \A s \in Registrars : s # r => reg'[s] = reg[s]
      /\ reg'[r] \in {"lock", "drain", "on", "off"}
  BY <1>1, Zenon DEF RegTyped
<1>3. RegTyped'
  BY <1>1, <1>2, Zenon DEF RegTyped
<1>4. OneOwner'
  BY <1>1, KeepOwner, Zenon
<1>5. \A k \in 1..7 : \A m \in Msgs : At(k, m)' => At(k, m)
  BY <1>1, <1>2 DEF At
<1>6. InOrder'
  BY <1>5, StayInOrder, Zenon
<1>7. MuTyped'
  <2>1. deliverMu' \in {deliverMu, r, Nobody} /\ receiver' \in {receiver, r, Nobody}
    BY ZenonT(40) DEF Register, RegLock, RegDrain, Unregister
  <2> QED
    BY <2>1, Zenon DEF MuTyped
<1>8. DeliverMuHeld'
  <2>1. \A p : reg' = [reg EXCEPT ![r] = p] => reg'[r] = p
    BY Zenon DEF RegTyped
  <2>2. \/ /\ deliverMu' = deliverMu
           /\ reg[r] \notin {"drain", "feed", "call"} /\ reg'[r] \notin {"drain", "feed", "call"}
        \/ deliverMu = Nobody /\ deliverMu' = r /\ reg'[r] = "drain"
        \/ reg[r] = "drain" /\ deliverMu' = Nobody /\ reg'[r] \notin {"drain", "feed", "call"}
    <3>1. CASE Register(r)
      BY <2>1, <3>1, Zenon DEF Register
    <3>2. CASE RegLock(r)
      BY <2>1, <3>2, Zenon DEF RegLock
    <3>3. CASE RegDrain(r) /\ chan = <<>>
      <4>1. reg[r] = "drain" /\ deliverMu' = Nobody /\ \E p \in {"on", "off"} : reg' = [reg EXCEPT ![r] = p]
        BY <3>3, Zenon DEF RegDrain
      <4> QED
        BY <2>1, <4>1, Zenon
    <3>4. CASE Unregister(r)
      BY <2>1, <3>4, Zenon DEF Unregister
    <3> QED
      BY <3>1, <3>2, <3>3, <3>4, Zenon
  <2>3. worker' = worker
    BY <1>1, Zenon
  <2>4. r # Nobody /\ r # Worker /\ Nobody # Worker /\ \A s \in Registrars : s # Nobody
    BY Zenon DEF Setting
  <2>5. worker' \in {"try", "feed", "call", "queue"} <=> deliverMu' = Worker
    BY <2>2, <2>3, <2>4, Zenon DEF DeliverMuHeld
  <2>6. ASSUME NEW s \in Registrars PROVE reg'[s] \in {"drain", "feed", "call"} <=> deliverMu' = s
    BY <1>2, <2>2, <2>4, Zenon DEF DeliverMuHeld
  <2> QED
    BY <2>5, <2>6, Zenon DEF DeliverMuHeld
<1>9. DrainedFirst'
  BY <1>1, Zenon DEF Register, RegLock, RegDrain, Unregister, DrainedFirst, Setting
<1> QED
  BY <1>1, <1>3, <1>4, <1>6, <1>7, <1>8, <1>9, Frames, Zenon

\* A message is taken from the channel, by the drain or by a reader.
LEMMA PopKeeps ==
  ASSUME Setting, UdpInv, chan # <<>>, chan' = Tail(chan), UNCHANGED <<inMap, closed, dClosed, chClosed>>
  PROVE  /\ SessTyped' /\ Sorted(chan)' /\ NoSendOnClosed' /\ Head(chan) \in Msgs
         /\ \A y : y \in ToSet(chan) <=> y = Head(chan) \/ y \in ToSet(chan)'
         /\ (\A y \in ToSet(chan)' : Head(chan) < y) /\ Head(chan) \notin ToSet(chan)'
<1> USE DEF UdpInv, TypeOK
<1>1. chan \in Seq(Msgs) /\ Sorted(chan)
  BY Zenon DEF SessTyped
<1>2. /\ chan' \in Seq(Msgs) /\ Len(chan') = Len(chan) - 1 /\ Sorted(chan)' /\ Head(chan) \in Msgs
      /\ \A y : y \in ToSet(chan) <=> y = Head(chan) \/ y \in ToSet(chan)'
      /\ (\A y \in ToSet(chan)' : Head(chan) < y) /\ Head(chan) \notin ToSet(chan)'
  BY <1>1, TailSeq, Zenon
<1>3. SessTyped'
  BY <1>1, <1>2 DEF SessTyped, Setting
<1>4. NoSendOnClosed'
  BY Zenon DEF NoSendOnClosed
<1> QED
  BY <1>2, <1>3, <1>4, Zenon

\* The drain takes a message from the channel, to feed it or to give it back.
LEMMA DrainStep ==
  ASSUME Setting, UdpInv, NEW r \in Registrars, RegDrain(r), chan # <<>>
  PROVE  UdpInv'
<1> USE DEF UdpInv, TypeOK, routeVars, workVars, regVars, readVars, sessVars, lifeVars, writeVars, fateVars
<1> DEFINE x == Head(chan)
<1>1. /\ reg[r] = "drain" /\ inReg[r] = Nobody /\ chan' = Tail(chan)
      /\ UNCHANGED <<arrived, inRouter, queue, worker, inWorker, calls, inReader, taken, deliverMu, receiver>>
  BY Zenon DEF RegDrain, RegTyped, Release
<1>2. /\ SessTyped' /\ Sorted(chan)' /\ NoSendOnClosed' /\ x \in Msgs
      /\ \A y : y \in ToSet(chan) <=> y = x \/ y \in ToSet(chan)'
      /\ (\A y \in ToSet(chan)' : x < y) /\ x \notin ToSet(chan)'
  BY <1>1, PopKeeps, Zenon DEF RegDrain
<1>3. /\ deliverMu = r /\ worker # "feed"
      /\ \A s \in Registrars : s # r => inReg[s] = Nobody /\ reg[s] # "feed"
  BY <1>1, OneDrains, Zenon
<1>4. DrainedFirst'
  BY <1>1, <1>3, Zenon DEF DrainedFirst
<1>5. CASE Release({x}) /\ UNCHANGED <<reg, inReg>>
  <2>1. FateTyped'
    BY <1>2, <1>5, Zenon DEF FateTyped, Release
  <2> HIDE DEF x
  <2>2. Still("chan", "released") /\ released' = released \cup {x}
    BY <1>1, <1>5, Zenon DEF Still, Release
  <2>3. \A k \in 1..7 : \A m \in Msgs : At(k, m)' => At(k, m)
    BY <1>1, <1>2, <1>5, Zenon DEF At
  <2>4. OneOwner'
    <3>1. \A m \in Msgs : /\ Owns("chan", m) <=> m = x \/ Owns("chan", m)'
                          /\ m = x => ~Owns("chan", m)'
      BY <1>2, OwnsIs, OwnsNext, Zenon
    <3> QED
      BY <1>2, <2>2, <3>1, GivenBack, Zenon
  <2>5. InOrder'
    BY <2>3, StayInOrder, Zenon
  <2> QED
    BY <1>1, <1>2, <1>4, <1>5, <2>1, <2>4, <2>5, Frames, Zenon DEF RegDrain
<1>6. CASE /\ reg' = [reg EXCEPT ![r] = "feed"] /\ inReg' = [inReg EXCEPT ![r] = x]
           /\ UNCHANGED fateVars
  <2> HIDE DEF x
  <2>1. /\ reg' \in [Registrars -> {"idle", "lock", "drain", "feed", "call", "on", "off"}]
        /\ inReg' \in [Registrars -> Msgs \cup {Nobody}]
        /\ reg'[r] = "feed" /\ inReg'[r] = x
        /\ \A s \in Registrars : s # r => reg'[s] = reg[s] /\ inReg'[s] = inReg[s]
    BY <1>2, <1>6, Zenon DEF RegTyped
  <2>2. RegTyped'
    BY <1>2, <2>1, MessagesAreNumbers, Zenon DEF RegTyped
  <2>3. \A m \in Msgs : \A s \in Registrars : m # inReg[s] /\ (m = inReg'[s] <=> m = x /\ s = r)
    BY <1>1, <1>3, <2>1, MessagesAreNumbers, Zenon
  <2>4. Moves("chan", "registrar", {x})
    <3>1. \A m \in Msgs : ~Owns("registrar", m) /\ (Owns("registrar", m)' <=> m = x)
      <4>1. ASSUME NEW m \in Msgs PROVE (\E s \in Registrars : m = inReg'[s]) <=> m = x
        BY <2>3, Zenon
      <4>2. ASSUME NEW m \in Msgs PROVE ~\E s \in Registrars : m = inReg[s]
        BY <2>3, Zenon
      <4> QED
        BY <4>1, <4>2, OwnsIs, OwnsNext, Zenon
    <3>2. Still("chan", "registrar")
      BY <1>1, <1>6, Zenon DEF Still
    <3>3. \A m \in Msgs : /\ Owns("chan", m) <=> m = x \/ Owns("chan", m)'
                          /\ m = x => ~Owns("chan", m)'
      BY <1>2, OwnsIs, OwnsNext, Zenon
    <3> QED
      BY <1>2, <3>1, <3>2, <3>3, Zenon DEF Moves
  <2>5. /\ At(3, x) /\ \A m \in Msgs : At(3, m)' => x < m
        /\ \A k \in 1..7 : \A m \in Msgs : At(k, m)' => At(k, m) \/ (k = 2 /\ m = x)
    BY <1>1, <1>2, <1>6, <2>3 DEF At
  <2>6. OneOwner'
    BY <2>4, MoveKeepsOwner, Zenon DEF Places
  <2>7. InOrder'
    BY <1>2, <2>5, AdvanceInOrder
  <2>8. DeliverMuHeld'
    BY <1>1, <2>1, Zenon DEF DeliverMuHeld
  <2> QED
    BY <1>1, <1>2, <1>4, <1>6, <2>2, <2>6, <2>7, <2>8, Frames, Zenon DEF RegDrain
<1> QED
  BY <1>5, <1>6, Zenon DEF RegDrain

\* The drained message goes to the receiver and then to the pool or the application.
LEMMA RegFeedSteps ==
  ASSUME Setting, UdpInv, NEW r \in Registrars, RegFeed(r) \/ RegCalled(r)
  PROVE  UdpInv'
<1> USE DEF UdpInv, TypeOK, routeVars, workVars, regVars, readVars, sessVars, lifeVars, writeVars, fateVars
<1> DEFINE x == inReg[r]
<1>1. /\ reg[r] \in {"feed", "call"} /\ x \in Msgs
      /\ UNCHANGED <<routeVars, workVars, readVars, sessVars, lifeVars, writeVars, deliverMu, receiver>>
  BY Zenon DEF RegFeed, RegCalled, RegTyped
<1>2. /\ deliverMu = r
      /\ \A s \in Registrars : s # r => inReg[s] = Nobody /\ reg[s] # "feed"
  BY <1>1, OneDrains, Zenon
<1>3. CASE /\ reg' = [reg EXCEPT ![r] = "drain"] /\ inReg' = [inReg EXCEPT ![r] = Nobody]
           /\ \/ released' = released \cup {x} /\ UNCHANGED taken
              \/ taken' = taken \cup {x} /\ UNCHANGED released
           /\ UNCHANGED calls
  <2>1. /\ reg' \in [Registrars -> {"idle", "lock", "drain", "feed", "call", "on", "off"}]
        /\ inReg' \in [Registrars -> Msgs \cup {Nobody}]
        /\ reg'[r] = "drain" /\ inReg'[r] = Nobody
        /\ \A s \in Registrars : s # r => reg'[s] = reg[s] /\ inReg'[s] = inReg[s]
    BY <1>3, Zenon DEF RegTyped
  <2>2. RegTyped' /\ FateTyped'
    BY <1>1, <1>3, <2>1, Zenon DEF RegTyped, FateTyped
  <2>3. \A m \in Msgs : \A s \in Registrars : m # inReg'[s] /\ (m = inReg[s] <=> m = x /\ s = r)
    BY <1>2, <2>1, MessagesAreNumbers, Zenon
  <2> HIDE DEF x
  <2>4. /\ \A m \in Msgs : Owns("registrar", m) <=> m = x
        /\ \A m \in Msgs : ~Owns("registrar", m)'
    <3>1. \A m \in Msgs : (\E s \in Registrars : m = inReg[s]) <=> m = x
      BY <2>3, Zenon
    <3>2. \A m \in Msgs : ~\E s \in Registrars : m = inReg'[s]
      BY <2>3, Zenon
    <3> QED
      BY <3>1, <3>2, OwnsIs, OwnsNext, Zenon
  <2>5. \A k \in 1..7 : \A m \in Msgs : At(k, m)' => At(k, m)
    BY <1>1, <1>3, <2>3, ZenonT(40) DEF At
  <2>6. OneOwner'
    <3>1. CASE released' = released \cup {x} /\ UNCHANGED taken
      <4>1. Still("registrar", "released")
        BY <1>1, <3>1, Zenon DEF Still
      <4> QED
        BY <1>1, <2>4, <3>1, <4>1, GivenBack, Zenon
    <3>2. CASE taken' = taken \cup {x} /\ UNCHANGED released
      <4>1. Still("registrar", "taken")
        BY <1>1, <3>2, Zenon DEF Still
      <4> QED
        BY <1>1, <2>4, <3>2, <4>1, Accepted, ZenonT(40)
    <3> QED
      BY <1>3, <3>1, <3>2, Zenon
  <2>7. InOrder'
    BY <2>5, StayInOrder, Zenon
  <2>8. DeliverMuHeld'
    BY <1>1, <2>1, Zenon DEF DeliverMuHeld
  <2> QED
    BY <1>1, <1>3, <2>2, <2>6, <2>7, <2>8, Frames, Zenon
<1>4. CASE /\ reg[r] = "feed" /\ reg' = [reg EXCEPT ![r] = "call"] /\ calls' = Append(calls, x)
           /\ UNCHANGED <<inReg, released, taken>>
  <2>1. /\ reg' \in [Registrars -> {"idle", "lock", "drain", "feed", "call", "on", "off"}]
        /\ reg'[r] = "call"
        /\ \A s \in Registrars : s # r => reg'[s] = reg[s]
    BY <1>4, Zenon DEF RegTyped
  <2>2. OneOwner'
    BY <1>1, <1>4, KeepOwner, Zenon
  <2>3. calls \in Seq(Msgs) /\ At(2, x)
    BY <1>4, Zenon DEF FateTyped, At
  <2>4. \A y \in ToSet(calls) : y < x
    BY <1>1, <2>3, Follows, Zenon
  <2>5. /\ calls' \in Seq(Msgs) /\ Sorted(calls)'
        /\ \A y : y \in ToSet(calls)' <=> y \in ToSet(calls) \/ y = x
    BY <1>1, <1>4, <2>3, <2>4, AppendSeq, Zenon
  <2>6. RegTyped' /\ FateTyped'
    BY <1>4, <2>1, <2>5, Zenon DEF RegTyped, FateTyped
  <2> HIDE DEF x
  <2>7. /\ \A m \in Msgs : ~At(2, m)'
        /\ \A k \in 1..7 : \A m \in Msgs : At(k, m)' => At(k, m) \/ (k = 1 /\ m = x)
    BY <1>1, <1>2, <1>4, <2>1, <2>5, MessagesAreNumbers DEF At
  <2>8. InOrder'
    BY <1>1, <2>3, <2>7, AdvanceInOrder
  <2>9. DeliverMuHeld'
    BY <1>1, <2>1, Zenon DEF DeliverMuHeld
  <2> QED
    BY <1>1, <1>4, <2>2, <2>5, <2>6, <2>8, <2>9, Frames, Zenon
<1> QED
  BY <1>3, <1>4, Zenon DEF RegFeed, RegCalled, Release

\* ReadFrom takes a message from the channel or sees its end, and copies a message out.
LEMMA ReadSteps ==
  ASSUME Setting, UdpInv, ReadPop \/ ReadFeed
  PROVE  UdpInv'
<1> USE DEF UdpInv, TypeOK, routeVars, workVars, regVars, readVars, sessVars, lifeVars, writeVars, fateVars
<1>1. CASE ReadPop /\ chan # <<>>
  <2> DEFINE x == Head(chan)
  <2>1. /\ inReader = Nobody /\ inReader' = x /\ chan' = Tail(chan) /\ reader' = "feed"
        /\ UNCHANGED <<arrived, inRouter, queue, worker, inWorker, reg, inReg, calls, released, taken>>
    BY <1>1, Zenon DEF ReadPop, ReadTyped
  <2>2. /\ SessTyped' /\ Sorted(chan)' /\ NoSendOnClosed' /\ x \in Msgs
        /\ \A y : y \in ToSet(chan) <=> y = x \/ y \in ToSet(chan)'
        /\ (\A y \in ToSet(chan)' : x < y) /\ x \notin ToSet(chan)'
    BY <1>1, <2>1, PopKeeps, Zenon DEF ReadPop
  <2> HIDE DEF x
  <2>3. ReadTyped'
    BY <2>1, <2>2, MessagesAreNumbers, Zenon DEF ReadTyped
  <2>4. Moves("chan", "reader", {x})
    BY <2>1, <2>2, MessagesAreNumbers, OwnsIs, OwnsNext, Zenon DEF Moves, Still
  <2>5. \A k \in 1..7 : \A m \in Msgs : At(k, m)' => At(k, m)
    BY <2>1, <2>2, Zenon DEF At
  <2>6. OneOwner'
    BY <2>4, MoveKeepsOwner, Zenon DEF Places
  <2>7. InOrder'
    BY <2>5, StayInOrder, Zenon
  <2>8. DrainedFirst'
    BY <1>1, Zenon DEF ReadPop, DrainedFirst
  <2> QED
    BY <1>1, <2>2, <2>3, <2>6, <2>7, <2>8, Frames, Zenon DEF ReadPop
<1>2. CASE ReadPop /\ chan = <<>>
  <2>1. OneOwner' /\ InOrder'
    BY <1>2, KeepOwner, KeepOrder, Zenon DEF ReadPop
  <2>2. ReadTyped'
    BY <1>2, Zenon DEF ReadPop, ReadTyped
  <2> QED
    BY <1>2, <2>1, <2>2, Frames, Zenon DEF ReadPop
<1>3. CASE ReadFeed
  <2>1. /\ inReader \in Msgs /\ inReader' = Nobody /\ reader' \in {"block", "idle"}
        /\ released' = released \cup {inReader}
        /\ UNCHANGED <<arrived, inRouter, queue, worker, inWorker, chan, reg, inReg, calls, taken>>
    BY <1>3, Zenon DEF ReadFeed, ReadTyped, Release
  <2>2. ReadTyped' /\ FateTyped'
    BY <2>1, Zenon DEF ReadTyped, FateTyped
  <2>3. Still("reader", "released")
    BY <2>1, Zenon DEF Still
  <2>4. OneOwner'
    <3>1. Owns("reader", inReader) /\ \A m \in Msgs : ~Owns("reader", m)' /\ (Owns("reader", m) <=> m = inReader)
      BY <2>1, MessagesAreNumbers, OwnsIs, OwnsNext, Zenon
    <3> QED
      BY <2>1, <2>3, <3>1, GivenBack, Zenon
  <2>5. InOrder'
    BY <2>1, KeepOrder, Zenon
  <2> QED
    BY <1>3, <2>1, <2>2, <2>4, <2>5, Frames, Zenon DEF ReadFeed
<1> QED
  BY <1>1, <1>2, <1>3, Zenon

\* A closer goes on from one step of closeLocked to the next.
LEMMA CloserMoves ==
  ASSUME UdpInv, NEW g \in AllClosers, NEW p \in {"lock", "frag", "chan", "buf", "done"},
         closing' = [closing EXCEPT ![g] = p], done' \in BOOLEAN, once' \in {"no", "run", "done"},
         mx' \in AllClosers \cup {Nobody}
  PROVE  /\ LifeTyped'
         /\ (/\ closed' = closed \/ closed'
             /\ chClosed' = chClosed \/ closed'
             /\ p \in {"frag", "chan", "buf"} => closed')
            => ClosedFirst'
<1> USE DEF UdpInv, TypeOK
<1>1. LifeTyped'
  BY Zenon DEF LifeTyped
<1>2. \A h \in AllClosers : closing'[h] = IF h = g THEN p ELSE closing[h]
  BY Zenon DEF LifeTyped
<1> QED
  BY <1>1, <1>2 DEF ClosedFirst

\* Close of the session and of the manager, up to the release of m.mutex.
LEMMA CloseSteps ==
  ASSUME Setting, UdpInv, NEW g \in AllClosers, CloseCalled(g) \/ CloseMark(g) \/ CloseDefrag(g) \/ CloseBuf(g)
  PROVE  UdpInv'
<1> USE DEF UdpInv, TypeOK, routeVars, workVars, regVars, readVars, sessVars, lifeVars, writeVars, fateVars
<1>1. OneOwner' /\ InOrder'
  BY KeepOwner, KeepOrder, Zenon DEF CloseCalled, CloseMark, CloseDefrag, CloseBuf
<1>2. CASE CloseCalled(g)
  <2>1. LifeTyped' /\ ClosedFirst'
    BY <1>2, CloserMoves, Zenon DEF CloseCalled, LifeTyped
  <2> QED
    BY <1>1, <1>2, <2>1, Frames, Zenon DEF CloseCalled
<1>3. CASE CloseMark(g)
  <2>1. LifeTyped' /\ ClosedFirst'
    BY <1>3, CloserMoves, Zenon DEF CloseMark, LifeTyped
  <2>2. SessTyped'
    BY <1>3, Zenon DEF CloseMark, SessTyped
  <2>3. MuTyped' /\ DrainedFirst'
    BY <1>3, Zenon DEF CloseMark, MuTyped, DrainedFirst
  <2> QED
    BY <1>1, <1>3, <2>1, <2>2, <2>3, Frames, Zenon DEF CloseMark
<1>4. CASE CloseDefrag(g)
  <2>1. LifeTyped' /\ ClosedFirst'
    BY <1>4, CloserMoves, Zenon DEF CloseDefrag, LifeTyped, ClosedFirst
  <2>2. SessTyped'
    BY <1>4, Zenon DEF CloseDefrag, SessTyped
  <2> QED
    BY <1>1, <1>4, <2>1, <2>2, Frames, Zenon DEF CloseDefrag
<1>5. CASE CloseBuf(g)
  <2>1. LifeTyped' /\ ClosedFirst'
    BY <1>5, CloserMoves, Zenon DEF CloseBuf, LifeTyped
  <2>2. WriteTyped' /\ WriteOwnsBuffer'
    BY <1>5, Zenon DEF CloseBuf, WriteTyped, WriteOwnsBuffer
  <2> QED
    BY <1>1, <1>5, <2>1, <2>2, Frames, Zenon DEF CloseBuf
<1> QED
  BY <1>2, <1>3, <1>4, <1>5, Zenon

\* ReceiveCh is closed and what it holds goes back to the pool.
LEMMA CloseChanStep ==
  ASSUME Setting, UdpInv, NEW g \in AllClosers, CloseChan(g)
  PROVE  UdpInv'
<1> USE DEF UdpInv, TypeOK, routeVars, workVars, regVars, readVars, sessVars, lifeVars, writeVars, fateVars
<1>1. /\ chan' = <<>> /\ released' = released \cup ToSet(chan)
      /\ UNCHANGED <<arrived, inRouter, queue, worker, inWorker, reg, inReg, calls, inReader, taken>>
  BY Zenon DEF CloseChan, Release
<1>2. ToSet(chan) \subseteq Msgs
  BY DEF SessTyped, ToSet
<1>3. ToSet(chan)' = {} /\ Sorted(chan)' /\ chan' \in Seq(Msgs) /\ Len(chan') = 0
  BY <1>1, EmptySeq, Zenon
<1>4. LifeTyped' /\ ClosedFirst'
  BY CloserMoves, Zenon DEF CloseChan, LifeTyped, ClosedFirst
<1>5. SessTyped' /\ FateTyped'
  <2>1. Len(chan') <= ChanCap
    BY <1>3 DEF Setting
  <2> QED
    BY <1>1, <1>2, <1>3, <2>1, Zenon DEF CloseChan, SessTyped, FateTyped
<1>6. Moves("chan", "released", ToSet(chan))
  BY <1>1, <1>3, OwnsIs, OwnsNext, Zenon DEF Moves, Still
<1>7. \A k \in 1..7 : \A m \in Msgs : At(k, m)' => At(k, m)
  BY <1>1, <1>3, Zenon DEF At
<1>8. OneOwner'
  BY <1>6, MoveKeepsOwner, Zenon DEF Places
<1>9. InOrder'
  BY <1>7, StayInOrder, Zenon
<1>10. DrainedFirst' /\ NoSendOnClosed'
  BY <1>1, Zenon DEF DrainedFirst, NoSendOnClosed
<1> QED
  BY <1>1, <1>3, <1>4, <1>5, <1>8, <1>9, <1>10, Frames, Zenon DEF CloseChan

\* Every step, and stuttering.
LEMMA UdpStep ==
  ASSUME Setting, UdpInv, [Next]_vars
  PROVE  UdpInv'
<1>1. CASE UNCHANGED vars
  BY <1>1, Frames, KeepOwner, KeepOrder, Zenon
     DEF vars, UdpInv, TypeOK, routeVars, workVars, regVars, readVars, sessVars, lifeVars, writeVars, fateVars
<1>2. CASE TunnelDies \/ RouterStep \/ WorkerStep
  BY <1>2, StillSteps, ReceiveStep, DispatchStep, TakeStep, ExitStep, LookupSteps, FeedStep, CalledStep, QueueStep,
     Zenon
     DEF RouterStep, WorkerStep
<1>3. ASSUME NEW r \in Registrars, Register(r) \/ RegStep(r) \/ Unregister(r)
      PROVE  UdpInv'
  BY <1>3, RegisterSteps, DrainStep, RegFeedSteps, Zenon DEF RegStep
<1>4. CASE Read \/ ReadStep \/ Write \/ WriteEnds
  BY <1>4, StillSteps, ReadSteps, Zenon DEF ReadStep
<1>5. ASSUME NEW g \in AllClosers, CloseCalled(g) \/ CloseStep(g)
      PROVE  UdpInv'
  BY <1>5, CloseSteps, CloseChanStep, Zenon DEF CloseStep
<1> QED
  BY <1>1, <1>2, <1>3, <1>4, <1>5, Zenon DEF Next

-----------------------------------------------------------------------------
(* The theorems                                                            *)

\* However router, worker, registrations, readers and closers interleave, a message is
\* with one owner and, on its way to a receiver, behind every message that arrived before
\* it (udp.go: deliverMu, queueIfNoReceiver, closeLocked).
THEOREM UdpInvariant ==
  ASSUME Setting
  PROVE  Spec => []UdpInv
<1>1. ASSUME Init
      PROVE  UdpInv
  <2>1. RouteTyped /\ SessTyped
    <3>1. 0 \in 0..Messages /\ 0 <= QueueCap /\ 0 <= ChanCap
      BY DEF Setting
    <3> QED
      BY <1>1, <3>1, EmptySeq, Zenon DEF Init, RouteTyped, SessTyped
  <2>2. WorkTyped /\ RegTyped /\ ReadTyped /\ WriteTyped /\ FateTyped /\ MuTyped /\ LifeTyped
    BY <1>1, EmptySeq, Zenon DEF Init, WorkTyped, RegTyped, ReadTyped, WriteTyped, FateTyped, MuTyped, LifeTyped
  <2>3. Sorted(queue) /\ Sorted(chan) /\ Sorted(calls) /\ ToSet(queue) = {} /\ ToSet(chan) = {} /\ ToSet(calls) = {}
    BY <1>1, EmptySeq, Zenon DEF Init
  <2>4. OneOwner
    <3>1. \A m \in Msgs : \A q \in Places : Owns(q, m) <=> q = "tunnel"
      BY <1>1, <2>3, MessagesAreNumbers DEF Init, Owns, Places, Msgs
    <3> QED
      BY <3>1, Zenon DEF OneOwner, Places
  <2>5. InOrder
    <3>1. \A k \in 1..7 : \A m \in Msgs : At(k, m) => k = 7
      BY <1>1, <2>3, MessagesAreNumbers, Zenon DEF Init, At
    <3> QED
      BY <3>1 DEF InOrder
  <2>6. DeliverMuHeld
    BY <1>1, Zenon DEF Init, DeliverMuHeld, Setting
  <2>7. DrainedFirst /\ ClosedFirst /\ NoSendOnClosed /\ WriteOwnsBuffer
    BY <1>1, Zenon DEF Init, DrainedFirst, ClosedFirst, NoSendOnClosed, WriteOwnsBuffer
  <2> QED
    BY <2>1, <2>2, <2>3, <2>4, <2>5, <2>6, <2>7, Zenon DEF UdpInv, TypeOK
<1>2. UdpInv /\ [Next]_vars => UdpInv'
  BY UdpStep, Zenon
<1> QED
  BY <1>1, <1>2, PTL DEF Spec

\* The buffer of every message has one owner, receivers are called in the order of
\* arrival, nothing is sent on a closed ReceiveCh and no write serializes into a released
\* SendBuf, for any number of messages, registrations and closers.
THEOREM DatagramsInOrder ==
  ASSUME Setting
  PROVE  Spec => []MessagesInOrder
<1>1. ASSUME UdpInv
      PROVE  HeldOnce
  <2> USE <1>1 DEF UdpInv, TypeOK
  <2>1. queue \in Seq(Msgs) /\ Sorted(queue) /\ chan \in Seq(Msgs) /\ Sorted(chan)
    BY Zenon DEF RouteTyped, SessTyped
  <2>2. /\ \A i, j \in 1..Len(queue) : queue[i] = queue[j] => i = j
        /\ \A i, j \in 1..Len(chan) : chan[i] = chan[j] => i = j
    BY <2>1, SortedOnce, Zenon
  <2>3. ASSUME NEW r \in Registrars, NEW s \in Registrars, inReg[r] = inReg[s], inReg[r] # Nobody
        PROVE  r = s
    BY <2>3, Zenon DEF RegTyped, DeliverMuHeld
  <2> QED
    BY <2>2, <2>3, Zenon DEF HeldOnce
<1>2. UdpInv => MessagesInOrder
  BY <1>1, Zenon DEF UdpInv, MessagesInOrder, BufferHasOneOwner, ReceiverOrder
<1> QED
  BY <1>2, UdpInvariant, PTL
=============================================================================
