------------------------------- MODULE GrpcConn -------------------------------
(***************************************************************************)
(* transport/grpc.ClientConn: a byte stream over a gRPC stream of hunks.   *)
(* One receive pump and one sender goroutine own the gRPC calls, which     *)
(* cannot be aborted; Read, Write, Close, the deadline setters and the     *)
(* deadline timers meet them over channels and contexts.  The directions   *)
(* share nothing but Close: side picks the one a behaviour is about.  The  *)
(* deadline and Close are those of connection 1; connection 2 writes too.  *)
(***************************************************************************)
EXTENDS Integers, Sequences, FiniteSets

CONSTANTS Hunks,      \* sizes of the hunks the server sends
          Caps,       \* buffer sizes of Read
          Writers, ConnOf,           \* callers of Write, the connection (1, 2) of each
          MaxWrites, Requests,       \* calls, pooled sendRequests
          MaxTimers

VARIABLES side, closed, streamDone,          \* c.ctx, the stream's context (closer)
          slot, timers, ctx, expired, lastSet,  \* one direction's deadline
          arrived, pump, recvCh, buf, recvErr, got, rpc,
          wpc, free, done, sendCh, sender, sent, told, writes, lock

vars == <<side, closed, streamDone, slot, timers, ctx, expired, lastSet, arrived, pump, recvCh, buf,
          recvErr, got, rpc, wpc, free, done, sendCh, sender, sent, told, writes, lock>>

dead == <<slot, timers, ctx, expired, lastSet>>
recv == <<arrived, pump, recvCh, buf, recvErr, got, rpc>>
send == <<wpc, free, done, sendCh, sender, sent, told, writes, lock>>

None == 0
NoReq == "none"

Init ==
  /\ side \in {"read", "write"} /\ closed = FALSE /\ streamDone = <<FALSE, FALSE>>
  /\ slot = None /\ timers = <<>> /\ ctx = 1 /\ expired = {} /\ lastSet = "none"
  /\ arrived = 0 /\ pump = <<>> /\ recvCh = <<>> /\ buf = <<>> /\ recvErr = FALSE /\ got = <<>> /\ rpc = "idle"
  /\ wpc = [w \in Writers |-> [pc |-> "idle", ctx |-> 0, req |-> NoReq, data |-> 0]]
  /\ free = Requests /\ done = [q \in Requests |-> <<>>] /\ sendCh = <<<<>>, <<>>>> /\ sender = <<<<>>, <<>>>>
  /\ sent = <<>> /\ told = {} /\ writes = 0 /\ lock = <<NoReq, NoReq>>

(***************************************************************************)
(* setDeadlineLocked and the timer callbacks                               *)
(***************************************************************************)
Stopped == IF slot # None /\ timers[slot].state = "armed" THEN [timers EXCEPT ![slot].state = "gone"] ELSE timers
Renewed == IF ctx \in expired THEN ctx + 1 ELSE ctx

SetPast ==
  /\ ctx \notin expired /\ ctx <= MaxTimers
  /\ timers' = Stopped /\ slot' = None /\ expired' = expired \cup {ctx} /\ lastSet' = "past" /\ UNCHANGED ctx
  /\ UNCHANGED <<side, closed, streamDone, recv, send>>

SetZero ==
  /\ slot # None \/ ctx \in expired
  /\ timers' = Stopped /\ slot' = None /\ ctx' = Renewed /\ lastSet' = "none" /\ UNCHANGED expired
  /\ UNCHANGED <<side, closed, streamDone, recv, send>>

SetFuture ==
  /\ Len(timers) < MaxTimers
  /\ ctx' = Renewed
  /\ timers' = Append(Stopped, [state |-> "armed", ctx |-> ctx']) /\ slot' = Len(timers')
  /\ lastSet' = "future" /\ UNCHANGED expired
  /\ UNCHANGED <<side, closed, streamDone, recv, send>>

\* The callback is started and waits for deadlineMu.
TimerFires ==
  /\ \E i \in 1 .. Len(timers) : timers[i].state = "armed" /\ timers' = [timers EXCEPT ![i].state = "fired"]
  /\ UNCHANGED <<side, closed, streamDone, slot, ctx, expired, lastSet, recv, send>>

\* It cancels the context it was made for, unless the slot holds another timer by now.
Callback ==
  /\ \E i \in 1 .. Len(timers) :
       /\ timers[i].state = "fired" /\ timers' = [timers EXCEPT ![i].state = "gone"]
       /\ expired' = IF slot = i THEN expired \cup {timers[i].ctx} ELSE expired
       /\ lastSet' = IF slot = i THEN "past" ELSE lastSet
  /\ UNCHANGED <<side, closed, streamDone, slot, ctx, recv, send>>

Close ==
  /\ ~closed /\ closed' = TRUE /\ streamDone' = [streamDone EXCEPT ![1] = TRUE]
  /\ timers' = Stopped /\ slot' = None
  /\ UNCHANGED <<side, ctx, expired, lastSet, recv, send>>

(***************************************************************************)
(* The receive pump and Read                                               *)
(***************************************************************************)
Units(h) == [i \in 1 .. Hunks[h] |-> <<h, i>>]

\* tun.Recv: the next hunk, or the end of the stream (recorded as hunk 0).
Recv ==
  /\ side = "read" /\ pump = <<>> /\ arrived <= Len(Hunks)
  /\ IF streamDone[1] \/ arrived = Len(Hunks) THEN pump' = <<0>> /\ arrived' = Len(Hunks) + 1
     ELSE pump' = <<arrived + 1>> /\ arrived' = arrived + 1
  /\ UNCHANGED <<side, closed, streamDone, dead, recvCh, buf, recvErr, got, rpc, send>>

PumpPuts ==
  /\ pump # <<>> /\ recvCh = <<>> /\ recvCh' = pump /\ pump' = <<>>
  /\ UNCHANGED <<side, closed, streamDone, dead, arrived, buf, recvErr, got, rpc, send>>

PumpQuits ==
  /\ pump # <<>> /\ closed /\ pump' = <<>> /\ arrived' = Len(Hunks) + 1
  /\ UNCHANGED <<side, closed, streamDone, dead, recvCh, buf, recvErr, got, rpc, send>>

\* Read gets past its first checks, and holds muReading.
ReadEnters ==
  /\ side = "read" /\ rpc = "idle" /\ ctx \notin expired /\ ~closed
  /\ rpc' = "locked"
  /\ UNCHANGED <<side, closed, streamDone, dead, arrived, pump, recvCh, buf, recvErr, got, send>>

Give(data, p) ==
  LET n == IF p < Len(data) THEN p ELSE Len(data)
  IN  got' = got \o SubSeq(data, 1, n) /\ buf' = SubSeq(data, n + 1, Len(data))

ReadSticky ==
  /\ rpc = "locked" /\ recvErr /\ rpc' = "idle"
  /\ UNCHANGED <<side, closed, streamDone, dead, arrived, pump, recvCh, buf, recvErr, got, send>>

ReadBuffered(p) ==
  /\ rpc = "locked" /\ ~recvErr /\ buf # <<>>
  /\ Give(buf, p) /\ rpc' = "idle"
  /\ UNCHANGED <<side, closed, streamDone, dead, arrived, pump, recvCh, recvErr, send>>

ReadHunk(p) ==
  /\ rpc = "locked" /\ ~recvErr /\ buf = <<>> /\ recvCh # <<>>
  /\ recvCh' = <<>> /\ rpc' = "idle"
  /\ IF recvCh[1] = 0 THEN recvErr' = TRUE /\ UNCHANGED <<got, buf>>
     ELSE Give(Units(recvCh[1]), p) /\ UNCHANGED recvErr
  /\ UNCHANGED <<side, closed, streamDone, dead, arrived, pump, send>>

\* The deadline or Close ends the wait; the hunk in flight stays with the pump.
ReadGivesUp ==
  /\ rpc = "locked" /\ ~recvErr /\ buf = <<>> /\ (ctx \in expired \/ closed)
  /\ rpc' = "idle"
  /\ UNCHANGED <<side, closed, streamDone, dead, arrived, pump, recvCh, buf, recvErr, got, send>>

(***************************************************************************)
(* Write and the sender.  The requests are pooled over all connections;    *)
(* muWriting, the sender and its channel belong to one.                    *)
(***************************************************************************)
Idle == [pc |-> "idle", ctx |-> 0, req |-> NoReq, data |-> 0]
Dead(w) == (ConnOf[w] = 1 /\ closed) \/ wpc[w].ctx \in expired

WriteEnters(w) ==
  /\ side = "write" /\ wpc[w].pc = "idle" /\ writes < MaxWrites
  /\ ConnOf[w] = 1 => ctx \notin expired /\ ~closed
  /\ writes' = writes + 1 /\ wpc' = [wpc EXCEPT ![w].pc = "lock", ![w].data = writes + 1]
  /\ UNCHANGED <<side, closed, streamDone, dead, recv, free, done, sendCh, sender, sent, told, lock>>

Prepared(w, q) == [wpc EXCEPT ![w].pc = "handoff", ![w].ctx = IF ConnOf[w] = 1 THEN ctx ELSE 0, ![w].req = q]

\* muWriting is taken and the context refreshed; a recycled request may still hold the
\* result of the Send its last writer gave up on.
WriteLocks(w) ==
  /\ wpc[w].pc = "lock" /\ lock[ConnOf[w]] = NoReq /\ lock' = [lock EXCEPT ![ConnOf[w]] = w]
  /\ \E q \in free : wpc' = Prepared(w, q) /\ free' = free \ {q} /\ done' = [done EXCEPT ![q] = <<>>]
  /\ UNCHANGED <<side, closed, streamDone, dead, recv, sendCh, sender, sent, told, writes>>

Handoff(w) ==
  /\ wpc[w].pc = "handoff" /\ sendCh[ConnOf[w]] = <<>>
  /\ sendCh' = [sendCh EXCEPT ![ConnOf[w]] = <<[req |-> wpc[w].req, data |-> wpc[w].data]>>]
  /\ wpc' = [wpc EXCEPT ![w].pc = "wait"]
  /\ UNCHANGED <<side, closed, streamDone, dead, recv, free, done, sender, sent, told, writes, lock>>

\* A write deadline is terminal: it cancels the stream.
Leaves(w) ==
  /\ streamDone' = [streamDone EXCEPT ![ConnOf[w]] = @ \/ wpc[w].ctx \in expired]
  /\ lock' = [lock EXCEPT ![ConnOf[w]] = NoReq] /\ wpc' = [wpc EXCEPT ![w] = Idle]

HandoffGivesUp(w) ==
  /\ wpc[w].pc = "handoff" /\ Dead(w) /\ Leaves(w)
  /\ free' = free \cup {wpc[w].req}
  /\ UNCHANGED <<side, closed, dead, recv, done, sendCh, sender, sent, told, writes>>

WaitGivesUp(w) ==
  /\ wpc[w].pc = "wait" /\ Dead(w) /\ Leaves(w)
  /\ UNCHANGED <<side, closed, dead, recv, free, done, sendCh, sender, sent, told, writes>>

WaitAnswered(w) ==
  /\ wpc[w].pc = "wait" /\ done[wpc[w].req] # <<>>
  /\ done' = [done EXCEPT ![wpc[w].req] = <<>>]
  /\ told' = IF done[wpc[w].req][1] = "ok" THEN told \cup {wpc[w].data} ELSE told
  /\ lock' = [lock EXCEPT ![ConnOf[w]] = NoReq] /\ wpc' = [wpc EXCEPT ![w] = Idle]
  /\ UNCHANGED <<side, closed, streamDone, dead, recv, free, sendCh, sender, sent, writes>>

SenderTakes(c) ==
  /\ sender[c] = <<>> /\ sendCh[c] # <<>>
  /\ sender' = [sender EXCEPT ![c] = sendCh[c]] /\ sendCh' = [sendCh EXCEPT ![c] = <<>>]
  /\ UNCHANGED <<side, closed, streamDone, dead, recv, wpc, free, done, sent, told, writes, lock>>

\* tun.Send: taken whole, or refused; a stream that ended takes nothing more.
SendReturns(c) ==
  /\ sender[c] # <<>> /\ sender[c][1].data # 0
  /\ done[sender[c][1].req] = <<>>
  /\ \E ok \in BOOLEAN :
       /\ ok => ~streamDone[c]
       /\ sent' = IF ok THEN Append(sent, sender[c][1].data) ELSE sent
       /\ done' = [done EXCEPT ![sender[c][1].req] = <<IF ok THEN "ok" ELSE "err">>]
       /\ streamDone' = [streamDone EXCEPT ![c] = @ \/ ~ok]
  /\ sender' = [sender EXCEPT ![c][1].data = 0]
  /\ UNCHANGED <<side, closed, dead, recv, wpc, free, sendCh, told, writes, lock>>

SenderRecycles(c) ==
  /\ sender[c] # <<>> /\ sender[c][1].data = 0
  /\ free' = free \cup {sender[c][1].req} /\ sender' = [sender EXCEPT ![c] = <<>>]
  /\ UNCHANGED <<side, closed, streamDone, dead, recv, wpc, done, sendCh, sent, told, writes, lock>>

Next ==
  \/ SetPast \/ SetZero \/ SetFuture \/ TimerFires \/ Callback \/ Close
  \/ Recv \/ PumpPuts \/ PumpQuits \/ ReadEnters \/ ReadSticky \/ ReadGivesUp
  \/ \E p \in Caps : ReadBuffered(p) \/ ReadHunk(p)
  \/ \E w \in Writers : WriteEnters(w) \/ WriteLocks(w) \/ Handoff(w) \/ HandoffGivesUp(w) \/ WaitGivesUp(w) \/ WaitAnswered(w)
  \/ \E c \in 1 .. 2 : SenderTakes(c) \/ SendReturns(c) \/ SenderRecycles(c)

Spec == Init /\ [][Next]_vars

\* The current context is cancelled only by the deadline set last: a timer that had
\* fired before it was replaced cancels no later I/O.
ExpiryIsCurrent == ctx \in expired => lastSet = "past"

\* The bytes read are a prefix of the stream, and what is still to be read follows
\* without a gap: a Read that gives up at its deadline loses no hunk.
RECURSIVE Stream(_)
Stream(hs) == IF hs = <<>> THEN <<>> ELSE (IF Head(hs) = 0 THEN <<>> ELSE Units(Head(hs))) \o Stream(Tail(hs))
NoHunkLost ==
  ~closed => got \o buf \o Stream(recvCh \o pump)
             = Stream([i \in 1 .. (IF arrived > Len(Hunks) THEN Len(Hunks) ELSE arrived) |-> i])

\* A Write reports success only for bytes the stream took, by its own Send, and each
\* write is sent at most once.
OwnSend ==
  /\ told \subseteq {sent[i] : i \in 1 .. Len(sent)}
  /\ \A i, j \in 1 .. Len(sent) : i # j => sent[i] # sent[j]
=============================================================================
