----------------------------- MODULE PacketBatch -----------------------------
(***************************************************************************)
(* WriteBatch of the UDP wrappers (shadowsocks, shadowsocks_2022,          *)
(* shadowsocks_stream in both modes, socks5) and of the direct socket.     *)
(* Several goroutines write through one conn: they share its target cache  *)
(* and the buffer pool.  A sealed datagram is the content of its buffer at *)
(* the moment the underlay sends it; a buffer that went back to the pool   *)
(* may be another writer's by then.                                        *)
(***************************************************************************)
EXTENDS Integers, Sequences, FiniteSets

CONSTANTS Writers, Conns,       \* "ss", "ss2022", "stream", "transport", "socks", "direct"
                                \* (the first three alike)
          Batches,              \* the address sequences a call may carry
          BadAddr,              \* an address that does not parse
          CacheSize, MaxCalls, Buffers

VARIABLES kind, batched, cache, free, mem, w, wire, calls, results

vars == <<kind, batched, cache, free, mem, w, wire, calls, results>>

Idle == [pc |-> "idle", call |-> 0, items |-> <<>>, i |-> 1, addrs |-> <<>>, bufs |-> <<>>, sent |-> 0]

Init ==
  /\ kind \in Conns /\ batched \in BOOLEAN /\ (kind = "direct" => batched)
  /\ cache = {} /\ free = <<>> /\ mem = [b \in Buffers |-> <<>>]
  /\ w = [x \in Writers |-> Idle] /\ wire = <<>> /\ calls = 0 /\ results = {}

Target(addr) == <<"target", addr>>
Least(S) == CHOOSE b \in S : \A c \in S : b <= c
NoBuffer == 0            \* a slot of the batch whose buffer was put back
Buf(x) == {w[x].bufs[i] : i \in DOMAIN w[x].bufs} \ {NoBuffer}
InUse == UNION {Buf(x) : x \in Writers}
InPool == {free[i] : i \in DOMAIN free}

\* pool.Get: the last buffer put back, or a new one.
Get == IF free # <<>> THEN free[Len(free)] ELSE Least(Buffers \ InUse)
AfterGet == IF free # <<>> THEN SubSeq(free, 1, Len(free) - 1) ELSE free

\* socks5 without a batched underlay writes item by item, resolving as it goes.
OneByOne == kind = "socks" /\ ~batched
\* The direct socket hands the caller's own buffers to sendmmsg.
Seals == kind # "direct"

\* socks5 resolves and encapsulates item by item, the others resolve every
\* address before they seal; a transport-mode conn resolves none.
FirstStep == IF kind = "transport" THEN "seal" ELSE "resolve"

Call(x, items) ==
  /\ w[x].pc = "idle" /\ calls < MaxCalls
  /\ calls' = calls + 1
  /\ w' = [w EXCEPT ![x] = [Idle EXCEPT !.pc = FirstStep, !.call = calls + 1, !.items = items]]
  /\ UNCHANGED <<kind, batched, cache, free, mem, wire, results>>

Return(x, n, failed) ==
  results' = results \union {[call |-> w[x].call, items |-> w[x].items, n |-> n, failed |-> failed]}

Resolved(x, target) ==
  LET r == w[x] last == r.i = Len(r.items) IN
  w' = [w EXCEPT ![x] =
         [r EXCEPT !.addrs = Append(@, target),
                   !.i = IF kind = "socks" THEN r.i ELSE IF last THEN 1 ELSE r.i + 1,
                   !.pc = IF kind = "socks" THEN "seal" ELSE IF ~last THEN "resolve"
                          ELSE IF Seals THEN "seal" ELSE "send"]]

Addr(x) == w[x].items[w[x].i]

\* LastStringValue.Load, or the direct socket's cached targets.
ResolveHit(x) ==
  /\ w[x].pc = "resolve"
  /\ \E c \in cache : c[1] = Addr(x) /\ Resolved(x, c[2])
  /\ UNCHANGED <<kind, batched, cache, free, mem, wire, calls, results>>

ResolveMiss(x) ==
  /\ w[x].pc = "resolve" /\ Addr(x) # BadAddr /\ \A c \in cache : c[1] # Addr(x)
  /\ w' = [w EXCEPT ![x].pc = "store"]
  /\ UNCHANGED <<kind, batched, cache, free, mem, wire, calls, results>>

PutAll(s) == free \o SelectSeq(s, LAMBDA b : b # NoBuffer)

\* A pre-send failure: whatever is sealed goes back, nothing was sent (one by
\* one, the earlier items were).
ResolveFails(x) ==
  /\ w[x].pc = "resolve" /\ Addr(x) = BadAddr
  /\ free' = PutAll(w[x].bufs)
  /\ Return(x, w[x].sent, TRUE) /\ w' = [w EXCEPT ![x] = Idle]
  /\ UNCHANGED <<kind, batched, cache, mem, wire, calls>>

\* The wrappers remember one target, the direct socket CacheSize of them and
\* drops an arbitrary one when full.
Store(x) ==
  /\ w[x].pc = "store"
  /\ LET new == <<Addr(x), Target(Addr(x))>> IN
     /\ IF kind # "direct" THEN cache' = {new}
        ELSE IF Cardinality(cache) < CacheSize THEN cache' = cache \union {new}
        ELSE \E victim \in cache : cache' = (cache \ {victim}) \union {new}
     /\ Resolved(x, new[2])
  /\ UNCHANGED <<kind, batched, free, mem, wire, calls, results>>

Content(x) == <<w[x].call, w[x].i, IF kind = "transport" THEN <<>> ELSE w[x].addrs[w[x].i]>>

\* sealToPool: a pool buffer of the datagram's own.
Seal(x) ==
  /\ w[x].pc = "seal"
  /\ LET b == Get last == OneByOne \/ w[x].i = Len(w[x].items) IN
     /\ free' = AfterGet /\ mem' = [mem EXCEPT ![b] = Content(x)]
     /\ w' = [w EXCEPT ![x].bufs = Append(@, b),
                       ![x].pc = IF last THEN "send" ELSE IF kind = "socks" THEN "resolve" ELSE "seal",
                       ![x].i = IF OneByOne THEN @ ELSE IF last THEN 1 ELSE @ + 1]
  /\ UNCHANGED <<kind, batched, cache, wire, calls, results>>

SealFails(x) ==
  /\ w[x].pc = "seal" /\ kind # "socks"
  /\ free' = PutAll(w[x].bufs)
  /\ Return(x, 0, TRUE) /\ w' = [w EXCEPT ![x] = Idle]
  /\ UNCHANGED <<kind, batched, cache, mem, wire, calls>>

OnWire(x, i) ==
  IF Seals THEN mem[w[x].bufs[i]] ELSE <<w[x].call, i, w[x].addrs[i]>>

\* The underlay's WriteBatch is entered with the sealed batch ...
SendBatch(x) ==
  /\ w[x].pc = "send" /\ batched
  /\ w' = [w EXCEPT ![x].pc = "sending"]
  /\ UNCHANGED <<kind, batched, cache, free, mem, wire, calls, results>>

\* ... sends the first n datagrams, and only then are the buffers put back.
SendBatchEnds(x, n) ==
  /\ w[x].pc = "sending"
  /\ wire' = wire \o [i \in 1 .. n |-> OnWire(x, i)]
  /\ free' = PutAll(w[x].bufs)
  /\ Return(x, n, n < Len(w[x].items)) /\ w' = [w EXCEPT ![x] = Idle]
  /\ UNCHANGED <<kind, batched, cache, mem, calls>>

\* Without a batched underlay each datagram is sent and its buffer put back;
\* after an error the buffers of the remaining ones are left to the collector.
SendOne(x, ok) ==
  /\ w[x].pc = "send" /\ ~batched
  /\ LET r == w[x] b == r.bufs[r.i] IN
     /\ wire' = IF ok THEN Append(wire, mem[b]) ELSE wire
     /\ w' = [w EXCEPT ![x].pc = "put", ![x].sent = IF ok THEN @ + 1 ELSE @]
  /\ UNCHANGED <<kind, batched, cache, free, mem, calls, results>>

PutOne(x) ==
  /\ w[x].pc = "put"
  /\ LET r == w[x] ok == r.sent = r.i done == r.sent = Len(r.items) IN
     /\ free' = Append(free, r.bufs[r.i])
     /\ IF done \/ ~ok
        THEN Return(x, r.sent, ~ok) /\ w' = [w EXCEPT ![x] = Idle]
        ELSE /\ w' = [w EXCEPT ![x].i = @ + 1, ![x].bufs[r.i] = NoBuffer,
                               ![x].pc = IF OneByOne THEN "resolve" ELSE "send"]
             /\ UNCHANGED results
  /\ UNCHANGED <<kind, batched, cache, mem, wire, calls>>

Next ==
  \E x \in Writers :
    \/ \E items \in Batches : Call(x, items)
    \/ ResolveHit(x) \/ ResolveMiss(x) \/ ResolveFails(x) \/ Store(x)
    \/ Seal(x) \/ SealFails(x) \/ SendBatch(x)
    \/ \E n \in 0 .. Len(w[x].items) : SendBatchEnds(x, n)
    \/ \E ok \in BOOLEAN : SendOne(x, ok)
    \/ PutOne(x)

Spec == Init /\ [][Next]_vars

-----------------------------------------------------------------------------
SentBy(call) == SelectSeq(wire, LAMBDA d : d[1] = call)

\* n is the number of datagrams of the call that left, they left in order,
\* each with its own payload and its own target: a failed call that sent
\* nothing reports 0, whatever other writers did to the cache and the pool.
CountIsWhatLeft ==
  \A r \in results :
    LET s == SentBy(r.call) IN
    /\ Len(s) = r.n /\ (~r.failed => r.n = Len(r.items))
    /\ \A i \in DOMAIN s :
         s[i] = <<r.call, i, IF kind = "transport" THEN <<>> ELSE Target(r.items[i])>>

\* No buffer is in the pool while a writer still uses it, or there twice.
BufferHasOneUser ==
  /\ InPool \intersect InUse = {} /\ Cardinality(InPool) = Len(free)
  /\ \A x, y \in Writers : x # y => Buf(x) \intersect Buf(y) = {}
=============================================================================
