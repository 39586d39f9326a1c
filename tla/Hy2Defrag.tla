------------------------------ MODULE Hy2Defrag ------------------------------
(***************************************************************************)
(* Fragmentation and reassembly of Hysteria2 UDP messages                  *)
(* (protocol/hysteria2/internal/frag/frag.go, and the send path of         *)
(* writeLocked in client/udp.go that uses it): datagrams are lost,         *)
(* repeated and reordered, and the defragger holds one packet at a time.   *)
(*                                                                         *)
(* The payload of the s-th packet is the sequence of its byte positions    *)
(* <<s, 1>>, <<s, 2>>, ...; its packet ID is s: writeLocked draws IDs at   *)
(* random, and packets in flight together are taken to have different      *)
(* ones.  A delivered datagram has a pooled buffer, named by the number of *)
(* the delivery.                                                           *)
(***************************************************************************)
EXTENDS Integers, Sequences, FiniteSets

CONSTANTS
  Lengths,      \* payload lengths the application writes
  Limits,       \* what a datagram leaves for payload: maxSize - HeaderSize()
  MaxSends,     \* bound: packets sent
  MaxFeeds,     \* bound: datagrams delivered
  None          \* no fragment, no message

VARIABLES
  sends,     \* the fragments of each packet sent
  fed,       \* datagrams delivered so far
  d,         \* the Defragger: pktID, frags, count, size, closed
  out,       \* what the last Feed returned
  releases   \* how often each buffer was released

vars == <<sends, fed, d, out, releases>>

Fragment == [send : 1..MaxSends, id : 0..255, cnt : 0..255, data : Seq((1..MaxSends) \X Nat)]

TypeOK ==
  /\ Len(sends) <= MaxSends
  /\ \A s \in 1..Len(sends) : \A i \in 1..Len(sends[s].frags) : sends[s].frags[i] \in Fragment
  /\ fed \in 0..MaxFeeds
  /\ d.count \in 0..Len(d.frags) /\ d.size \in Nat /\ d.closed \in BOOLEAN
  /\ releases \in [1..MaxFeeds -> Nat]

Init ==
  /\ sends = <<>>
  /\ fed = 0
  /\ d = [pktID |-> 0, frags |-> <<>>, count |-> 0, size |-> 0, closed |-> FALSE]
  /\ out = None
  /\ releases = [b \in 1..MaxFeeds |-> 0]

-----------------------------------------------------------------------------
(* FragUDPMessage                                                          *)

Payload(s, len) == [i \in 1..len |-> <<s, i>>]

RoundUp(len, limit) == (len + limit - 1) \div limit

\* The loop: before its k-th round the offset is (k - 1) * limit.
SplitLoop(s, len, limit) ==
  [k \in 1..RoundUp(len, limit) |->
     LET off == (k - 1) * limit
         size == IF len - off > limit THEN limit ELSE len - off
     IN  [send |-> s, id |-> (k - 1) % 256, cnt |-> RoundUp(len, limit) % 256,
          data |-> SubSeq(Payload(s, len), off + 1, off + size)]]

\* The fragments of a packet; none is the error return.
Fragments(s, len, limit) ==
  IF len <= limit
  THEN <<[send |-> s, id |-> 0, cnt |-> 1, data |-> Payload(s, len)]>>
  ELSE IF limit <= 0 \/ RoundUp(len, limit) > 255 THEN <<>> ELSE SplitLoop(s, len, limit)

Send(len, limit) ==
  /\ Len(sends) < MaxSends
  /\ LET s == Len(sends) + 1
     IN  sends' = Append(sends, [len |-> len, limit |-> limit, frags |-> Fragments(s, len, limit)])
  /\ UNCHANGED <<fed, d, out, releases>>

-----------------------------------------------------------------------------
(* Defragger                                                               *)

Held(frags) == {frags[i].buf : i \in {j \in 1..Len(frags) : frags[j] # None}}

\* releaseHeld on top of the release of the buffers bs.
ReleaseAll(bs) == releases' = [b \in 1..MaxFeeds |-> releases[b] + IF b \in bs THEN 1 ELSE 0]

Cleared == [d EXCEPT !.frags = <<>>, !.count = 0, !.size = 0]

Assemble(frags) ==
  LET cat[i \in 0..Len(frags)] == IF i = 0 THEN <<>> ELSE cat[i - 1] \o frags[i].data
  IN  cat[Len(frags)]

FeedClosed(m) ==
  /\ d.closed
  /\ ReleaseAll({m.buf})
  /\ out' = None
  /\ UNCHANGED d

FeedWhole(m) ==
  /\ ~d.closed
  /\ m.cnt <= 1
  /\ out' = [buf |-> m.buf, data |-> m.data]
  /\ UNCHANGED <<d, releases>>

\* Another packet: what is held of the previous one is released.
FeedNew(m) ==
  /\ ~d.closed
  /\ m.cnt > 1 /\ m.id < m.cnt
  /\ m.send # d.pktID \/ m.cnt # Len(d.frags)
  /\ ReleaseAll(Held(d.frags))
  /\ d' = [d EXCEPT !.pktID = m.send, !.count = 1, !.size = Len(m.data),
                    !.frags = [i \in 1..m.cnt |-> IF i = m.id + 1 THEN m ELSE None]]
  /\ out' = None

\* Mutant of Missing: the packet ID is not compared.
MissingAnyID(m) ==
  /\ ~d.closed
  /\ m.cnt > 1 /\ m.id < m.cnt
  /\ m.cnt = Len(d.frags)
  /\ d.frags[m.id + 1] = None

Missing(m) ==
  /\ ~d.closed
  /\ m.cnt > 1 /\ m.id < m.cnt
  /\ m.send = d.pktID /\ m.cnt = Len(d.frags)
  /\ d.frags[m.id + 1] = None

FeedMore(m) ==
  /\ Missing(m)
  /\ d.count + 1 < Len(d.frags)
  /\ d' = [d EXCEPT !.frags[m.id + 1] = m, !.count = @ + 1, !.size = @ + Len(m.data)]
  /\ out' = None
  /\ UNCHANGED releases

\* The packet is complete: its bytes are copied, every buffer is released and
\* the message returned has no Release of its own.
FeedLast(m) ==
  /\ Missing(m)
  /\ d.count + 1 = Len(d.frags)
  /\ LET frags == [d.frags EXCEPT ![m.id + 1] = m]
     IN  /\ ReleaseAll(Held(frags))
         /\ out' = [buf |-> None, data |-> Assemble(frags)]
  /\ d' = Cleared

FeedDuplicate(m) ==
  /\ ~d.closed
  /\ m.cnt > 1 /\ m.id < m.cnt
  /\ m.send = d.pktID /\ m.cnt = Len(d.frags)
  /\ d.frags[m.id + 1] # None
  /\ ReleaseAll({m.buf})
  /\ out' = None
  /\ UNCHANGED d

Feed(m) == \/ FeedClosed(m) \/ FeedWhole(m) \/ FeedNew(m) \/ FeedMore(m)
           \/ FeedLast(m) \/ FeedDuplicate(m)

\* A datagram with a fragment ID beyond its count.
FeedMalformed ==
  /\ fed < MaxFeeds
  /\ fed' = fed + 1
  /\ ReleaseAll({fed + 1})
  /\ out' = None
  /\ UNCHANGED <<sends, d>>

\* The network delivers any fragment of any packet, any number of times.
Deliver ==
  /\ fed < MaxFeeds
  /\ fed' = fed + 1
  /\ \E s \in 1..Len(sends) : \E i \in 1..Len(sends[s].frags) :
       LET f == sends[s].frags[i]
       IN  Feed([buf |-> fed + 1, send |-> f.send, id |-> f.id, cnt |-> f.cnt, data |-> f.data])
  /\ UNCHANGED sends

\* The consumer is through with the message: the buffer it came in goes back.
Consume ==
  /\ out # None
  /\ out' = None
  /\ ReleaseAll({out.buf})
  /\ UNCHANGED <<sends, fed, d>>

Close ==
  /\ ~d.closed
  /\ ReleaseAll(Held(d.frags))
  /\ d' = [Cleared EXCEPT !.closed = TRUE]
  /\ UNCHANGED <<sends, fed, out>>

Next ==
  \/ \E len \in Lengths, limit \in Limits : Send(len, limit)
  \/ out = None /\ (Deliver \/ FeedMalformed)
  \/ Consume
  \/ Close

Spec == Init /\ [][Next]_vars

-----------------------------------------------------------------------------
(* FragUDPMessage cuts a packet that fits in 255 fragments into pieces     *)
(* that are not empty and fit the limit, numbered from 0 with the right    *)
(* count, each starting where the previous one ends, from the first byte   *)
(* to the last; it refuses exactly the others.                             *)
SplitIsExact ==
  \A s \in 1..Len(sends) :
    LET p == sends[s]
        n == Len(p.frags)
        data(i) == p.frags[i].data
        end(i) == IF i = 0 THEN 0 ELSE data(i)[Len(data(i))][2]
    IN  /\ (n = 0) <=> (p.len > p.limit /\ (p.limit <= 0 \/ p.len > 255 * p.limit))
        /\ \A i \in 1..n : /\ p.frags[i].id = i - 1 /\ p.frags[i].cnt = n
                           /\ Len(data(i)) <= p.limit
        /\ p.len > p.limit => \A i \in 1..n : data(i) # <<>> /\ data(i)[1] = <<s, end(i - 1) + 1>>
        /\ n > 0 /\ p.len > 0 => end(n) = p.len

(* Whatever is lost, repeated or reordered, a message that leaves the      *)
(* defragger is the whole payload of one packet sent (Defragger.Feed).     *)
AssembledIsPacket ==
  out # None => \E s \in 1..Len(sends) : out.data = Payload(s, sends[s].len)

(* Each buffer delivered is either held by the defragger, or with the      *)
(* consumer, or was released, once (releaseHeld, the duplicate branch, and *)
(* the cleared Release of an assembled message).                           *)
BufferReleasedOnce ==
  \A b \in 1..fed :
    releases[b] = IF b \in Held(d.frags) \/ (out # None /\ out.buf = b) THEN 0 ELSE 1

(* The counters agree with the fragments held, and a complete packet is    *)
(* never kept back.                                                        *)
CountersMatch ==
  /\ d.count = Cardinality(Held(d.frags))
  /\ d.frags # <<>> => d.count \in 1..Len(d.frags) - 1
  /\ d.size = Len(Assemble([i \in 1..Len(d.frags) |->
                              IF d.frags[i] = None THEN [data |-> <<>>] ELSE d.frags[i]]))
=============================================================================
