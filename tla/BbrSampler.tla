----------------------------- MODULE BbrSampler -----------------------------
(***************************************************************************)
(* The bandwidth sampler of BBR in the configuration the senders use (no   *)
(* overestimate avoidance, no limit by send rate): a record per sent       *)
(* packet, byte totals, the point of the last ack, the app-limited phase   *)
(* and the tracker of ack aggregation.  The map of records is the one of   *)
(* PacketQueue, below its budget.                                          *)
(*                                                                         *)
(* The packets in flight and the ack and loss events are those of quic-go. *)
(* It reports each packet at most once, in order of packet numbers, and    *)
(* declares lost whatever it still holds below a lost packet.  The sender  *)
(* of bbr_sender.go (Trim) also drops the records below the last packet    *)
(* acked, less two; bbr3 uses the sampler through RefSampler without that. *)
(***************************************************************************)
EXTENDS Integers, Sequences, SequencesExt, FiniteSets, FiniteSetsExt

CONSTANTS MaxPacket, Sizes, MaxTime, MaxRound, Window,
          Trim,       \* TRUE: bbrSender, FALSE: RefSampler
          Reordering, \* quic-go: a packet this far below the largest one acked is lost
          Infinite    \* infBandwidth

Zero == 0             \* the zero time; the clock starts at 1
Invalid == 0          \* invalidPacketNumber; packet numbers start at 1

VARIABLES
  b,        \* the sampler
  recs,     \* connectionStateMap
  best,     \* estimates of the max bandwidth filter
  flight,   \* external: sizes of the packets in flight
  acked,    \* history: packets acked
  now, round

vars == <<b, recs, best, flight, acked, now, round>>

InFlight == MapThenSumSet(LAMBDA p : flight[p], DOMAIN flight)

-----------------------------------------------------------------------------
(* The windowed max filter of the bandwidths and of the ack heights        *)
(* (Kathleen Nichols' algorithm): three estimates stand for all samples of *)
(* the last Window rounds.  Sample 0 is the zero value that marks a filter *)
(* without samples.                                                        *)

Entry(s, t) == [sample |-> s, time |-> t]
Reset(s, t) == <<Entry(s, t), Entry(s, t), Entry(s, t)>>
Clear == Reset(0, 0)
GetBest(e) == e[1].sample

Better(e, s, t) ==
  IF s >= e[2].sample THEN <<e[1], Entry(s, t), Entry(s, t)>>
  ELSE IF s >= e[3].sample THEN [e EXCEPT ![3] = Entry(s, t)] ELSE e

\* The best estimate has expired: the others move up, twice if the second has expired too.
Promote(e, s, t) ==
  IF t - e[2].time > Window THEN <<e[3], Entry(s, t), Entry(s, t)>> ELSE <<e[2], e[3], Entry(s, t)>>

Update(e, s, t) ==
  IF e[1].sample = 0 \/ s >= e[1].sample \/ t - e[3].time > Window THEN Reset(s, t)
  ELSE LET u == Better(e, s, t)
       IN  IF t - u[1].time > Window THEN Promote(u, s, t)
           ELSE IF u[2].sample = u[1].sample /\ t - u[2].time > Window \div 4 THEN <<u[1], Entry(s, t), Entry(s, t)>>
           ELSE IF u[3].sample = u[2].sample /\ t - u[3].time > Window \div 2 THEN [u EXCEPT ![3] = Entry(s, t)]
           ELSE u

-----------------------------------------------------------------------------
(* The sampler.                                                            *)

Init ==
  /\ b = [sent |-> 0, acked |-> 0, lost |-> 0, sentAtLastAcked |-> 0, lastAckedSentTime |-> Zero, lastAckedAckTime |-> Zero,
          lastSent |-> Invalid, appLimited |-> FALSE, endOfPhase |-> Invalid,
          epochStart |-> Zero, epochBytes |-> 0, heights |-> Clear, ackedAtLastEvent |-> 0]
  /\ recs = <<>> /\ best = Clear /\ flight = <<>> /\ acked = {} /\ now = 1 /\ round = 0

-----------------------------------------------------------------------------
(* Sending.                                                                *)

NewRecord(s, size) ==
  [sentTime |-> now, size |-> size, sentAtLastAcked |-> s.sentAtLastAcked, lastAckedSentTime |-> s.lastAckedSentTime,
   lastAckedAckTime |-> s.lastAckedAckTime, appLimited |-> s.appLimited, sent |-> s.sent, acked |-> s.acked,
   consumed |-> FALSE]

\* Without bytes in flight the send is the point from which the next samples are measured.
\* quic-go counts the packet before it calls, so that its argument is InFlight + size.
OnPacketSent ==
  \E n \in {b.lastSent + 1}, size \in Sizes :
    LET counted == [b EXCEPT !.lastSent = n, !.sent = @ + size]
        s == IF InFlight + size > 0 THEN counted
             ELSE [counted EXCEPT !.lastAckedAckTime = now, !.sentAtLastAcked = counted.sent, !.lastAckedSentTime = now]
    IN  /\ n <= MaxPacket
        /\ b' = s /\ recs' = [p \in DOMAIN recs \cup {n} |-> IF p = n THEN NewRecord(s, size) ELSE recs[p]]
        /\ flight' = [p \in DOMAIN flight \cup {n} |-> IF p = n THEN size ELSE flight[p]]
        /\ UNCHANGED <<best, acked, now, round>>

\* A packet that is not retransmittable has a number and nothing else.
OnAckOnlySent ==
  /\ b.lastSent < MaxPacket /\ b' = [b EXCEPT !.lastSent = @ + 1]
  /\ UNCHANGED <<recs, best, flight, acked, now, round>>

OnAppLimited ==
  /\ ~b.appLimited \/ b.endOfPhase # b.lastSent
  /\ b' = [b EXCEPT !.appLimited = TRUE, !.endOfPhase = b.lastSent]
  /\ UNCHANGED <<recs, best, flight, acked, now, round>>

-----------------------------------------------------------------------------
(* A congestion event.                                                     *)

Bandwidth(bytes, delta) == bytes \div delta

NoSample == [bandwidth |-> 0, appLimited |-> FALSE]

\* The acknowledged packet p of sampler s; acc is <<s, the best sample so far>>.
OnPacketAcknowledged(acc, p) ==
  LET r == recs[p]
      s == [acc[1] EXCEPT !.acked = @ + r.size, !.sentAtLastAcked = r.sent, !.lastAckedSentTime = r.sentTime,
                          !.lastAckedAckTime = now,
                          !.appLimited = @ /\ ~(acc[1].endOfPhase = Invalid \/ p > acc[1].endOfPhase)]
      sendRate == IF r.sentTime > r.lastAckedSentTime
                  THEN Bandwidth(r.sent - r.sentAtLastAcked, r.sentTime - r.lastAckedSentTime) ELSE Infinite
      ackRate == Bandwidth(s.acked - r.acked, now - r.lastAckedAckTime)
      rate == IF sendRate < ackRate THEN sendRate ELSE ackRate
      event == IF rate > acc[2].bandwidth THEN [bandwidth |-> rate, appLimited |-> r.appLimited] ELSE acc[2]
  IN  IF p \notin DOMAIN recs THEN acc
      ELSE IF r.lastAckedSentTime = Zero \/ now <= r.lastAckedAckTime THEN <<s, acc[2]>>
      ELSE <<s, event>>

\* maxAckHeightTracker.Update with the bandwidth estimate bw; <<s, extra bytes acked>>.
TrackHeight(s, bw, bytes) ==
  LET expected == bw * (now - s.epochStart)
      grown == [s EXCEPT !.epochBytes = @ + bytes, !.heights = Update(@, s.epochBytes + bytes - expected, round')]
  IN  IF s.epochStart = Zero \/ s.epochBytes <= expected THEN [s EXCEPT !.epochStart = now, !.epochBytes = bytes]
      ELSE grown
OnAckEventEnd(s, bw) ==
  IF s.acked = s.ackedAtLastEvent THEN s
  ELSE TrackHeight([s EXCEPT !.ackedAtLastEvent = s.acked], bw, s.acked - s.ackedAtLastEvent)

DropConsumedFront(rs) ==
  LET live == {p \in DOMAIN rs : ~rs[p].consumed}
  IN  [p \in {q \in DOMAIN rs : \E l \in live : l <= q} |-> rs[p]]
RemoveObsoletePackets(rs, least) == [p \in {q \in DOMAIN rs : q >= least} |-> rs[p]]


\* The last record still needed, as bbrSender and RefSampler see it.
LeastUnacked(as, ls) == IF as # {} THEN Max(as) - 2 ELSE Max(ls) + 1

\* quic-go reports the packets as acked and ls lost.
Report(as, ls) ==
  /\ as \cup ls # {} /\ as \cap ls = {}
  /\ \A l \in ls, p \in DOMAIN flight : p < l => p \in as \cup ls
  /\ Trim => \A p \in DOMAIN flight \ (as \cup ls), a \in as : p > a - Reordering

OnCongestionEvent ==
  \E as, ls \in SUBSET DOMAIN flight :
    LET lost == [b EXCEPT !.lost = @ + MapThenSumSet(LAMBDA p : flight[p], ls)]
        done == FoldLeft(OnPacketAcknowledged, <<lost, NoSample>>, SetToSortSeq(as, LAMBDA p, q : p < q))
        bw == IF done[2].bandwidth > GetBest(best) THEN done[2].bandwidth ELSE GetBest(best)
        marked == [p \in DOMAIN recs |-> [recs[p] EXCEPT !.consumed = @ \/ p \in as \cup ls]]
    IN  /\ Report(as, ls)
        /\ round' \in {r \in {round, round + 1} : r <= MaxRound}
        /\ b' = IF as = {} THEN lost ELSE OnAckEventEnd(done[1], bw)
        /\ recs' = LET dropped == DropConsumedFront(marked)
                   IN  IF Trim THEN RemoveObsoletePackets(dropped, LeastUnacked(as, ls)) ELSE dropped
        /\ best' = IF done[1].acked # b.acked /\ (~done[2].appLimited \/ done[2].bandwidth > GetBest(best))
                   THEN Update(best, done[2].bandwidth, round') ELSE best
        /\ flight' = [p \in DOMAIN flight \ (as \cup ls) |-> flight[p]]
        /\ acked' = acked \cup as /\ UNCHANGED now

Tick == now < MaxTime /\ now' = now + 1 /\ UNCHANGED <<b, recs, best, flight, acked, round>>

Next == OnPacketSent \/ OnAckOnlySent \/ OnAppLimited \/ OnCongestionEvent \/ Tick

Spec == Init /\ [][Next]_vars

-----------------------------------------------------------------------------
(* Properties.                                                             *)

\* The record of a packet in flight survives every trim, so that its ack or loss is counted,
\* and the records follow the packets in flight: the first one is of such a packet.
OutstandingHasRecord ==
  /\ \A p \in DOMAIN flight : p \in DOMAIN recs /\ ~recs[p].consumed
  /\ DOMAIN recs # {} => Min(DOMAIN recs) \in DOMAIN flight

\* Every byte sent is acked, lost or in flight.
BytesConserved == b.sent = b.acked + b.lost + InFlight

\* The app-limited phase lasts until a packet is acked that was sent after it began.
AppLimitedPhase ==
  IF b.appLimited THEN \A p \in acked : p <= b.endOfPhase
  ELSE b.endOfPhase = Invalid \/ \E p \in acked : p > b.endOfPhase

\* The ack height is made of bytes that were acked, and an estimate is never negative.
HeightIsAcked == GetBest(b.heights) \in 0..b.acked /\ GetBest(best) \in 0..b.acked

\* The estimates e of a filter that was updated with the entries of seq, in this order: the best
\* is a sample of the window and no sample since is better, so it is never more than the true
\* maximum and never less than the newest sample; the other two are newer samples that are ready
\* to replace it.
FilterIsExact(e, seq) ==
  seq # <<>> =>
    LET seen == ToSet(seq) newest == Last(seq) IN
    /\ \A i \in 1..3 : e[i] \in seen
    /\ newest.time - e[1].time <= Window
    /\ \A h \in seen : h.time > e[1].time => h.sample <= e[1].sample
    /\ newest.sample <= GetBest(e)
    /\ \A i \in 1..2 : e[i].sample >= e[i + 1].sample /\ e[i].time <= e[i + 1].time
=============================================================================
