------------------------------- MODULE Pacing --------------------------------
(***************************************************************************)
(* The token bucket that paces the congestion controllers, and the rate    *)
(* that one of them, Brutal, asks of it.  quic-go sends while              *)
(* HasPacingBudget holds and otherwise sets its timer to TimeUntilSend;    *)
(* both read a bandwidth that acks change in between.  Products of         *)
(* bandwidth and time wrap at Width bits as Go's do.  Brutal counts acks   *)
(* and losses in a ring of slots, one per second, and divides its target   *)
(* by the rate of acks over the seconds the ring still holds.  The bucket  *)
(* takes any bandwidth, so the two run one at a time.                      *)
(***************************************************************************)
EXTENDS Integers, FiniteSets, FiniteSetsExt

CONSTANTS Bandwidths,     \* bytes per second, never 0 (minBps)
          Datagram, BurstPackets,
          Second,         \* nanoseconds
          MinDelay,       \* MinPacingDelay
          Millisecond,
          Width,
          MaxIdle,        \* bound on the time between two sends
          SlotCount, MinSamples, MaxSecond, MaxCount, Start

VARIABLES part,           \* "bucket" or "rate"
          budget,         \* budgetAtLastSent
          idle,           \* now - lastSentTime, -1 before the first packet
          bw,
          slots, ackRate, events, now

bucket == <<budget, idle, bw>>
rate == <<slots, ackRate, events, now>>
vars == <<part, bucket, rate>>

NewPacer == budget = BurstPackets * Datagram /\ idle = -1 /\ bw \in Bandwidths

Wrap(x) == LET y == x % 2^Width IN IF y >= 2^(Width - 1) THEN y - 2^Width ELSE y
Quotient(x, y) == IF x < 0 THEN -((-x) \div y) ELSE x \div y
Bigger(i, j) == IF i > j THEN i ELSE j
Smaller(i, j) == IF i < j THEN i ELSE j

MaxBurstSize == Bigger(Quotient(Wrap((MinDelay + Millisecond) * bw), Second), BurstPackets * Datagram)

Budget(t) ==
  LET filled == budget + Quotient(Wrap(bw * t), Second)
  IN  IF idle < 0 THEN MaxBurstSize ELSE Smaller(MaxBurstSize, IF filled < 0 THEN 2^(Width - 2) - 1 ELSE filled)

HasPacingBudget == Budget(idle) >= Datagram

\* The time after the last send at which the next packet goes, 0 for at once.
TimeUntilSend ==
  IF budget >= Datagram THEN 0
  ELSE Bigger(MinDelay, ((Datagram - budget) * Second + bw - 1) \div bw)

SentPacket ==
  \E size \in 1..Datagram :
    /\ HasPacingBudget
    /\ budget' = IF size > Budget(idle) THEN 0 ELSE Budget(idle) - size
    /\ idle' = 0 /\ UNCHANGED <<bw, rate>>

\* A probe packet is sent without regard to the budget.
SentProbe ==
  /\ idle >= 0 /\ ~HasPacingBudget
  /\ budget' = Bigger(0, Budget(idle) - Datagram) /\ idle' = 0 /\ UNCHANGED <<bw, rate>>

BandwidthChanges == bw' \in Bandwidths \ {bw} /\ UNCHANGED <<budget, idle, rate>>

Tick == idle \in 0..MaxIdle - 1 /\ idle' = idle + 1 /\ UNCHANGED <<budget, bw, rate>>

Floor == <<8, 10>>      \* minAckRate
One == <<1, 1>>

NewBrutalSender ==
  /\ slots = [i \in 0..SlotCount - 1 |-> [time |-> 0, acks |-> 0, losses |-> 0]]
  /\ ackRate = One /\ events = {} /\ now = Start

Counted(t, ss) == {i \in DOMAIN ss : ss[i].time >= t - SlotCount}
Total(f(_), S) == MapThenSumSet(f, S)

UpdateAckRate(t, ss) ==
  LET acks == Total(LAMBDA i : ss[i].acks, Counted(t, ss))
      losses == Total(LAMBDA i : ss[i].losses, Counted(t, ss))
  IN  IF acks + losses < MinSamples THEN One
      ELSE IF 10 * acks < 8 * (acks + losses) THEN Floor ELSE <<acks, acks + losses>>

\* An event of a second extends its slot, or takes over the slot of an older second.
File(ss, t, a, l) ==
  LET i == t % SlotCount
  IN  IF ss[i].time = t THEN [ss EXCEPT ![i].acks = @ + a, ![i].losses = @ + l]
      ELSE [ss EXCEPT ![i] = [time |-> t, acks |-> a, losses |-> l]]

OnCongestionEventEx ==
  \E a, l \in 0..MaxCount :
    /\ a + l > 0 /\ Cardinality(events) < MaxSecond
    /\ slots' = File(slots, now, a, l) /\ ackRate' = UpdateAckRate(now, slots')
    /\ events' = events \cup {[n |-> Cardinality(events), time |-> now, acks |-> a, losses |-> l]}
    /\ UNCHANGED <<now, bucket>>

NextSecond == \E d \in {1, SlotCount} : now + d <= Start + MaxSecond /\ now' = now + d /\ UNCHANGED <<slots, ackRate, events, bucket>>

Init == part \in {"bucket", "rate"} /\ NewPacer /\ NewBrutalSender

Next ==
  \/ part = "bucket" /\ (SentPacket \/ SentProbe \/ BandwidthChanges \/ Tick) /\ UNCHANGED part
  \/ part = "rate" /\ (OnCongestionEventEx \/ NextSecond) /\ UNCHANGED part

Spec == Init /\ [][Next]_vars

\* When the timer of TimeUntilSend has passed there is budget for a datagram, whatever the bandwidth
\* did since it was set and however long the sender was idle: quic-go never spins between the two.
NoSpin == idle >= TimeUntilSend => HasPacingBudget

\* The ack rate is the one of the events of the last SlotCount seconds, no older ones and each once,
\* and never below the floor.
RateOfRecentEvents ==
  LET last == Max({e.time : e \in events} \cup {0})
      recent == {e \in events : e.time > last - SlotCount}
      acks == Total(LAMBDA e : e.acks, recent)
      losses == Total(LAMBDA e : e.losses, recent)
  IN  /\ 10 * ackRate[1] >= 8 * ackRate[2]
      /\ ackRate = IF acks + losses < MinSamples THEN One
                   ELSE IF 10 * acks < 8 * (acks + losses) THEN Floor ELSE <<acks, acks + losses>>
=============================================================================
