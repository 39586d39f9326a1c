----------------------------- MODULE Bbr3Sender -----------------------------
(***************************************************************************)
(* The experimental BBRv3-lineage sender: network model, mode machine,     *)
(* the bounds on the bytes in flight and the derivation of rate and window *)
(* (recalc), with the access hint as a cap.  The delivery-rate estimate    *)
(* (RefSampler) and the test for excessive loss are inputs; the gate of a  *)
(* validated hint, off in the default parameters, is HintGate.             *)
(*                                                                         *)
(* Packet numbers are distances below the last packet sent, times are      *)
(* ages.  Sizes are in datagrams of one or two bytes; gains in quarters,   *)
(* with 2.77 taken as 11/4 and its inverse as 1/4.                         *)
(***************************************************************************)
EXTENDS Integers, FiniteSets, FiniteSetsExt

CONSTANTS
  Outstanding,            \* packets in flight, at most; also the bound of the distances
  Estimates, Rtts, Datagrams,
  MinPackets, InitialPackets, MaxPackets,
  Hint,                   \* access hint, 0 for none
  Strict,                 \* StrictHintCap
  MinRate, FullRounds, UpRounds, RttExpiry, ProbeRttTime,
  HiBound                 \* inflightHi and the bytes of a round are not followed above it

VARIABLES m, flight
vars == <<m, flight>>

None == -1
Default == Max(Rtts)      \* DefaultMinRtt
Gain(mode) == CASE mode = "Startup" -> 11 [] mode = "Drain" -> 1 [] mode = "Up" -> 5 [] mode = "Down" -> 3 [] OTHER -> 4
Low(i, j) == IF i < j THEN i ELSE j
High(i, j) == IF i > j THEN i ELSE j

MinCwnd(s) == MinPackets * s.datagram
InitialCwnd(s) == InitialPackets * s.datagram
MaxCwnd(s) == MaxPackets * s.datagram
MinRttValue(s) == IF s.minRtt = 0 THEN Default ELSE s.minRtt
Bdp(s) == s.est * MinRttValue(s)

ProbeRttTarget(s) == High(MinCwnd(s), (IF s.hi = 0 THEN 2 * Bdp(s) ELSE s.hi) \div 2)

-----------------------------------------------------------------------------
(* recalc.  srtt is the smoothed round trip, 0 before the first.           *)

Overshoot(s) == IF s.mode = "Up" /\ ~Strict THEN 5 ELSE 4
Capped(s) == IF Hint > 0 THEN Low(s.est, Hint) ELSE s.est

PacingRate(s) ==
  LET rate == High((Capped(s) * Gain(s.mode)) \div 4, MinRate)
  IN  IF Hint > 0 THEN Low(rate, (Hint * Overshoot(s)) \div 4) ELSE rate

Window(s, srtt) ==
  LET supported == High(2 * Capped(s) * MinRttValue(s), 2 * PacingRate(s) * srtt)
      lifted == High(supported, s.lo)
      bounded == IF s.hi > 0 THEN Low(lifted, s.hi) ELSE lifted
      window == IF s.mode = "ProbeRtt" THEN ProbeRttTarget(s) ELSE bounded
      started == IF s.mode = "Startup" THEN High(window, InitialCwnd(s)) ELSE window
      inRange == Low(High(started, MinCwnd(s)), MaxCwnd(s))
      cap == High(MinCwnd(s), (Hint * High(MinRttValue(s), srtt) * 2 * Overshoot(s)) \div 4)
  IN  IF Hint > 0 THEN Low(inRange, cap) ELSE inRange

Recalc(s, srtt) == [s EXCEPT !.rate = PacingRate(s), !.cwnd = Window(s, srtt)]

Init ==
  /\ flight = {}
  /\ \E d \in Datagrams :
       m = Recalc([mode |-> "Startup", datagram |-> d, est |-> 0, minRtt |-> 0, rttAge |-> 0, roundEnd |-> None,
                   full |-> FALSE, baseline |-> 0, flat |-> 0, hi |-> 0, lo |-> 0, bwLo |-> 0, upRounds |-> 0,
                   sent |-> 0, lastSent |-> 0, exitIn |-> None, roundPassed |-> FALSE, rate |-> 0, cwnd |-> 0], 0)

-----------------------------------------------------------------------------
(* The network model.                                                      *)

\* An event for a packet sent after the end of the round starts the next one.
UpdateRound(s, last) == s.roundEnd = None \/ last < s.roundEnd
AccountRound(s) == [s EXCEPT !.roundEnd = 0, !.lastSent = s.sent, !.sent = 0]

UpdateMinRtt(s, rtt, expired) ==
  IF expired \/ s.minRtt = 0 \/ rtt < s.minRtt THEN [s EXCEPT !.minRtt = rtt, !.rttAge = 0] ELSE s

CheckFullBwReached(s) ==
  IF s.est = 0 THEN s
  ELSE IF s.baseline = 0 \/ 4 * s.est >= 5 * s.baseline
       THEN [s EXCEPT !.baseline = s.est, !.flat = IF s.baseline = 0 THEN @ ELSE 0]
  ELSE [s EXCEPT !.flat = @ + 1, !.full = s.flat + 1 >= FullRounds]

CapInflightHi(s) ==
  LET target == High(High(Bdp(s), InitialCwnd(s)), IF s.lastSent = 0 THEN s.sent ELSE s.lastSent)
  IN  [s EXCEPT !.hi = IF @ = 0 \/ target < @ THEN Low(target, HiBound) ELSE @]

AdaptLowerBounds(s) ==
  LET decayed == (7 * s.est) \div 10
      bwLo == IF s.bwLo = 0 THEN decayed ELSE Low(s.bwLo, decayed)
  IN  IF s.est = 0 THEN s
      ELSE [s EXCEPT !.bwLo = bwLo, !.lo = High(High(bwLo * MinRttValue(s), Bdp(s)), MinCwnd(s))]

\* over: the loss of the round exceeds its threshold.
ProbeUpRound(s, start, over) ==
  LET target == High(s.hi + s.hi \div 4, s.cwnd + 2 * s.datagram)
      grown == [s EXCEPT !.hi = High(@, Low(target, HiBound)), !.upRounds = @ + 1]
      down == [grown EXCEPT !.upRounds = 0, !.mode = "Down"]
  IN  IF over THEN [CapInflightHi(s) EXCEPT !.upRounds = 0, !.mode = "Down"]
      ELSE IF ~start THEN s
      ELSE IF grown.upRounds >= UpRounds THEN down ELSE grown

Advance(s) ==
  CASE s.mode = "Down" -> [s EXCEPT !.mode = "Cruise"]
    [] s.mode = "Cruise" -> [s EXCEPT !.mode = "Refill"]
    [] s.mode = "Refill" -> [s EXCEPT !.mode = "Up", !.upRounds = 0]

StepMode(s, start, over, in) ==
  LET checked == IF start THEN CheckFullBwReached(s) ELSE s
  IN  CASE s.mode = "Startup" -> IF checked.full THEN [checked EXCEPT !.mode = "Drain"] ELSE checked
        [] s.mode = "Drain" -> IF in <= Bdp(s) THEN [s EXCEPT !.mode = "Down"] ELSE s
        [] s.mode = "Up" -> ProbeUpRound(s, start, over)
        [] s.mode \in {"Down", "Cruise", "Refill"} -> IF start THEN Advance(s) ELSE s
        [] s.mode = "ProbeRtt" -> s

MaybeProbeRtt(s, start, expired, in) ==
  LET passed == [s EXCEPT !.roundPassed = @ \/ start]
  IN  CASE s.mode = "ProbeRtt" /\ s.exitIn = None ->
             IF in <= ProbeRttTarget(s) THEN [s EXCEPT !.exitIn = ProbeRttTime, !.roundPassed = FALSE] ELSE s
        [] s.mode = "ProbeRtt" /\ s.exitIn # None ->
             IF passed.roundPassed /\ s.exitIn = 0 THEN [passed EXCEPT !.exitIn = None, !.mode = "Down"] ELSE passed
        [] s.mode # "ProbeRtt" ->
             IF expired THEN [s EXCEPT !.mode = "ProbeRtt", !.exitIn = None, !.roundPassed = FALSE] ELSE s

-----------------------------------------------------------------------------
(* The interface to quic-go.                                               *)

Shift(d) == IF d = None THEN None ELSE Low(d + 1, Outstanding + 1)
InFlight == Cardinality(flight) * m.datagram

OnPacketSent ==
  /\ InFlight < m.cwnd /\ \A d \in flight : d < Outstanding - 1
  /\ flight' = {d + 1 : d \in flight} \cup {0}
  /\ m' = [m EXCEPT !.roundEnd = Shift(@), !.sent = Low(@ + m.datagram, HiBound)]

SetMaxDatagramSize ==
  \E d \in Datagrams :
    /\ d > m.datagram
    /\ m' = [m EXCEPT !.datagram = d, !.cwnd = High(@, MinPackets * d)] /\ UNCHANGED flight

OnAckEvent ==
  \E as, ls \in SUBSET flight, est \in Estimates, rtt \in Rtts, over \in BOOLEAN :
    LET in == Cardinality(flight \ (as \cup ls)) * m.datagram
        start == UpdateRound(m, Min(as \cup ls))
        rounded == IF start THEN AccountRound(m) ELSE m
        expired == m.minRtt # 0 /\ m.rttAge > RttExpiry
        sampled == UpdateMinRtt([rounded EXCEPT !.est = est], rtt, expired)
        adapted == IF ls # {} THEN AdaptLowerBounds(sampled) ELSE sampled
        stepped == StepMode(adapted, start, over, in)
    IN  /\ as \cup ls # {} /\ as \cap ls = {}
        /\ \A l \in ls, d \in flight : d > l => d \in as \cup ls
        /\ as = {} => est = m.est
        /\ over => ls # {} /\ m.mode = "Up"
        /\ m' = Recalc(MaybeProbeRtt(stepped, start, expired, in), rtt)
        /\ flight' = flight \ (as \cup ls)

Tick ==
  /\ m' = [m EXCEPT !.rttAge = Low(@ + 1, RttExpiry + 1), !.exitIn = IF @ = None THEN None ELSE High(@ - 1, 0)]
  /\ m' # m /\ UNCHANGED flight

Next == OnPacketSent \/ SetMaxDatagramSize \/ OnAckEvent \/ Tick

Spec == Init /\ [][Next]_vars

-----------------------------------------------------------------------------
(* Properties.                                                             *)

\* The window stays between its minimum, in the present size of a datagram, and its maximum,
\* and the rate is positive.
WindowInRange == m.cwnd \in MinCwnd(m)..MaxCwnd(m) /\ m.rate > 0

\* The access hint holds: no rate above it but in a probe, which overshoots by a quarter at most.
HintHolds == Hint > 0 => 4 * m.rate <= Hint * Overshoot(m)

\* A probe is bounded in rounds, and DRAIN is entered only on the verdict of a full pipe.
ProbeBounded == m.upRounds < UpRounds /\ (m.mode = "Drain" => m.full)
=============================================================================
