----------------------------- MODULE BbrSender -----------------------------
(***************************************************************************)
(* The BBR sender of bbr_sender.go: modes, gain cycle, recovery and the    *)
(* congestion window, driven by the congestion events of quic-go.  The     *)
(* bandwidth filter and the round-trip samples are inputs (BbrSampler).    *)
(*                                                                         *)
(* Packet numbers are kept as distances below the last packet sent and     *)
(* times as ages, both up to a bound, so that behaviours are unbounded.    *)
(* A packet is one byte.  Gains are in quarters; 2.885 is taken as 3 and   *)
(* its inverse as 1/4.                                                     *)
(***************************************************************************)
EXTENDS Integers, Sequences, FiniteSets, FiniteSetsExt

CONSTANTS
  Outstanding,     \* packets in flight, at most; also the bound of the distances
  Bandwidths, Rtts,
  MinCwnd, InitialCwnd, MaxCwnd,
  RttExpiry,       \* minRttExpiry
  ProbeRttTime,    \* probeRttTime
  StartupRtts,     \* roundTripsWithoutGrowthBeforeExitingStartup
  Cruise,          \* phases of the gain cycle at gain 1
  FullLossCount,   \* defaultStartupFullLossCount
  ProbeRttSlack,   \* MaxPacketBufferSize
  RecoveryBound    \* the recovery window is not followed above it

VARIABLES
  c,        \* the sender
  flight    \* external: the distances of the packets in flight

vars == <<c, flight>>

None == -1                \* no packet number, no time
HighGain == 12
DrainGain == 1
Cycle == <<5, 3>> \o [i \in 1..Cruise |-> 4]
CwndGain == 8

Lower(i, j) == IF i < j THEN i ELSE j
Higher(i, j) == IF i > j THEN i ELSE j
MaxRtt == Max(Rtts)

Init ==
  /\ flight = {}
  /\ c = [mode |-> "Startup", gain |-> HighGain, offset |-> 0, cycleAge |-> 0, full |-> FALSE,
          bw |-> 0, bwAtLastRound |-> 0, roundsWithoutGain |-> 0,
          minRtt |-> 0, rttAge |-> 0, exitIn |-> None, roundPassed |-> FALSE,
          recovery |-> "Not", recoveryWindow |-> MaxCwnd, endRecoveryAt |-> None, roundEnd |-> None,
          cwnd |-> InitialCwnd, rate |-> 0, totalAcked |-> 0, lossEvents |-> 0, quiescent |-> FALSE]

-----------------------------------------------------------------------------
(* The parts of a congestion event.  s is the sender, in the bytes in      *)
(* flight after the event.                                                 *)

After(d, mark) == mark = None \/ d < mark     \* the packet at distance d was sent after the mark

GetMinRtt(s) == IF s.minRtt # 0 THEN s.minRtt ELSE MaxRtt
Target(s, gain) ==
  LET window == (gain * GetMinRtt(s) * s.bw) \div 4
  IN  Higher(IF window = 0 THEN (gain * InitialCwnd) \div 4 ELSE window, MinCwnd)

UpdateRoundTripCounter(s, d) == IF After(d, s.roundEnd) THEN [s EXCEPT !.roundEnd = 0] ELSE s

UpdateRecoveryState(s, d, losses, roundStart) ==
  LET marked == IF losses THEN [s EXCEPT !.endRecoveryAt = 0] ELSE s
      grown == IF roundStart THEN [marked EXCEPT !.recovery = "Growth"] ELSE marked
  IN  CASE ~s.full -> s
        [] s.full /\ s.recovery = "Not" ->
             IF losses THEN [marked EXCEPT !.recovery = "Conservation", !.recoveryWindow = 0, !.roundEnd = 0] ELSE marked
        [] s.full /\ s.recovery # "Not" ->
             IF ~losses /\ After(d, s.endRecoveryAt) THEN [grown EXCEPT !.recovery = "Not"] ELSE grown

MaybeUpdateMinRtt(s, rtt, expired) ==
  IF rtt # None /\ (expired \/ rtt < s.minRtt \/ s.minRtt = 0) THEN [s EXCEPT !.minRtt = rtt, !.rttAge = 0] ELSE s

UpdateGainCyclePhase(s, prior, in, losses) ==
  LET due == s.cycleAge > GetMinRtt(s)
      advance == IF s.gain < 4 /\ in <= Target(s, 4) THEN TRUE
                 ELSE due /\ ~(s.gain > 4 /\ ~losses /\ prior < Target(s, s.gain))
      next == (s.offset + 1) % Len(Cycle)
  IN  IF s.mode = "ProbeBw" /\ advance THEN [s EXCEPT !.offset = next, !.cycleAge = 0, !.gain = Cycle[next + 1]] ELSE s

\* heavy: the bytes lost in the round exceed the threshold of what was in flight.
CheckIfFullBandwidthReached(s, limited, heavy) ==
  IF limited THEN s
  ELSE IF 4 * s.bw >= 5 * s.bwAtLastRound THEN [s EXCEPT !.bwAtLastRound = s.bw, !.roundsWithoutGain = 0]
  ELSE [s EXCEPT !.roundsWithoutGain = @ + 1,
                 !.full = s.roundsWithoutGain + 1 >= StartupRtts \/ (s.lossEvents >= FullLossCount /\ heavy)]

EnterProbeBandwidthMode(s, offset) ==
  [s EXCEPT !.mode = "ProbeBw", !.offset = offset, !.cycleAge = 0, !.gain = Cycle[offset + 1]]
EnterStartupMode(s) == [s EXCEPT !.mode = "Startup", !.gain = HighGain]

MaybeExitStartupOrDrain(s, in, offset) ==
  LET drain == IF s.mode = "Startup" /\ s.full THEN [s EXCEPT !.mode = "Drain", !.gain = DrainGain] ELSE s
  IN  IF drain.mode = "Drain" /\ in <= Target(drain, 4) THEN EnterProbeBandwidthMode(drain, offset) ELSE drain

ExitProbeRtt(s, offset) ==
  IF s.full THEN EnterProbeBandwidthMode([s EXCEPT !.rttAge = 0], offset) ELSE EnterStartupMode([s EXCEPT !.rttAge = 0])

MaybeEnterOrExitProbeRtt(s, in, roundStart, expired, offset) ==
  LET entered == IF expired /\ ~s.quiescent /\ s.mode # "ProbeRtt"
                 THEN [s EXCEPT !.mode = "ProbeRtt", !.gain = 4, !.exitIn = None] ELSE s
      passed == [entered EXCEPT !.roundPassed = @ \/ roundStart]
      r == CASE entered.mode # "ProbeRtt" -> entered
             [] entered.mode = "ProbeRtt" /\ entered.exitIn = None ->
                  IF in < MinCwnd + ProbeRttSlack THEN [entered EXCEPT !.exitIn = ProbeRttTime, !.roundPassed = FALSE] ELSE entered
             [] entered.mode = "ProbeRtt" /\ entered.exitIn # None ->
                  IF passed.exitIn = 0 /\ passed.roundPassed THEN ExitProbeRtt(passed, offset) ELSE passed
  IN  [r EXCEPT !.quiescent = FALSE]

\* fromStack: quic-go has a minimum round trip.
CalculatePacingRate(s, fromStack) ==
  LET target == (s.gain * s.bw) \div 4
  IN  CASE s.bw = 0 -> s
        [] s.bw # 0 /\ s.full -> [s EXCEPT !.rate = target]
        [] s.bw # 0 /\ ~s.full /\ s.rate = 0 /\ fromStack -> [s EXCEPT !.rate = InitialCwnd \div MaxRtt]
        [] OTHER -> [s EXCEPT !.rate = Higher(@, target)]

CalculateCongestionWindow(s, acked, height) ==
  LET target == Target(s, CwndGain)
      moved == IF s.full THEN Lower(target + height, s.cwnd + acked)
               ELSE IF s.cwnd < target \/ s.totalAcked < InitialCwnd THEN s.cwnd + acked ELSE s.cwnd
  IN  IF s.mode = "ProbeRtt" THEN s ELSE [s EXCEPT !.cwnd = Lower(Higher(moved, MinCwnd), MaxCwnd)]


CalculateRecoveryWindow(s, in, acked, lost) ==
  LET less == IF s.recoveryWindow >= lost THEN s.recoveryWindow - lost ELSE 1
      more == IF s.recovery = "Growth" THEN less + acked ELSE less
  IN  CASE s.recovery = "Not" -> s
        [] s.recovery # "Not" /\ s.recoveryWindow = 0 -> [s EXCEPT !.recoveryWindow = Higher(MinCwnd, in + acked)]
        [] OTHER -> [s EXCEPT !.recoveryWindow = Lower(RecoveryBound, Higher(MinCwnd, Higher(more, in + acked)))]

-----------------------------------------------------------------------------
(* The interface to quic-go.                                               *)

GetCongestionWindow ==
  IF c.mode = "ProbeRtt" THEN MinCwnd
  ELSE IF c.recovery # "Not" THEN Lower(c.cwnd, c.recoveryWindow) ELSE c.cwnd

Shift(d) == IF d = None THEN None ELSE Lower(d + 1, Outstanding + 1)

\* CanSend, then OnPacketSent.  A packet that is not counted in flight may find none there.
OnPacketSent ==
  /\ Cardinality(flight) < GetCongestionWindow
  /\ \A d \in flight : d < Outstanding - 1
  /\ flight' = {d + 1 : d \in flight} \cup {0}
  /\ c' = [c EXCEPT !.roundEnd = Shift(@), !.endRecoveryAt = Shift(@)]
OnAckOnlySent ==
  /\ flight = {} /\ ~c.quiescent
  /\ c' = [c EXCEPT !.roundEnd = Shift(@), !.endRecoveryAt = Shift(@), !.quiescent = TRUE]
  /\ UNCHANGED flight

\* The packets as are acked and ls lost; the filter gives bw, the sample rtt and whether it is app-limited.
OnCongestionEventEx ==
  \E as, ls \in SUBSET flight, bw \in Bandwidths, rtt \in Rtts \cup {None}, limited, heavy \in BOOLEAN, offset \in {0} \cup 2..Len(Cycle) - 1 :
    LET acked == Cardinality(as)
        lost == Cardinality(ls)
        prior == Cardinality(flight)
        in == prior - acked - lost
        last == Min(as)
        start == as # {} /\ After(last, c.roundEnd)
        counted == IF as = {} THEN c
                   ELSE UpdateRecoveryState(UpdateRoundTripCounter(c, last), last, lost > 0, start)
        expired == rtt # None /\ c.minRtt # 0 /\ c.rttAge > RttExpiry
        sampled == [MaybeUpdateMinRtt(counted, rtt, expired) EXCEPT !.bw = bw,
                      !.lossEvents = Lower(@ + (IF lost > 0 THEN 1 ELSE 0), FullLossCount),
                      !.totalAcked = Lower(@ + acked, InitialCwnd)]
        cycled == UpdateGainCyclePhase(sampled, prior, in, lost > 0)
        checked == IF start /\ ~cycled.full THEN CheckIfFullBandwidthReached(cycled, limited, heavy) ELSE cycled
        probed == MaybeEnterOrExitProbeRtt(MaybeExitStartupOrDrain(checked, in, offset), in, start, expired, offset)
        done == CalculateRecoveryWindow(
                  CalculateCongestionWindow(CalculatePacingRate(probed, probed.minRtt # 0), acked, lost), in, acked, lost)
    IN  /\ as \cup ls # {} /\ as \cap ls = {}
        /\ \A l \in ls, d \in flight : d > l => d \in as \cup ls
        /\ as = {} => bw = c.bw /\ rtt = None
        /\ ~(start /\ ~c.full) => ~heavy /\ ~limited
        /\ c' = IF start THEN [done EXCEPT !.lossEvents = 0] ELSE done
        /\ flight' = flight \ (as \cup ls)

Age(a, bound) == IF a = None THEN None ELSE Lower(a + 1, bound)

Tick ==
  /\ c' = [c EXCEPT !.cycleAge = Age(@, MaxRtt + 1), !.rttAge = Age(@, RttExpiry + 1),
                    !.exitIn = IF @ = None THEN None ELSE Higher(@ - 1, 0)]
  /\ c' # c /\ UNCHANGED flight

Next == OnPacketSent \/ OnAckOnlySent \/ OnCongestionEventEx \/ Tick

Spec == Init /\ [][Next]_vars

-----------------------------------------------------------------------------
(* Properties.                                                             *)

\* The window quic-go is given stays between the minimum and the maximum, in recovery and in
\* PROBE_RTT too, so that the sender never stops itself.
WindowInRange == GetCongestionWindow \in MinCwnd..MaxCwnd

\* Mode, gain and the verdict on the bandwidth agree: STARTUP runs at the high gain until the
\* bandwidth is full, DRAIN and PROBE_BW only after it, and PROBE_BW at the gain of its phase.
ModesAgree ==
  CASE c.mode = "Startup" -> ~c.full /\ c.gain = HighGain
    [] c.mode = "Drain" -> c.full /\ c.gain = DrainGain
    [] c.mode = "ProbeBw" -> c.full /\ c.gain = Cycle[c.offset + 1]
    [] c.mode = "ProbeRtt" -> c.gain = 4

\* STARTUP never takes back window or rate; the low phase of the gain cycle only follows the high one.
OrderedStep ==
  /\ c.mode = "Startup" /\ c'.mode = "Startup" => c'.cwnd >= c.cwnd /\ c'.rate >= c.rate
  /\ c.mode = "ProbeBw" /\ c'.mode = "ProbeBw" /\ c'.offset = 1 => c.offset \in {0, 1}
  /\ c.full => c'.full
=============================================================================
