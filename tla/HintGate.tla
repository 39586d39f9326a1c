------------------------------ MODULE HintGate ------------------------------
(***************************************************************************)
(* The gate of the validated access hint (bbr3/hint.go, enabled).  A hint  *)
(* raises the estimate only while the gate is probing or validated; three  *)
(* clean delivery windows validate it, and loss, an inflated or missing    *)
(* round trip, poor delivery or its expiry withdraw it and start a         *)
(* cooldown.  Times are ages and countdowns.  The time of an event does    *)
(* not run behind the start of its window: a withdrawal, the only step     *)
(* that starts one at the wall clock, also starts the longer cooldown.     *)
(* The telemetry is left out but for the balance of its counters.          *)
(***************************************************************************)
EXTENDS Integers

CONSTANTS Hint, Estimates, Deliveries,
          Windows, Cooldown,   \* Windows: lengths of a delivery window, by the minimum round trip
          BytesBound       \* the bytes of a window are not followed above it

VARIABLES g, rate
vars == <<g, rate>>

None == -1
NeededClean == 3
Low(i, j) == IF i < j THEN i ELSE j

MaxAge == 1 + 2 * CHOOSE w \in Windows : \A v \in Windows : v <= w

Open == {"probing", "validated"}

Init ==
  /\ g = [state |-> "unvalidated", sinceAge |-> None, bytes |-> 0, clean |-> 0, recent |-> 0,
          untilIn |-> None, cooldownIn |-> 0, probes |-> 0, validations |-> 0, revocations |-> 0]
  /\ rate \in Estimates

\* probes + validations - revocations is all that is kept of the three counters.
Settle(h) == LET d == h.probes + h.validations - h.revocations IN [h EXCEPT !.probes = d, !.validations = 0, !.revocations = 0]

RevokeHint(h) ==
  [h EXCEPT !.state = "revoked", !.clean = 0, !.sinceAge = 0, !.bytes = 0, !.untilIn = None, !.cooldownIn = Cooldown,
            !.revocations = @ + (IF h.state \in Open THEN 1 ELSE 0)]

ExpireHint(h) == IF h.untilIn = 0 THEN RevokeHint(h) ELSE h

\* A delivery window is over.
CloseWindow(h, window) ==
  LET elapsed == h.sinceAge
      clean == 10 * h.bytes >= 9 * Hint * elapsed /\ elapsed <= 2 * window
      near == 4 * h.bytes >= 3 * Hint * elapsed
      n == IF clean THEN Low(h.clean + 1, NeededClean) ELSE 0
      w == [h EXCEPT !.bytes = 0, !.sinceAge = 0, !.recent = h.bytes \div elapsed, !.clean = n]
  IN  CASE n = NeededClean ->
             [w EXCEPT !.state = "validated", !.untilIn = 2 * window, !.validations = @ + (IF h.state = "validated" THEN 0 ELSE 1)]
        [] n < NeededClean /\ h.state \in Open -> RevokeHint(w)
        [] n \in 1..NeededClean - 1 /\ h.state \notin Open -> w
        [] n = 0 /\ h.state \notin Open /\ near ->
             [w EXCEPT !.state = "probing", !.untilIn = window, !.probes = @ + 1]
        [] n = 0 /\ h.state \notin Open /\ ~near -> [w EXCEPT !.state = "unvalidated"]

ObserveHintHasty(h, delivered, bad, window) ==
  LET counted == [h EXCEPT !.bytes = Low(@ + delivered, BytesBound)]
  IN  IF bad THEN RevokeHint(h)
      ELSE IF counted.sinceAge < window THEN counted ELSE CloseWindow(counted, window)

ObserveHint(h, delivered, bad, window) ==
  LET counted == [h EXCEPT !.bytes = Low(@ + delivered, BytesBound)]
  IN  IF bad THEN RevokeHint(h)
      ELSE IF h.cooldownIn > 0 THEN h
      ELSE IF h.sinceAge = None THEN [h EXCEPT !.sinceAge = 0]
      ELSE IF counted.sinceAge < window THEN counted ELSE CloseWindow(counted, window)

\* hintEstimate and the bound of a probe in recalc, in a mode that may be raised and at gain 1.
HintRate(h, est) ==
  LET probe == Low((11 * h.recent) \div 10, Hint)
      target == IF h.state = "validated" THEN Hint ELSE IF h.state = "probing" THEN probe ELSE 0
      raised == Low(IF target > est THEN target ELSE est, Hint)
  IN  IF h.state = "probing" THEN Low(raised, probe) ELSE raised

\* onAckEvent; bad: loss, no round trip or one over the bound.
OnAckEvent ==
  \E delivered \in Deliveries, bad \in BOOLEAN, est \in Estimates, window \in Windows :
    /\ g' = Settle(ObserveHint(ExpireHint(g), delivered, bad, window)) /\ rate' = HintRate(g', est)

\* OnCongestionEvent: loss found by a timer, or ECN.
OnCongestionEvent == \E est \in Estimates : g' = Settle(RevokeHint(g)) /\ rate' = HintRate(g', est)

\* HasPacingBudget and OnPacketSent expire the hint before they use the rate.
Pace ==
  /\ g.untilIn = 0 /\ g' = Settle(ExpireHint(g))
  /\ \E est \in Estimates : rate' = HintRate(g', est)

Tick ==
  /\ g' = [g EXCEPT !.sinceAge = IF @ = None THEN None ELSE Low(@ + 1, MaxAge),
                    !.untilIn = IF @ = None THEN None ELSE IF @ > 0 THEN @ - 1 ELSE 0,
                    !.cooldownIn = IF @ > 0 THEN @ - 1 ELSE 0]
  /\ UNCHANGED rate

Next == OnAckEvent \/ OnCongestionEvent \/ Pace \/ Tick

Spec == Init /\ [][Next]_vars

-----------------------------------------------------------------------------
(* Properties.                                                             *)

\* The hint raises the rate only with an authorization that expires: the gate is open exactly
\* while an expiry is set, the counters balance, and a rate above every estimate means an open gate.
HintAuthorized ==
  /\ g.state \in Open <=> g.untilIn # None
  /\ g.probes = IF g.state \in Open THEN 1 ELSE 0
  /\ g.state = "validated" => g.clean = NeededClean
  /\ (\A e \in Estimates : rate > e) => g.state \in Open

\* A withdrawn hint is not tried again before its cooldown has passed.
CooldownStep == g.cooldownIn > 0 /\ g.state = "revoked" => g'.state = "revoked"
=============================================================================
