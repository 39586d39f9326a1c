------------------------------ MODULE Deadlines ------------------------------
(***************************************************************************)
(* Deadlines kept with time.AfterFunc.  A timer that has fired cannot be   *)
(* stopped any more: its callback may run after a newer SetDeadline.       *)
(*   "session"  hysteria2 udpConn and tuic quicStreamPacketConn: the       *)
(*              callback closes the session.                               *)
(*   "read"     juicity TransportPacketConn: it cancels the read in        *)
(*              progress, if it is still the read and the deadline the     *)
(*              timer was armed for.                                       *)
(***************************************************************************)
EXTENDS Integers

CONSTANTS Kinds, MaxTime, MaxTimers, MaxReads, MaxSets

VARIABLES kind, now, deadline, version, sets, timer, timers, gen, active, cause, closed, early

vars == <<kind, now, deadline, version, sets, timer, timers, gen, active, cause, closed, early>>

None == 0
Off == [ph |-> "off", at |-> 0, gen |-> 0, version |-> 0]
Used == {i \in 1 .. MaxTimers : timers[i].ph # "off"}

Init ==
  /\ kind \in Kinds /\ now = 1 /\ deadline = None /\ version = 0 /\ sets = 0
  /\ timer = None /\ timers = [i \in 1 .. MaxTimers |-> Off]
  /\ gen = 0 /\ active = FALSE /\ cause = "none" /\ closed = FALSE /\ early = FALSE

\* Stop retracts a timer only before it fires.
Stopped == IF timer # None /\ timers[timer].ph = "armed" THEN [timers EXCEPT ![timer].ph = "done"] ELSE timers

\* AfterFunc: the next timer is armed.
Arm(at, g, v) ==
  \E i \in 1 .. MaxTimers :
    /\ timers[i].ph = "off" /\ \A j \in 1 .. (i - 1) : timers[j].ph # "off"
    /\ timer' = i /\ timers' = [Stopped EXCEPT ![i] = [ph |-> "armed", at |-> at, gen |-> g, version |-> v]]

Disarm == timer' = None /\ timers' = Stopped

SetSessionDeadline(t) ==
  /\ kind = "session" /\ sets < MaxSets /\ sets' = sets + 1 /\ deadline' = t
  /\ IF t = None THEN Disarm ELSE Arm(t, 0, 0)
  /\ UNCHANGED <<kind, now, version, gen, active, cause, closed, early>>

\* setStoredReadDeadline and armActiveReadTimerLocked.
SetReadDeadline(t) ==
  /\ kind = "read" /\ ~closed /\ sets < MaxSets /\ sets' = sets + 1
  /\ deadline' = t /\ version' = version + 1
  /\ IF ~active \/ t = None \/ t <= now THEN Disarm ELSE Arm(t, gen, version')
  /\ cause' = IF active /\ t # None /\ t <= now /\ cause = "none" THEN "deadline" ELSE cause
  /\ UNCHANGED <<kind, now, gen, active, closed, early>>

\* startReadContext
StartRead ==
  /\ kind = "read" /\ ~active /\ gen < MaxReads
  /\ gen' = gen + 1 /\ active' = TRUE
  /\ IF deadline = None \/ deadline <= now THEN Disarm ELSE Arm(deadline, gen', version)
  /\ cause' = IF closed THEN "closed" ELSE IF deadline # None /\ deadline <= now THEN "deadline" ELSE "none"
  /\ UNCHANGED <<kind, now, deadline, version, sets, closed, early>>

\* finishReadContext: a datagram came, or the context ended.
FinishRead ==
  /\ active /\ active' = FALSE /\ cause' = "none" /\ Disarm
  /\ UNCHANGED <<kind, now, deadline, version, sets, gen, closed, early>>

TimerFires(i) ==
  /\ timers[i].ph = "armed" /\ timers[i].at <= now
  /\ timers' = [timers EXCEPT ![i].ph = "fired"]
  /\ UNCHANGED <<kind, now, deadline, version, sets, timer, gen, active, cause, closed, early>>


\* The callback's check, under the mutex that SetDeadline takes too.
Current(i) ==
  IF kind = "session" THEN timer = i
  ELSE active /\ timers[i].gen = gen /\ timers[i].version = version

Callback(i) ==
  /\ timers[i].ph = "fired"
  /\ timers' = [timers EXCEPT ![i].ph = IF Current(i) THEN "acts" ELSE "done"]
  /\ timer' = IF Current(i) THEN None ELSE timer
  /\ early' = (early \/ (Current(i) /\ (deadline = None \/ now < deadline)))
  /\ UNCHANGED <<kind, now, deadline, version, sets, gen, active, cause, closed>>

\* Outside the mutex: the session is closed, the read's context cancelled.
CallbackActs(i) ==
  /\ timers[i].ph = "acts"
  /\ IF kind = "session"
     THEN /\ closed' = TRUE /\ timer' = None
          /\ timers' = [Stopped EXCEPT ![i].ph = "done"] /\ UNCHANGED cause
     ELSE /\ cause' = IF active /\ timers[i].gen = gen /\ cause = "none" THEN "deadline" ELSE cause
          /\ timers' = [timers EXCEPT ![i].ph = "done"] /\ UNCHANGED <<closed, timer>>
  /\ UNCHANGED <<kind, now, deadline, version, sets, gen, active, early>>

\* Close: a session also stops its timer, a read conn cancels every read.
Close ==
  /\ ~closed /\ closed' = TRUE
  /\ IF kind = "session" THEN Disarm ELSE UNCHANGED <<timer, timers>>
  /\ cause' = IF active /\ cause = "none" THEN "closed" ELSE cause
  /\ UNCHANGED <<kind, now, deadline, version, sets, gen, active, early>>

Tick ==
  /\ now < MaxTime /\ now' = now + 1
  /\ UNCHANGED <<kind, deadline, version, sets, timer, timers, gen, active, cause, closed, early>>

Next ==
  \/ \E t \in 0 .. MaxTime : SetSessionDeadline(t) \/ SetReadDeadline(t)
  \/ StartRead \/ FinishRead \/ Close \/ Tick
  \/ \E i \in 1 .. MaxTimers : TimerFires(i) \/ Callback(i) \/ CallbackActs(i)

Spec == Init /\ [][Next]_vars

-----------------------------------------------------------------------------
\* A callback acts only on the deadline in force, and only once it is past:
\* never on one a newer SetDeadline moved or cleared.
NeverEarly == ~early

\* A deadline in force on an open session, or on the read in progress, has a
\* timer of its own: armed, fired and not yet checked, or acting.
NoMissedDeadline ==
  deadline # None /\ ~closed /\ (kind = "read" => active /\ cause = "none")
    => \E i \in Used :
         /\ timers[i].ph \in {"armed", "fired", "acts"} /\ timers[i].at = deadline
         /\ kind = "read" => timers[i].gen = gen /\ timers[i].version = version

\* What the proofs assume of the constants.
Setting == Kinds \subseteq {"session", "read"} /\ MaxTimers \in Nat /\ MaxTime \in Nat
=============================================================================
