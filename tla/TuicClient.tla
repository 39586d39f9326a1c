----------------------------- MODULE TuicClient -----------------------------
(***************************************************************************)
(* One TUIC client (clientImpl in protocol/tuic/client.go) and the UDP     *)
(* associations on its tunnel (quicStreamPacketConn in packet.go): lazy    *)
(* dial under connMutex, retirement by forceClose from any goroutine, the  *)
(* grace timer that closes the transport, and the associations' own Close  *)
(* and deadline timers.                                                    *)
(*                                                                         *)
(* A client dials one connection in its life, so the connection needs no   *)
(* identity.  The queue of an association is open or closed here; what     *)
(* happens inside it is TuicPackets.                                       *)
(***************************************************************************)
EXTENDS Integers, FiniteSets, TLAPS

CONSTANTS
  Callers,           \* goroutines that dial streams or associations
  Assocs,            \* association objects a run may create
  Loop, Uni, Writer, User,  \* handleMessage, a uni-stream goroutine, a writer, Close
  Free,              \* connMutex not held
  Threshold,         \* malformedDatagramEscalationThreshold
  MaxDeadlines       \* bound: SetDeadline calls per association

Goroutines == Callers \cup Assocs \cup {Loop, Uni, Writer, User}

VARIABLES
  mutex,     \* connMutex: the caller that holds it across a dial, or Free
  closed,    \* clientImpl.closed; done is closed in the same critical section
  hook,      \* onClose: "set", "due" (goroutine started), "ran"
  attached,  \* quicConn and underConn are set
  conn,      \* the QUIC connection: "nil", "live", "dead" (its context is done)
  under,     \* its transport and socket: "none", "open", "closed"
  timer,     \* grace timer: "off", "armed", "closing" (resources detached), "done"
  window,    \* malformedDatagramsWindow
  pc,        \* callers
  force,     \* goroutines in forceClose: "no", "lock", "range"
  loop,      \* handleMessage: "off", "run", "done"
  entries,   \* udpIncomingPacketsMap
  queue,     \* per association: "none", "open", "closed"
  apc,       \* per association: "none", "open", and the steps of close
  reading,   \* ReadFrom is blocked in PopFrontBlock
  deadline,  \* generation of the armed deadline timer, 0 for none
  fired,     \* generations whose callback has started and waits for muTimer
  gens,      \* generations used
  expired    \* deadlineExceeded

connVars  == <<attached, conn, under, loop>>
lifeVars  == <<closed, hook, timer>>
timeVars  == <<deadline, fired, gens, expired>>
assocVars == <<entries, queue, apc, reading, timeVars>>
vars == <<mutex, lifeVars, connVars, window, pc, force, assocVars>>

TypeOK ==
  /\ mutex \in Callers \cup {Free}
  /\ closed \in BOOLEAN
  /\ hook \in {"set", "due", "ran"}
  /\ attached \in BOOLEAN
  /\ conn \in {"nil", "live", "dead"}
  /\ under \in {"none", "open", "closed"}
  /\ timer \in {"off", "armed", "closing", "done"}
  /\ window \in 0..(Threshold - 1)
  /\ pc \in [Callers -> {"idle", "dialLock", "listenLock", "dial", "listenDial", "stream"}]
  /\ force \in [Goroutines -> {"no", "lock", "range"}]
  /\ loop \in {"off", "run", "done"}
  /\ entries \in SUBSET Assocs
  /\ queue \in [Assocs -> {"none", "open", "closed"}]
  /\ apc \in [Assocs -> {"none", "open", "queue", "dissociate", "leave", "closed"}]
  /\ reading \in [Assocs -> BOOLEAN]
  /\ deadline \in [Assocs -> 0..MaxDeadlines]
  /\ fired \in [Assocs -> SUBSET (1..MaxDeadlines)]
  /\ gens \in [Assocs -> 0..MaxDeadlines]
  /\ expired \in [Assocs -> BOOLEAN]

Init ==
  /\ mutex = Free
  /\ closed = FALSE
  /\ hook = "set"
  /\ attached = FALSE
  /\ conn = "nil"
  /\ under = "none"
  /\ timer = "off"
  /\ window = 0
  /\ pc = [c \in Callers |-> "idle"]
  /\ force = [g \in Goroutines |-> "no"]
  /\ loop = "off"
  /\ entries = {}
  /\ queue = [a \in Assocs |-> "none"]
  /\ apc = [a \in Assocs |-> "none"]
  /\ reading = [a \in Assocs |-> FALSE]
  /\ deadline = [a \in Assocs |-> 0]
  /\ fired = [a \in Assocs |-> {}]
  /\ gens = [a \in Assocs |-> 0]
  /\ expired = [a \in Assocs |-> FALSE]

Enter(g) == force' = [force EXCEPT ![g] = "lock"]

-----------------------------------------------------------------------------
(* DialContextWithDialer and ListenPacketWithDialer                        *)

\* The check of closed in front of the lock.  Bound: a listen starts while
\* every listen under way still has an association object.
Call(c) ==
  /\ pc[c] = "idle"
  /\ force[c] = "no"
  /\ ~closed
  /\ \/ pc' = [pc EXCEPT ![c] = "dialLock"]
     \/ /\ Cardinality({a \in Assocs : apc[a] = "none"})
             > Cardinality({d \in Callers : pc[d] \in {"listenLock", "listenDial"}})
        /\ pc' = [pc EXCEPT ![c] = "listenLock"]
  /\ UNCHANGED <<mutex, lifeVars, connVars, window, force, assocVars>>

\* An association is published: its queue goes into the map.
Publish ==
  \E a \in Assocs :
    /\ apc[a] = "none"
    /\ apc' = [apc EXCEPT ![a] = "open"]
    /\ queue' = [queue EXCEPT ![a] = "open"]
    /\ entries' = entries \cup {a}
    /\ UNCHANGED <<reading, timeVars>>

\* ctx.Err() at one of the checks behind the lock.
Cancelled(c) ==
  /\ pc' = [pc EXCEPT ![c] = "idle"]
  /\ UNCHANGED assocVars

\* Under connMutex with a connection: a dialer goes on with it, a listener
\* publishes its association before the mutex is released.
Serve(c, listening) ==
  IF listening
  THEN pc' = [pc EXCEPT ![c] = "idle"] /\ Publish
  ELSE pc' = [pc EXCEPT ![c] = "stream"] /\ UNCHANGED assocVars

\* Mutant of GetConn: closed is not checked again under connMutex.
GetConnUnchecked(c) ==
  /\ pc[c] \in {"dialLock", "listenLock"}
  /\ mutex = Free
  /\ \/ /\ attached
        /\ Cancelled(c) \/ Serve(c, pc[c] = "listenLock")
        /\ UNCHANGED mutex
     \/ /\ ~attached
        /\ mutex' = c
        /\ pc' = [pc EXCEPT ![c] = IF pc[c] = "dialLock" THEN "dial" ELSE "listenDial"]
        /\ UNCHANGED assocVars
  /\ UNCHANGED <<lifeVars, connVars, window, force>>

\* getQuicConnLocked up to the dial, which keeps the mutex.
GetConn(c) ==
  /\ pc[c] \in {"dialLock", "listenLock"}
  /\ mutex = Free
  /\ \/ /\ closed
        /\ pc' = [pc EXCEPT ![c] = "idle"]
        /\ UNCHANGED <<mutex, assocVars>>
     \/ /\ ~closed
        /\ attached
        /\ Cancelled(c) \/ Serve(c, pc[c] = "listenLock")
        /\ UNCHANGED mutex
     \/ /\ ~closed
        /\ ~attached
        /\ mutex' = c
        /\ pc' = [pc EXCEPT ![c] = IF pc[c] = "dialLock" THEN "dial" ELSE "listenDial"]
        /\ UNCHANGED assocVars
  /\ UNCHANGED <<lifeVars, connVars, window, force>>

\* The dial, the handshake or the authentication failed: the attempt's own
\* transport is closed on the spot and the client stays as it was.
DialFails(c) ==
  /\ pc[c] \in {"dial", "listenDial"}
  /\ mutex' = Free
  /\ pc' = [pc EXCEPT ![c] = "idle"]
  /\ UNCHANGED <<lifeVars, connVars, window, force, assocVars>>

\* The tunnel is up; handleMessage starts before the mutex is released.
DialSucceeds(c) ==
  /\ pc[c] \in {"dial", "listenDial"}
  /\ mutex' = Free
  /\ attached' = TRUE
  /\ conn' = "live"
  /\ under' = "open"
  /\ loop' = "run"
  /\ \/ pc[c] = "listenDial" /\ Cancelled(c)
     \/ Serve(c, pc[c] = "listenDial")
  /\ UNCHANGED <<lifeVars, window, force>>

\* Opening the stream and writing the request; deferQuicConn leaves the
\* client alone behind a stream error or a temporary error and calls
\* forceClose behind any other error or on a dead connection.
Stream(c) ==
  /\ pc[c] = "stream"
  /\ pc' = [pc EXCEPT ![c] = "idle"]
  /\ UNCHANGED force \/ Enter(c)
  /\ UNCHANGED <<mutex, lifeVars, connVars, window, assocVars>>

-----------------------------------------------------------------------------
(* Who else calls forceClose                                               *)

\* Client.Close, from the ring or the owner.
CloseClient ==
  /\ force[User] = "no"
  /\ ~closed
  /\ Enter(User)
  /\ UNCHANGED <<mutex, lifeVars, connVars, window, pc, assocVars>>

\* Mutant of LoopEnds: handleMessage returns without deferQuicConn.
LoopJustEnds ==
  /\ loop = "run"
  /\ conn = "dead"
  /\ force[Loop] = "no"
  /\ loop' = "done"
  /\ UNCHANGED <<mutex, lifeVars, attached, conn, under, window, pc, force, assocVars>>

\* handleMessage returns once the connection is dead.
LoopEnds ==
  /\ loop = "run"
  /\ conn = "dead"
  /\ force[Loop] = "no"
  /\ loop' = "done"
  /\ Enter(Loop)
  /\ UNCHANGED <<mutex, lifeVars, attached, conn, under, window, pc, assocVars>>

\* processDatagram: a malformed datagram is counted and at the threshold
\* restarts the window and retires the client; behind every datagram
\* deferQuicConn looks at the connection.
Datagram ==
  /\ loop = "run"
  /\ force[Loop] = "no"
  /\ \E malformed \in BOOLEAN :
       LET escalate == malformed /\ window + 1 >= Threshold IN
       /\ window' = CASE escalate -> 0
                      [] malformed /\ ~escalate -> window + 1
                      [] OTHER -> window
       /\ IF escalate \/ conn = "dead" THEN Enter(Loop) ELSE UNCHANGED force
  /\ UNCHANGED <<mutex, lifeVars, connVars, pc, assocVars>>

\* A uni stream whose packet cannot be read.
UniStreamFails ==
  /\ conn # "nil"
  /\ force[Uni] = "no"
  /\ Enter(Uni)
  /\ UNCHANGED <<mutex, lifeVars, connVars, window, pc, assocVars>>

\* WriteTo passed its checks of closed and done, and the send failed hard.
WriteFails ==
  /\ force[Writer] = "no"
  /\ ~closed
  /\ \E a \in Assocs : apc[a] = "open"
  /\ Enter(Writer)
  /\ UNCHANGED <<mutex, lifeVars, connVars, window, pc, assocVars>>

\* The peer closes the connection, or it times out.
ConnDies ==
  /\ conn = "live"
  /\ conn' = "dead"
  /\ UNCHANGED <<mutex, lifeVars, attached, under, loop, window, pc, force, assocVars>>

-----------------------------------------------------------------------------
(* forceClose                                                              *)

\* Mutant of ForceLock: a second forceClose is not turned away.
ForceLockAgain(g) ==
  /\ force[g] = "lock"
  /\ mutex = Free
  /\ closed' = TRUE
  /\ hook' = "due"
  /\ force' = [force EXCEPT ![g] = "range"]
  /\ UNCHANGED <<mutex, timer, connVars, window, pc, assocVars>>

\* The critical section: the first one in retires the client.
ForceLock(g) ==
  /\ force[g] = "lock"
  /\ mutex = Free
  /\ IF closed
     THEN force' = [force EXCEPT ![g] = "no"] /\ UNCHANGED <<closed, hook>>
     ELSE /\ closed' = TRUE
          /\ hook' = "due"
          /\ force' = [force EXCEPT ![g] = "range"]
  /\ UNCHANGED <<mutex, timer, connVars, window, pc, assocVars>>

\* One round of the loop over the map: close the queue, delete the entry.
RangeClose(g) ==
  /\ force[g] = "range"
  /\ \E a \in entries :
       /\ queue' = [queue EXCEPT ![a] = "closed"]
       /\ entries' = entries \ {a}
  /\ UNCHANGED <<mutex, lifeVars, connVars, window, pc, force, apc, reading, timeVars>>

\* The map is empty: arm the grace timer.
ArmTimer(g) ==
  /\ force[g] = "range"
  /\ entries = {}
  /\ timer' = "armed"
  /\ force' = [force EXCEPT ![g] = "no"]
  /\ UNCHANGED <<mutex, closed, hook, connVars, window, pc, assocVars>>

\* The timer's callback: detach under connMutex ...
TimerDetaches ==
  /\ timer = "armed"
  /\ mutex = Free
  /\ timer' = "closing"
  /\ attached' = FALSE
  /\ UNCHANGED <<mutex, closed, hook, conn, under, loop, window, pc, force, assocVars>>

\* ... and close connection and socket outside it.
TimerCloses ==
  /\ timer = "closing"
  /\ timer' = "done"
  /\ conn' = IF conn = "nil" THEN "nil" ELSE "dead"
  /\ under' = IF under = "none" THEN "none" ELSE "closed"
  /\ UNCHANGED <<mutex, closed, hook, attached, loop, window, pc, force, assocVars>>

RunHook ==
  /\ hook = "due"
  /\ hook' = "ran"
  /\ UNCHANGED <<mutex, closed, timer, connVars, window, pc, force, assocVars>>

-----------------------------------------------------------------------------
(* The association's own life                                              *)

Read(a) ==
  /\ apc[a] \in {"open", "queue"}
  /\ ~reading[a]
  /\ reading' = [reading EXCEPT ![a] = TRUE]
  /\ UNCHANGED <<mutex, lifeVars, connVars, window, pc, force, entries, queue, apc, timeVars>>

\* ReadFrom returns with a packet, or because the queue was closed.
ReadReturns(a) ==
  /\ reading[a]
  /\ queue[a] = "closed" \/ (a \in entries /\ loop = "run" /\ conn = "live")
  /\ reading' = [reading EXCEPT ![a] = FALSE]
  /\ UNCHANGED <<mutex, lifeVars, connVars, window, pc, force, entries, queue, apc, timeVars>>

\* closeOnce: the first Close runs the body.
CloseAssoc(a) ==
  /\ apc[a] = "open"
  /\ apc' = [apc EXCEPT ![a] = "queue"]
  /\ UNCHANGED <<mutex, lifeVars, connVars, window, pc, force, entries, queue, reading, timeVars>>

CloseQueue(a) ==
  /\ apc[a] = "queue"
  /\ apc' = [apc EXCEPT ![a] = "dissociate"]
  /\ queue' = [queue EXCEPT ![a] = "closed"]
  /\ UNCHANGED <<mutex, lifeVars, connVars, window, pc, force, entries, reading, timeVars>>

\* The Dissociate command: deferQuicConn retires the client behind a hard
\* error or on a dead connection, and leaves it alone otherwise.
Dissociate(a) ==
  /\ apc[a] = "dissociate"
  /\ apc' = [apc EXCEPT ![a] = "leave"]
  /\ UNCHANGED force \/ Enter(a)
  /\ UNCHANGED <<mutex, lifeVars, connVars, window, pc, entries, queue, reading, timeVars>>

\* closeDeferFn: CompareAndDelete of the association's own entry.
LeaveMap(a) ==
  /\ apc[a] = "leave"
  /\ force[a] = "no"
  /\ apc' = [apc EXCEPT ![a] = "closed"]
  /\ entries' = entries \ {a}
  /\ UNCHANGED <<mutex, lifeVars, connVars, window, pc, force, queue, reading, timeVars>>

\* SetDeadline stops the armed timer and arms a new one (t zero: none).  A
\* callback that has started is not stopped.
SetDeadline(a) ==
  /\ apc[a] # "none"
  /\ \/ /\ gens[a] < MaxDeadlines
        /\ gens' = [gens EXCEPT ![a] = @ + 1]
        /\ deadline' = [deadline EXCEPT ![a] = gens[a] + 1]
     \/ /\ deadline[a] # 0
        /\ deadline' = [deadline EXCEPT ![a] = 0]
        /\ UNCHANGED gens
  /\ UNCHANGED <<mutex, lifeVars, connVars, window, pc, force, entries, queue, apc, reading,
                 fired, expired>>

\* The armed timer's time is up: its callback starts and waits for muTimer.
DeadlineFires(a) ==
  /\ deadline[a] # 0
  /\ deadline[a] \notin fired[a]
  /\ fired' = [fired EXCEPT ![a] = @ \cup {deadline[a]}]
  /\ UNCHANGED <<mutex, lifeVars, connVars, window, pc, force, entries, queue, apc, reading,
                 deadline, gens, expired>>

\* Mutant of DeadlineCallback: any callback closes the association.
AnyCallbackCloses(a, n) ==
  /\ n \in fired[a]
  /\ fired' = [fired EXCEPT ![a] = @ \ {n}]
  /\ deadline' = [deadline EXCEPT ![a] = 0]
  /\ expired' = [expired EXCEPT ![a] = TRUE]
  /\ apc' = [apc EXCEPT ![a] = IF @ = "open" THEN "queue" ELSE @]
  /\ UNCHANGED <<mutex, lifeVars, connVars, window, pc, force, entries, queue, reading, gens>>

\* The callback acts only for the timer that is still armed.
DeadlineCallback(a, n) ==
  /\ n \in fired[a]
  /\ fired' = [fired EXCEPT ![a] = @ \ {n}]
  /\ IF deadline[a] = n
     THEN /\ deadline' = [deadline EXCEPT ![a] = 0]
          /\ expired' = [expired EXCEPT ![a] = TRUE]
          /\ apc' = [apc EXCEPT ![a] = IF @ = "open" THEN "queue" ELSE @]
     ELSE UNCHANGED <<deadline, expired, apc>>
  /\ UNCHANGED <<mutex, lifeVars, connVars, window, pc, force, entries, queue, reading, gens>>

-----------------------------------------------------------------------------
CallStep(c) == GetConn(c) \/ DialFails(c) \/ DialSucceeds(c) \/ Stream(c)
ForceStep(g) == ForceLock(g) \/ RangeClose(g) \/ ArmTimer(g)
CloseStep(a) == CloseQueue(a) \/ Dissociate(a) \/ LeaveMap(a)

Next ==
  \/ \E c \in Callers : Call(c) \/ CallStep(c)
  \/ CloseClient \/ LoopEnds \/ Datagram \/ UniStreamFails \/ WriteFails \/ ConnDies
  \/ \E g \in Goroutines : ForceStep(g)
  \/ TimerDetaches \/ TimerCloses \/ RunHook
  \/ \E a \in Assocs :
       \/ Read(a) \/ ReadReturns(a) \/ CloseAssoc(a) \/ CloseStep(a)
       \/ SetDeadline(a) \/ DeadlineFires(a)
       \/ \E n \in 1..MaxDeadlines : DeadlineCallback(a, n)

Spec == Init /\ [][Next]_vars

-----------------------------------------------------------------------------
\* Once forceClose has gone over the map, no association has an open queue and
\* none comes after it: a listener that raced the retirement either published
\* before it, and its queue was closed with the others, or was turned away by
\* the second look at closed in ListenPacketWithDialer.
RetirementReachesEveryQueue ==
  timer # "off" => entries = {} /\ \A a \in Assocs : queue[a] # "open"

\* The socket is open only while the client holds it or its grace timer is
\* about to close it, and after that timer no later dial brings one back.
TransportIsOwned ==
  /\ under = "open" => attached \/ timer = "closing"
  /\ timer = "done" => ~attached

\* The transport outlives the retirement: while the client is in service its
\* socket is never closed under the streams that use it.
ServiceKeepsTransport ==
  under = "closed" => closed /\ timer = "done"

\* A retired client leaves no association queue open that nobody will close; its
\* transport always has somebody who will close it, and is open while it serves.
TuicClientSafe ==
  TypeOK /\ RetirementReachesEveryQueue /\ TransportIsOwned /\ ServiceKeepsTransport

\* A deadline closes an association only if the timer that is armed is the one
\* that fired: a callback that lost the race with SetDeadline changes nothing.
StaleDeadlineIsHarmless ==
  [][\A a \in Assocs : expired'[a] # expired[a] => deadline[a] \in fired[a]]_vars

\* The client does what the ring relies on: one tunnel, one retirement, and the
\* ring's hook started once.
life == IF closed THEN "closed" ELSE IF attached THEN "up" ELSE "fresh"
Ring == INSTANCE RingClient
ImplementsRingClient == Ring!Spec

\* A dead connection retires the client: it is not handed out for ever.
DeadTunnelRetires == conn = "dead" ~> closed

\* A retired client releases its socket and reports to the ring.
RetirementCompletes == closed ~> under # "open" /\ hook = "ran"

\* A reader blocked on a retired client returns.
ReadersReturn == \A a \in Assocs : (closed /\ reading[a]) ~> ~reading[a]

-----------------------------------------------------------------------------
(* Proofs about TuicClient, for any callers, associations, datagram        *)
(* threshold and number of deadlines: the safety of a retirement, the      *)
(* harmlessness of a stale deadline callback, and that the client is one   *)
(* the failover ring can rely on.                                          *)

\* What the proofs assume of the constants: no caller is the free mutex, and
\* the threshold is a positive count (it is 8 in the code).
Setting ==
  /\ Free \notin Callers
  /\ Threshold \in Nat \ {0}
  /\ MaxDeadlines \in Nat

-----------------------------------------------------------------------------
(* The inductive invariant                                                 *)

\* connMutex: who dials holds it, and holds it only on a client that is neither
\* closed nor connected.
DialHoldsMutex ==
  /\ \A c \in Callers : pc[c] \in {"dial", "listenDial"} => mutex = c
  /\ mutex # Free => ~closed /\ ~attached

\* One forceClose gets past the lock, and the timer is its last step.
OneSweep ==
  /\ \A g \in Goroutines : force[g] = "range" => closed /\ timer = "off"
  /\ \A g, h \in Goroutines : force[g] = "range" /\ force[h] = "range" => g = h
  /\ timer # "off" => closed

HookFollowsClosed == closed <=> hook # "set"

\* An open queue can be found by the sweep: the association takes its entry
\* away only once its queue is closed.
OpenQueueInMap ==
  /\ \A a \in Assocs : queue[a] = "open" => a \in entries
  /\ \A a \in Assocs : apc[a] \in {"dissociate", "leave", "closed"} => queue[a] = "closed"
  /\ timer # "off" => entries = {}

\* The stages of the transport.
TransportStages ==
  /\ under = "open" => attached \/ timer = "closing"
  /\ timer \in {"closing", "done"} => ~attached
  /\ under = "closed" => timer = "done"

TuicInv ==
  /\ TypeOK
  /\ DialHoldsMutex
  /\ OneSweep
  /\ HookFollowsClosed
  /\ OpenQueueInMap
  /\ TransportStages

-----------------------------------------------------------------------------
(* Every step preserves it                                                 *)

\* The steps of a dial or a listen.  An association is published only while the
\* client is not closed: by GetConn's look under the mutex, or because the dial
\* that just ended kept everybody else from closing it.
LEMMA CallerSteps ==
  ASSUME Setting, TuicInv, NEW c \in Callers,
         Call(c) \/ GetConn(c) \/ DialFails(c) \/ DialSucceeds(c) \/ Stream(c)
  PROVE  TuicInv'
<1> USE DEF TuicInv, DialHoldsMutex, OneSweep, HookFollowsClosed, OpenQueueInMap,
            TransportStages, lifeVars, connVars, timeVars, assocVars
<1>1. CASE Call(c)
  BY <1>1, SMTT(30), Zenon DEF Setting, TypeOK, Call
<1>2. CASE GetConn(c)
  BY <1>2, SMTT(30) DEF Setting, TypeOK, GetConn, Cancelled, Serve, Publish
<1>3. CASE DialFails(c)
  BY <1>3, SMTT(30), Zenon DEF Setting, TypeOK, DialFails
<1>4. CASE DialSucceeds(c)
  BY <1>4, SMTT(30), Zenon DEF Setting, TypeOK, DialSucceeds, Cancelled, Serve, Publish
<1>5. CASE Stream(c)
  BY <1>5, SMTT(30), Zenon DEF Setting, TypeOK, Stream, Enter, Goroutines
<1> QED
  BY <1>1, <1>2, <1>3, <1>4, <1>5, Zenon

\* The steps of the goroutines that may call forceClose, and the peer's.
LEMMA LoopSteps ==
  ASSUME Setting, TuicInv,
         CloseClient \/ LoopEnds \/ Datagram \/ UniStreamFails \/ WriteFails \/ ConnDies
  PROVE  TuicInv'
<1> USE DEF TuicInv, DialHoldsMutex, OneSweep, HookFollowsClosed, OpenQueueInMap,
            TransportStages, lifeVars, connVars, timeVars, assocVars
<1>1. CASE CloseClient
  BY <1>1, SMTT(30), Zenon DEF Setting, TypeOK, CloseClient, Enter, Goroutines
<1>2. CASE LoopEnds
  BY <1>2, SMTT(30), Zenon DEF Setting, TypeOK, LoopEnds, Enter, Goroutines
<1>3. CASE Datagram
  BY <1>3, SMTT(30), Zenon DEF Setting, TypeOK, Datagram, Enter, Goroutines
<1>4. CASE UniStreamFails
  BY <1>4, SMTT(30), Zenon DEF Setting, TypeOK, UniStreamFails, Enter, Goroutines
<1>5. CASE WriteFails
  BY <1>5, SMTT(30), Zenon DEF Setting, TypeOK, WriteFails, Enter, Goroutines
<1>6. CASE ConnDies
  BY <1>6, SMTT(30), Zenon DEF Setting, TypeOK, ConnDies
<1> QED
  BY <1>1, <1>2, <1>3, <1>4, <1>5, <1>6, Zenon

\* The steps of forceClose.  Only the first goroutine finds the client open, so
\* one sweep runs, and it arms the timer on an empty map.
LEMMA RetireSteps ==
  ASSUME Setting, TuicInv, NEW g \in Goroutines,
         ForceLock(g) \/ RangeClose(g) \/ ArmTimer(g)
  PROVE  TuicInv'
<1> USE DEF TuicInv, DialHoldsMutex, OneSweep, HookFollowsClosed, OpenQueueInMap,
            TransportStages, lifeVars, connVars, timeVars, assocVars
<1>1. CASE ForceLock(g)
  <2>1. TypeOK'
    BY <1>1, Zenon DEF TypeOK, ForceLock
  <2>2. DialHoldsMutex' /\ OneSweep' /\ HookFollowsClosed' /\ OpenQueueInMap' /\ TransportStages'
    BY <1>1 DEF Setting, TypeOK, ForceLock
  <2> QED
    BY <2>1, <2>2, Zenon
<1>2. CASE RangeClose(g)
  BY <1>2, SMTT(30), Zenon DEF Setting, TypeOK, RangeClose
<1>3. CASE ArmTimer(g)
  BY <1>3, SMTT(30), Zenon DEF Setting, TypeOK, ArmTimer
<1> QED
  BY <1>1, <1>2, <1>3, Zenon

\* The grace timer and the ring's hook.
LEMMA TimerSteps ==
  ASSUME Setting, TuicInv,
         TimerDetaches \/ TimerCloses \/ RunHook
  PROVE  TuicInv'
<1> USE DEF TuicInv, DialHoldsMutex, OneSweep, HookFollowsClosed, OpenQueueInMap,
            TransportStages, lifeVars, connVars, timeVars, assocVars
<1>1. CASE TimerDetaches
  <2>1. TypeOK'
    BY <1>1, Zenon DEF TypeOK, TimerDetaches
  <2>2. DialHoldsMutex' /\ OneSweep' /\ HookFollowsClosed' /\ OpenQueueInMap' /\ TransportStages'
    BY <1>1, Zenon DEF Setting, TypeOK, TimerDetaches
  <2> QED
    BY <2>1, <2>2, Zenon
<1>2. CASE TimerCloses
  BY <1>2, SMTT(30), Zenon DEF Setting, TypeOK, TimerCloses
<1>3. CASE RunHook
  BY <1>3, SMTT(30), Zenon DEF Setting, TypeOK, RunHook
<1> QED
  BY <1>1, <1>2, <1>3, Zenon

\* The association's own steps.  LeaveMap comes behind CloseQueue, so the entry
\* that goes is one of a closed queue.
LEMMA AssocSteps ==
  ASSUME Setting, TuicInv, NEW a \in Assocs,
         Read(a) \/ ReadReturns(a) \/ CloseAssoc(a) \/ CloseQueue(a) \/ Dissociate(a) \/ LeaveMap(a) \/ SetDeadline(a) \/ DeadlineFires(a)
  PROVE  TuicInv'
<1> USE DEF TuicInv, DialHoldsMutex, OneSweep, HookFollowsClosed, OpenQueueInMap,
            TransportStages, lifeVars, connVars, timeVars, assocVars
<1>1. CASE Read(a)
  BY <1>1, SMTT(30), Zenon DEF Setting, TypeOK, Read
<1>2. CASE ReadReturns(a)
  BY <1>2, SMTT(30), Zenon DEF Setting, TypeOK, ReadReturns
<1>3. CASE CloseAssoc(a)
  BY <1>3, SMTT(30), Zenon DEF Setting, TypeOK, CloseAssoc
<1>4. CASE CloseQueue(a)
  BY <1>4, SMTT(30), Zenon DEF Setting, TypeOK, CloseQueue
<1>5. CASE Dissociate(a)
  BY <1>5, SMTT(30) DEF Setting, TypeOK, Dissociate, Enter, Goroutines
<1>6. CASE LeaveMap(a)
  BY <1>6, SMTT(30), Zenon DEF Setting, TypeOK, LeaveMap
<1>7. CASE SetDeadline(a)
  BY <1>7, SMTT(30), Zenon DEF Setting, TypeOK, SetDeadline
<1>8. CASE DeadlineFires(a)
  BY <1>8, SMTT(30), Zenon DEF Setting, TypeOK, DeadlineFires
<1> QED
  BY <1>1, <1>2, <1>3, <1>4, <1>5, <1>6, <1>7, <1>8, Zenon

\* The callback of a deadline timer.
LEMMA CallbackStep ==
  ASSUME Setting, TuicInv, NEW a \in Assocs, NEW n \in 1..MaxDeadlines,
         DeadlineCallback(a, n)
  PROVE  TuicInv'
<1> USE DEF TuicInv, DialHoldsMutex, OneSweep, HookFollowsClosed, OpenQueueInMap,
            TransportStages, lifeVars, connVars, timeVars, assocVars
<1>1. CASE DeadlineCallback(a, n)
  <2>1. TypeOK'
    <3>1. /\ deadline' \in [Assocs -> 0..MaxDeadlines]
          /\ fired' \in [Assocs -> SUBSET (1..MaxDeadlines)]
      BY <1>1 DEF Setting, TypeOK, DeadlineCallback
    <3>2. expired' \in [Assocs -> BOOLEAN]
      BY <1>1, Zenon DEF TypeOK, DeadlineCallback
    <3>3. apc' \in [Assocs -> {"none", "open", "queue", "dissociate", "leave", "closed"}]
      BY <1>1 DEF TypeOK, DeadlineCallback
    <3> QED
      BY <1>1, <3>1, <3>2, <3>3 DEF TypeOK, DeadlineCallback
  <2>2. DialHoldsMutex' /\ OneSweep' /\ HookFollowsClosed' /\ OpenQueueInMap' /\ TransportStages'
    BY <1>1 DEF Setting, TypeOK, DeadlineCallback
  <2> QED
    BY <2>1, <2>2, Zenon
<1> QED
  BY <1>1, Zenon

\* No step leaves the invariant.
LEMMA TuicStep ==
  ASSUME Setting, TuicInv, [Next]_vars
  PROVE  TuicInv'
<1>1. CASE \E c \in Callers : Call(c) \/ CallStep(c)
  BY <1>1, CallerSteps, Zenon DEF CallStep
<1>2. CASE CloseClient \/ LoopEnds \/ Datagram \/ UniStreamFails \/ WriteFails \/ ConnDies
  BY <1>2, LoopSteps, Zenon
<1>3. CASE \E g \in Goroutines : ForceStep(g)
  BY <1>3, RetireSteps, Zenon DEF ForceStep
<1>4. CASE TimerDetaches \/ TimerCloses \/ RunHook
  BY <1>4, TimerSteps, Zenon
<1>5. CASE \E a \in Assocs :
             \/ Read(a) \/ ReadReturns(a) \/ CloseAssoc(a) \/ CloseStep(a)
             \/ SetDeadline(a) \/ DeadlineFires(a)
             \/ \E n \in 1..MaxDeadlines : DeadlineCallback(a, n)
  BY <1>5, AssocSteps, CallbackStep, Zenon DEF CloseStep
<1>6. CASE UNCHANGED vars
  BY <1>6 DEF vars, lifeVars, connVars, timeVars, assocVars, TuicInv, TypeOK, DialHoldsMutex,
              OneSweep, HookFollowsClosed, OpenQueueInMap, TransportStages
<1> QED
  BY <1>1, <1>2, <1>3, <1>4, <1>5, <1>6, Zenon DEF Next

\* TuicInv holds in every reachable state, for any callers and associations.
THEOREM TuicInvariant == ASSUME Setting PROVE Spec => []TuicInv
<1>1. Init => TuicInv
  <2> SUFFICES ASSUME Init PROVE TuicInv
    OBVIOUS
  <2>1. closed \in BOOLEAN /\ attached \in BOOLEAN
    BY Zenon DEF Init
  <2>2. TypeOK
    BY <2>1 DEF Setting, Init, TypeOK
  <2>3. DialHoldsMutex /\ OneSweep /\ HookFollowsClosed /\ OpenQueueInMap /\ TransportStages
    BY Zenon DEF Init, DialHoldsMutex, OneSweep, HookFollowsClosed, OpenQueueInMap, TransportStages
  <2> QED
    BY <2>2, <2>3, Zenon DEF TuicInv
<1>2. TuicInv /\ [Next]_vars => TuicInv'
  BY TuicStep, Zenon
<1> QED
  BY <1>1, <1>2, PTL DEF Spec

-----------------------------------------------------------------------------
(* What follows                                                            *)

\* The retirement of a TUIC client is safe: whatever goroutines call forceClose
\* and however they race listens, dials and the associations' own Close, no
\* association keeps an open queue, the socket always has an owner, and it is
\* not closed while the client serves.
THEOREM RetirementIsSafe == ASSUME Setting PROVE Spec => []TuicClientSafe
<1>1. TuicInv => TuicClientSafe
  BY Zenon DEF TuicInv, TuicClientSafe, OneSweep, OpenQueueInMap, TransportStages,
         RetirementReachesEveryQueue, TransportIsOwned, ServiceKeepsTransport
<1> QED
  BY <1>1, TuicInvariant, PTL

\* The callback of a deadline timer that SetDeadline has replaced expires
\* nothing: an association expires by the timer that is armed.
THEOREM StaleCallbacksAreHarmless == ASSUME Setting PROVE Spec => StaleDeadlineIsHarmless
<1> DEFINE Expires == \A a \in Assocs : expired'[a] # expired[a] => deadline[a] \in fired[a]
<1>1. ASSUME TuicInv, [Next]_vars PROVE [Expires]_vars
  <2>1. CASE \E a \in Assocs : \E n \in 1..MaxDeadlines : DeadlineCallback(a, n)
    BY <1>1, <2>1 DEF TuicInv, TypeOK, DeadlineCallback
  <2>2. CASE ~ \E a \in Assocs : \E n \in 1..MaxDeadlines : DeadlineCallback(a, n)
    <3>1. UNCHANGED expired
      BY <1>1, <2>2, Zenon DEF Next, vars, assocVars, timeVars, Call, CallStep, GetConn, DialFails, DialSucceeds,
         Stream, Serve, Publish, Cancelled, CloseClient, LoopEnds, Datagram, UniStreamFails, WriteFails,
         ConnDies, ForceStep, ForceLock, RangeClose, ArmTimer, TimerDetaches, TimerCloses, RunHook, Read,
         ReadReturns, CloseAssoc, CloseStep, CloseQueue, Dissociate, LeaveMap, SetDeadline, DeadlineFires
    <3> QED
      BY <3>1, Zenon
  <2> QED
    BY <2>1, <2>2, Zenon
<1> QED
  BY <1>1, TuicInvariant, PTL DEF Spec, StaleDeadlineIsHarmless

\* A TUIC client is a client as the ring expects it: it connects at most once,
\* retires for good, and its retirement starts the ring's hook exactly once.
THEOREM TuicImplementsRingClient == ASSUME Setting PROVE Spec => ImplementsRingClient
<1>1. Init => Ring!Init
  BY Zenon DEF Init, Ring!Init, life
<1>2. ASSUME Setting, TuicInv, [Next]_vars PROVE [Ring!Next]_(Ring!vars)
  <2> USE DEF Ring!Next, Ring!Connect, Ring!Retire, Ring!RunHook, Ring!vars, life,
              lifeVars, connVars
  <2>1. CASE \E c \in Callers : DialSucceeds(c)
    BY <1>2, <2>1 DEF TuicInv, TypeOK, DialHoldsMutex, Setting, DialSucceeds
  <2>2. CASE \E g \in Goroutines : ForceLock(g)
    BY <1>2, <2>2, Zenon DEF TuicInv, HookFollowsClosed, ForceLock
  <2>3. CASE TimerDetaches
    BY <1>2, <2>3, Zenon DEF TuicInv, OneSweep, TimerDetaches
  <2>4. CASE RunHook
    BY <1>2, <2>4, Zenon DEF RunHook
  <2>5. CASE UNCHANGED <<closed, hook, attached>>
    BY <2>5, Zenon
  <2> QED
    BY <1>2, <2>1, <2>2, <2>3, <2>4, <2>5, Zenon DEF Next, vars, Call, CallStep, GetConn, DialFails,
       Stream, CloseClient, LoopEnds, Datagram, UniStreamFails, WriteFails, ConnDies, ForceStep,
       RangeClose, ArmTimer, TimerCloses, Read, ReadReturns, CloseAssoc, CloseStep, CloseQueue,
       Dissociate, LeaveMap, SetDeadline, DeadlineFires, DeadlineCallback
<1> QED
  BY <1>1, <1>2, TuicInvariant, PTL DEF Spec, ImplementsRingClient, Ring!Spec
=============================================================================
