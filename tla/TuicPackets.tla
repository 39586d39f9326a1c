---------------------------- MODULE TuicPackets ----------------------------
(***************************************************************************)
(* The packet queue of one TUIC UDP association (Packets in                *)
(* protocol/tuic/packet.go).  Transport goroutines push, readers block in  *)
(* PopFrontBlock, a consumer may register a handler that replaces the      *)
(* readers, and anybody may close.                                         *)
(*                                                                         *)
(* Two locks: mu guards the queue, the receiver and closed, and every      *)
(* critical section under it is one step here.  deliverMu is held across   *)
(* handler calls, which take time, so it is a variable; while a handler    *)
(* runs, everything that needs only mu goes on (the handler itself may     *)
(* unregister or close).                                                   *)
(***************************************************************************)
EXTENDS Integers, Sequences, FiniteSets

CONSTANTS
  Pushers,      \* goroutines of the tunnel that push packets
  Registrars,   \* goroutines that register a handler (one registration each)
  Readers,      \* goroutines in PopFrontBlock
  MaxPackets,   \* bound: packets the tunnel receives
  Cap,          \* packetChanCap
  Free, Nil     \* "lock not held", "no receiver"

Packet == 1..MaxPackets

VARIABLES
  queue,      \* the channel
  closed,     \* Packets.closed
  receiver,   \* the registered handler: its registrar, or Nil
  active,     \* packetHandlerRegistration.active, per registrar
  deliverMu,  \* holder of deliverMu or Free
  pushPc, pushed,   \* pushers: where, and the packet in hand
  seen,             \* pushers: the receiver read under mu
  regPc, prefix,    \* registrars: where, and the drained packets in hand
  readPc,           \* readers: "idle", "check" or "wait" (in cond.Wait)
  arrived,    \* number of packets received; they are numbered by arrival
  order,      \* packets in the order in which PushBack took deliverMu (history)
  out,        \* packets handed to a handler or a reader, in order (history)
  fate        \* what became of each packet

queueVars == <<queue, closed, receiver, active>>
pushVars  == <<pushPc, pushed, seen>>
regVars   == <<regPc, prefix>>
histVars  == <<arrived, order, out, fate>>
vars == <<queueVars, deliverMu, pushVars, regVars, readPc, histVars>>

Settled == {"handled", "read", "released"}
Contains(s, e) == \E i \in 1..Len(s) : s[i] = e

TypeOK ==
  /\ queue \in Seq(Packet) /\ Len(queue) <= Cap
  /\ closed \in BOOLEAN
  /\ receiver \in Registrars \cup {Nil}
  /\ active \in [Registrars -> BOOLEAN]
  /\ deliverMu \in Pushers \cup Registrars \cup {Free}
  /\ pushPc \in [Pushers -> {"idle", "lock", "push", "hand", "call"}]
  /\ pushed \in [Pushers -> Packet \cup {0}]
  /\ seen \in [Pushers -> Registrars \cup {Nil}]
  /\ regPc \in [Registrars -> {"idle", "lock", "swap", "drain", "call", "on", "off", "done"}]
  /\ prefix \in [Registrars -> Seq(Packet)]
  /\ readPc \in [Readers -> {"idle", "check", "wait"}]
  /\ arrived \in 0..MaxPackets
  /\ order \in Seq(Packet)
  /\ out \in Seq(Packet)
  /\ fate \in [Packet -> {"none", "live"} \cup Settled]

Init ==
  /\ queue = <<>>
  /\ closed = FALSE
  /\ receiver = Nil
  /\ active = [r \in Registrars |-> FALSE]
  /\ deliverMu = Free
  /\ pushPc = [p \in Pushers |-> "idle"]
  /\ pushed = [p \in Pushers |-> 0]
  /\ seen = [p \in Pushers |-> Nil]
  /\ regPc = [r \in Registrars |-> "idle"]
  /\ prefix = [r \in Registrars |-> <<>>]
  /\ readPc = [r \in Readers |-> "idle"]
  /\ arrived = 0
  /\ order = <<>>
  /\ out = <<>>
  /\ fate = [k \in Packet |-> "none"]

-----------------------------------------------------------------------------
(* PushBack                                                                *)

\* A packet comes off the tunnel and its goroutine calls PushBack.
PushBack(p) ==
  /\ pushPc[p] = "idle"
  /\ arrived < MaxPackets
  /\ arrived' = arrived + 1
  /\ pushed' = [pushed EXCEPT ![p] = arrived + 1]
  /\ pushPc' = [pushPc EXCEPT ![p] = "lock"]
  /\ fate' = [fate EXCEPT ![arrived + 1] = "live"]
  /\ UNCHANGED <<queueVars, deliverMu, seen, regVars, readPc, order, out>>

LockDeliver(p) ==
  /\ pushPc[p] = "lock"
  /\ deliverMu = Free
  /\ deliverMu' = p
  /\ pushPc' = [pushPc EXCEPT ![p] = "push"]
  /\ order' = Append(order, pushed[p])
  /\ UNCHANGED <<queueVars, pushed, seen, regVars, readPc, arrived, out, fate>>

\* PushBack returns; the packet in hand has met its fate f.
PushReturn(p, f) ==
  /\ fate' = [fate EXCEPT ![pushed[p]] = f]
  /\ pushPc' = [pushPc EXCEPT ![p] = "idle"]
  /\ pushed' = [pushed EXCEPT ![p] = 0]
  /\ seen' = [seen EXCEPT ![p] = Nil]
  /\ deliverMu' = Free

\* cond.Signal wakes one waiting reader, if there is one.
Signal ==
  \/ /\ \A r \in Readers : readPc[r] # "wait"
     /\ UNCHANGED readPc
  \/ \E r \in Readers :
       /\ readPc[r] = "wait"
       /\ readPc' = [readPc EXCEPT ![r] = "check"]

\* The part of PushBack under mu: a closed queue releases the packet, a
\* receiver takes over, a full queue drops, else the packet is queued.
PushLocked(p) ==
  /\ pushPc[p] = "push"
  /\ \/ /\ closed
        /\ PushReturn(p, "released")
        /\ UNCHANGED <<queue, readPc>>
     \/ /\ ~closed
        /\ receiver # Nil
        /\ pushPc' = [pushPc EXCEPT ![p] = "hand"]
        /\ seen' = [seen EXCEPT ![p] = receiver]
        /\ UNCHANGED <<queue, readPc, pushed, fate, deliverMu>>
     \/ /\ ~closed
        /\ receiver = Nil
        /\ Len(queue) = Cap
        /\ PushReturn(p, "released")
        /\ UNCHANGED <<queue, readPc>>
     \/ /\ ~closed
        /\ receiver = Nil
        /\ Len(queue) < Cap
        /\ queue' = Append(queue, pushed[p])
        /\ Signal
        /\ PushReturn(p, "live")
  /\ UNCHANGED <<closed, receiver, active, regVars, arrived, order, out>>

\* mu is released: a receiver that is still active gets the packet.
PushHand(p) ==
  /\ pushPc[p] = "hand"
  /\ IF active[seen[p]]
     THEN /\ pushPc' = [pushPc EXCEPT ![p] = "call"]
          /\ out' = Append(out, pushed[p])
          /\ UNCHANGED <<pushed, seen, fate, deliverMu>>
     ELSE PushReturn(p, "released") /\ UNCHANGED out
  /\ UNCHANGED <<queueVars, regVars, readPc, arrived, order>>

\* The handler returns: it owns the packet, or the conn released it.
PushCalled(p) ==
  /\ pushPc[p] = "call"
  /\ \E f \in {"handled", "released"} : PushReturn(p, f)
  /\ UNCHANGED <<queueVars, regVars, readPc, arrived, order, out>>

-----------------------------------------------------------------------------
(* registerPacketHandler and the function it returns                       *)

Register(r) ==
  /\ regPc[r] = "idle"
  /\ regPc' = [regPc EXCEPT ![r] = "lock"]
  /\ active' = [active EXCEPT ![r] = TRUE]
  /\ UNCHANGED <<queue, closed, receiver, deliverMu, pushVars, prefix, readPc, histVars>>

RegLock(r) ==
  /\ regPc[r] = "lock"
  /\ deliverMu = Free
  /\ deliverMu' = r
  /\ regPc' = [regPc EXCEPT ![r] = "swap"]
  /\ UNCHANGED <<queueVars, pushVars, prefix, readPc, histVars>>

\* Mutant of RegSwap: deliverMu is released before the prefix is delivered.
RegSwapUnlocks(r) ==
  /\ regPc[r] = "swap"
  /\ ~closed
  /\ receiver = Nil
  /\ receiver' = r
  /\ prefix' = [prefix EXCEPT ![r] = queue]
  /\ queue' = <<>>
  /\ regPc' = [regPc EXCEPT ![r] = "drain"]
  /\ deliverMu' = Free
  /\ UNCHANGED <<closed, active, pushVars, readPc, histVars>>

\* Under mu: refuse, or become the receiver and take the queued prefix.
RegSwap(r) ==
  /\ regPc[r] = "swap"
  /\ IF closed \/ receiver # Nil
     THEN /\ regPc' = [regPc EXCEPT ![r] = "done"]
          /\ deliverMu' = Free
          /\ UNCHANGED <<queue, receiver, prefix>>
     ELSE /\ receiver' = r
          /\ prefix' = [prefix EXCEPT ![r] = queue]
          /\ queue' = <<>>
          /\ regPc' = [regPc EXCEPT ![r] = "drain"]
          /\ UNCHANGED deliverMu
  /\ UNCHANGED <<closed, active, pushVars, readPc, histVars>>

\* One round of the loop over the prefix.  deliverMu is held until it ends.
RegDrain(r) ==
  /\ regPc[r] = "drain"
  /\ \/ /\ prefix[r] = <<>>
        /\ regPc' = [regPc EXCEPT ![r] = "on"]
        /\ deliverMu' = Free
        /\ UNCHANGED <<prefix, out, fate>>
     \/ /\ prefix[r] # <<>>
        /\ ~active[r]
        /\ fate' = [fate EXCEPT ![Head(prefix[r])] = "released"]
        /\ prefix' = [prefix EXCEPT ![r] = Tail(@)]
        /\ UNCHANGED <<regPc, deliverMu, out>>
     \/ /\ prefix[r] # <<>>
        /\ active[r]
        /\ out' = Append(out, Head(prefix[r]))
        /\ regPc' = [regPc EXCEPT ![r] = "call"]
        /\ UNCHANGED <<prefix, deliverMu, fate>>
  /\ UNCHANGED <<queueVars, pushVars, readPc, arrived, order>>

RegCalled(r) ==
  /\ regPc[r] = "call"
  /\ \E f \in {"handled", "released"} : fate' = [fate EXCEPT ![Head(prefix[r])] = f]
  /\ prefix' = [prefix EXCEPT ![r] = Tail(@)]
  /\ regPc' = [regPc EXCEPT ![r] = "drain"]
  /\ UNCHANGED <<queueVars, deliverMu, pushVars, readPc, arrived, order, out>>

\* The returned function: deactivate first, then clear the receiver under mu.
Unregister(r) ==
  /\ regPc[r] = "on"
  /\ regPc' = [regPc EXCEPT ![r] = "off"]
  /\ active' = [active EXCEPT ![r] = FALSE]
  /\ UNCHANGED <<queue, closed, receiver, deliverMu, pushVars, prefix, readPc, histVars>>

UnregisterLocked(r) ==
  /\ regPc[r] = "off"
  /\ regPc' = [regPc EXCEPT ![r] = "done"]
  /\ receiver' = IF receiver = r THEN Nil ELSE receiver
  /\ UNCHANGED <<queue, closed, active, deliverMu, pushVars, prefix, readPc, histVars>>

-----------------------------------------------------------------------------
(* PopFrontBlock and Close                                                 *)

PopFrontBlock(r) ==
  /\ readPc[r] = "idle"
  /\ readPc' = [readPc EXCEPT ![r] = "check"]
  /\ UNCHANGED <<queueVars, deliverMu, pushVars, regVars, histVars>>

\* One evaluation of the wait predicate under mu.
PopCheck(r) ==
  /\ readPc[r] = "check"
  /\ \/ /\ closed
        /\ readPc' = [readPc EXCEPT ![r] = "idle"]
        /\ UNCHANGED <<queue, out, fate>>
     \/ /\ ~closed
        /\ queue # <<>>
        /\ queue' = Tail(queue)
        /\ out' = Append(out, Head(queue))
        /\ fate' = [fate EXCEPT ![Head(queue)] = "read"]
        /\ readPc' = [readPc EXCEPT ![r] = "idle"]
     \/ /\ ~closed
        /\ queue = <<>>
        /\ readPc' = [readPc EXCEPT ![r] = "wait"]
        /\ UNCHANGED <<queue, out, fate>>
  /\ UNCHANGED <<closed, receiver, active, deliverMu, pushVars, regVars, arrived, order>>

\* Close: terminal; deactivates the receiver, releases what is queued and
\* wakes every reader.
Close ==
  /\ ~closed
  /\ closed' = TRUE
  /\ active' = [r \in Registrars |-> active[r] /\ r # receiver]
  /\ receiver' = Nil
  /\ fate' = [k \in Packet |-> IF Contains(queue, k) THEN "released" ELSE fate[k]]
  /\ queue' = <<>>
  /\ readPc' = [r \in Readers |-> IF readPc[r] = "wait" THEN "check" ELSE readPc[r]]
  /\ UNCHANGED <<deliverMu, pushVars, regVars, arrived, order, out>>

-----------------------------------------------------------------------------
PushStep(p) == LockDeliver(p) \/ PushLocked(p) \/ PushHand(p) \/ PushCalled(p)
RegStep(r)  == RegLock(r) \/ RegSwap(r) \/ RegDrain(r) \/ RegCalled(r) \/ UnregisterLocked(r)

Next ==
  \/ \E p \in Pushers : PushBack(p) \/ PushStep(p)
  \/ \E r \in Registrars : Register(r) \/ RegStep(r) \/ Unregister(r)
  \/ \E r \in Readers : PopFrontBlock(r) \/ PopCheck(r)
  \/ Close

Spec == Init /\ [][Next]_vars

-----------------------------------------------------------------------------
(* Properties                                                              *)

\* Somebody still has the packet: the queue, a drained prefix, or a pusher.
Reachable(k) ==
  \/ Contains(queue, k)
  \/ \E r \in Registrars : Contains(prefix[r], k)
  \/ \E p \in Pushers : pushed[p] = k

\* Every packet that came off the tunnel is in somebody's hands until it is
\* consumed or its pool buffer is released, and not a moment longer: no
\* buffer leaks and none is used after its release, whatever push, drain,
\* unregister and Close do to each other.
NoPacketLost ==
  \A k \in 1..arrived : fate[k] \in Settled <=> ~Reachable(k)

Precedes(s, a, b) == \E i, j \in 1..Len(s) : i < j /\ s[i] = a /\ s[j] = b

\* Handlers and readers see packets in the order in which the pushers took
\* deliverMu: a packet pushed after the receiver swap cannot overtake the
\* queued prefix, and one queued after an unregister cannot either.
FIFO ==
  \A i, j \in 1..Len(out) : i < j => Precedes(order, out[i], out[j])

\* No lost wakeup: while a packet is queued and a reader sleeps, some reader
\* is awake and will look at the queue.
NoLostWakeup ==
  queue # <<>> /\ (\E r \in Readers : readPc[r] = "wait") =>
    \E r \in Readers : readPc[r] = "check"

\* Close is complete: nothing is queued behind it, nobody sleeps and the
\* handler that was registered gets no new packet.
CloseIsFinal ==
  closed =>
    /\ queue = <<>>
    /\ receiver = Nil
    /\ \A r \in Readers : readPc[r] # "wait"
    /\ \A r \in Registrars : regPc[r] \in {"drain", "call", "on", "off"} => ~active[r]

\* What the queue promises: packets in somebody's hands, in order, and no reader
\* asleep or packet left behind for good.
ReceiveQueueSafe == TypeOK /\ NoPacketLost /\ FIFO /\ NoLostWakeup /\ CloseIsFinal

\* PushBack returns: a full queue, a sleeping reader or a running handler
\* never stalls the tunnel goroutine for good.
PushReturns == \A p \in Pushers : pushPc[p] # "idle" ~> pushPc[p] = "idle"

\* After Close every packet is settled and every reader returns.
CloseSettles ==
  /\ \A k \in Packet : closed /\ k <= arrived ~> fate[k] \in Settled
  /\ \A r \in Readers : closed /\ readPc[r] # "idle" ~> readPc[r] = "idle"

\* What the proofs assume of the constants: a holder of deliverMu is one goroutine.
Setting ==
  /\ MaxPackets \in Nat /\ Cap \in Nat
  /\ Pushers \cap Registrars = {}
  /\ Free \notin Pushers \cup Registrars /\ Nil \notin Registrars
=============================================================================
