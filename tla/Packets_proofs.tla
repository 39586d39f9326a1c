--------------------------- MODULE Packets_proofs ---------------------------
(***************************************************************************)
(* Proofs about the packet connections.                                    *)
(*                                                                         *)
(* TuicPackets, for any pushers, registrations, readers, packets and       *)
(* capacity: every packet is in exactly one place until it is consumed or  *)
(* released, packets are handed out in the order of arrival, no wakeup is  *)
(* lost and Close is final.                                                *)
(*                                                                         *)
(* Deadlines (Timer), for any number of timers, reads and deadlines: a     *)
(* callback acts on the deadline in force or not at all, and a deadline in *)
(* force has a timer.                                                      *)
(***************************************************************************)
EXTENDS TuicPackets, TLAPS

CONSTANTS Kinds, MaxTime, MaxTimers, MaxReads, MaxSets
VARIABLES kind, clock, deadline, version, sets, timer, timers, turn, reading, cause, ended, early
Timer == INSTANCE Deadlines WITH now <- clock, gen <- turn, active <- reading, closed <- ended

-----------------------------------------------------------------------------
(* TuicPackets: the inductive invariant                                    *)

\* deliverMu is held from the lock to the return, by pushers and registrations.
DeliverMuHeld ==
  /\ \A p \in Pushers : pushPc[p] \in {"push", "hand", "call"} <=> deliverMu = p
  /\ \A r \in Registrars : regPc[r] \in {"swap", "drain", "call"} <=> deliverMu = r

\* A pusher has a packet from its call to its return, and a registration has
\* drained packets only while it delivers them.
InHand ==
  /\ \A p \in Pushers : pushPc[p] = "idle" <=> pushed[p] = 0
  /\ \A p \in Pushers : pushPc[p] \in {"hand", "call"} => seen[p] # Nil /\ queue = <<>>
  /\ \A r \in Registrars : prefix[r] # <<>> => regPc[r] \in {"drain", "call"} /\ queue = <<>>
  /\ \A r \in Registrars : regPc[r] = "call" => prefix[r] # <<>>

NoDuplicates(s) == \A i, j \in 1..Len(s) : s[i] = s[j] => i = j

\* A packet that arrived is in one place at most.
OnePlace ==
  /\ NoDuplicates(queue) /\ \A r \in Registrars : NoDuplicates(prefix[r])
  /\ \A p, q \in Pushers : pushed[p] = pushed[q] /\ pushed[p] # 0 => p = q
  /\ \A p \in Pushers : pushed[p] <= arrived
  /\ \A k \in Packet : Contains(queue, k) => k <= arrived /\ \A p \in Pushers : pushed[p] # k
  /\ \A r \in Registrars : \A k \in Packet :
       Contains(prefix[r], k) => k <= arrived /\ \A p \in Pushers : pushed[p] # k

\* The receiver is the only registration that may be handed packets, and it took
\* the queue.
OneReceiver ==
  /\ \A r \in Registrars :
       regPc[r] \in {"drain", "call", "on", "off"} /\ active[r] => receiver = r
  /\ \A r \in Registrars : regPc[r] = "off" => ~active[r]
  /\ receiver # Nil => queue = <<>>

\* Every queued packet has a reader of its own on its way, while any reader sleeps.
Awake == {r \in Readers : readPc[r] = "check"}
Enough(n, S) == \E f \in [1..n -> S] : \A i, j \in 1..n : f[i] = f[j] => i = j
EnoughAwake == (\E r \in Readers : readPc[r] = "wait") => Enough(Len(queue), Awake)

\* What came out is in order and before what is queued, drained or about to be
\* handed over; all of it came through deliverMu.
Sorted(o, s) == \A i, j \in 1..Len(s) : i < j => Precedes(o, s[i], s[j])
Passed(o, s) == \A k \in Packet : Contains(s, k) => Contains(o, k)
Before(o, s, k) == \A x \in Packet : Contains(s, x) => Precedes(o, x, k)

InOrder ==
  /\ Sorted(order, out) /\ Sorted(order, queue) /\ \A r \in Registrars : Sorted(order, prefix[r])
  /\ Passed(order, out) /\ Passed(order, queue) /\ \A r \in Registrars : Passed(order, prefix[r])
  /\ \A k \in Packet : Contains(queue, k) => Before(order, out, k)
  /\ \A r \in Registrars : \A k \in Packet :
       Contains(prefix[r], k) /\ (regPc[r] = "call" => k # Head(prefix[r])) => Before(order, out, k)
  /\ \A p \in Pushers : pushPc[p] \in {"push", "hand"} => Before(order, out, pushed[p])
  /\ \A p \in Pushers : pushPc[p] \in {"push", "hand", "call"} => Contains(order, pushed[p])
  /\ \A p \in Pushers : pushPc[p] = "push" => Before(order, queue, pushed[p])

\* TypeOK in groups of variables that change together.
Flags == closed \in BOOLEAN /\ active \in [Registrars -> BOOLEAN]
QueueTyped == queue \in Seq(Packet) /\ Len(queue) <= Cap /\ receiver \in Registrars \cup {Nil}
PushTyped ==
  /\ deliverMu \in Pushers \cup Registrars \cup {Free}
  /\ pushPc \in [Pushers -> {"idle", "lock", "push", "hand", "call"}]
  /\ pushed \in [Pushers -> Packet \cup {0}] /\ seen \in [Pushers -> Registrars \cup {Nil}]
RegTyped ==
  /\ regPc \in [Registrars -> {"idle", "lock", "swap", "drain", "call", "on", "off", "done"}]
  /\ prefix \in [Registrars -> Seq(Packet)]
ReadTyped == readPc \in [Readers -> {"idle", "check", "wait"}]
HistTyped ==
  /\ arrived \in 0..MaxPackets /\ order \in Seq(Packet) /\ out \in Seq(Packet)
  /\ fate \in [Packet -> {"none", "live"} \cup Settled]

PacketsInv ==
  /\ Flags /\ QueueTyped /\ PushTyped /\ RegTyped /\ ReadTyped /\ HistTyped
  /\ DeliverMuHeld
  /\ InHand
  /\ OnePlace
  /\ OneReceiver
  /\ NoPacketLost
  /\ CloseIsFinal
  /\ EnoughAwake
  /\ InOrder

-----------------------------------------------------------------------------
(* Lemmas about sequences                                                  *)

\* The length of a sequence.
LEMMA SeqLength == ASSUME NEW S, NEW s \in Seq(S) PROVE Len(s) \in Nat
OBVIOUS

\* The empty sequence fits any bound.
LEMMA EmptyFits == ASSUME NEW S, NEW n \in Nat PROVE <<>> \in Seq(S) /\ Len(<<>>) <= n
OBVIOUS

\* Nothing is in the empty sequence.
LEMMA EmptyMembers ==
  /\ \A k : ~Contains(<<>>, k)
  /\ NoDuplicates(<<>>) /\ \A o : Sorted(o, <<>>)
BY DEF Contains, NoDuplicates, Sorted

\* Append adds one member.
LEMMA AppendMembers ==
  ASSUME NEW S, NEW s \in Seq(S), NEW e \in S
  PROVE  /\ Append(s, e) \in Seq(S) /\ Len(Append(s, e)) = Len(s) + 1
         /\ \A k : Contains(Append(s, e), k) <=> Contains(s, k) \/ k = e
         /\ NoDuplicates(s) /\ ~Contains(s, e) => NoDuplicates(Append(s, e))
<1>1. /\ Append(s, e) \in Seq(S) /\ Len(Append(s, e)) = Len(s) + 1 /\ Len(s) \in Nat
      /\ Append(s, e)[Len(s) + 1] = e
      /\ \A i \in 1..Len(s) : Append(s, e)[i] = s[i]
  OBVIOUS
<1> DEFINE t == Append(s, e)
<1> HIDE DEF t
<1>2. \A k : Contains(t, k) <=> Contains(s, k) \/ k = e
  BY <1>1 DEF Contains, t
<1>3. NoDuplicates(s) /\ ~Contains(s, e) => NoDuplicates(t)
  BY <1>1 DEF Contains, NoDuplicates, t
<1> QED
  BY <1>1, <1>2, <1>3 DEF t

\* Tail takes the head away.
LEMMA TailMembers ==
  ASSUME NEW S, NEW s \in Seq(S), s # <<>>
  PROVE  /\ Head(s) \in S /\ Tail(s) \in Seq(S) /\ Len(Tail(s)) = Len(s) - 1
         /\ Contains(s, Head(s))
         /\ \A k : Contains(Tail(s), k) => Contains(s, k)
         /\ NoDuplicates(s) => NoDuplicates(Tail(s))
         /\ NoDuplicates(s) => \A k : Contains(Tail(s), k) <=> Contains(s, k) /\ k # Head(s)
<1>1. /\ Head(s) \in S /\ Tail(s) \in Seq(S) /\ Len(Tail(s)) = Len(s) - 1 /\ Len(s) \in Nat \ {0}
      /\ Head(s) = s[1] /\ 1 \in 1..Len(s)
      /\ \A i \in 1..(Len(s) - 1) : Tail(s)[i] = s[i + 1]
  OBVIOUS
<1> DEFINE t == Tail(s)
           h == Head(s)
<1> HIDE DEF t, h
<1>2. Contains(s, h)
  BY <1>1 DEF Contains, h
<1>3. \A k : Contains(t, k) => Contains(s, k)
  BY <1>1 DEF Contains, t
<1>4. NoDuplicates(s) => NoDuplicates(t)
  BY <1>1 DEF NoDuplicates, t
<1>5. ASSUME NoDuplicates(s), NEW k
      PROVE  Contains(t, k) <=> Contains(s, k) /\ k # h
  <2>1. ASSUME Contains(s, k), k # h PROVE Contains(t, k)
    <3>1. PICK i \in 1..Len(s) : s[i] = k
      BY <2>1 DEF Contains
    <3>2. i # 1
      BY <1>1, <2>1, <3>1 DEF h
    <3>3. i - 1 \in 1..Len(t) /\ t[i - 1] = k
      BY <1>1, <3>1, <3>2 DEF t
    <3> QED
      BY <3>3 DEF Contains
  <2>2. ASSUME Contains(t, k) PROVE k # h
    <3>1. PICK i \in 1..Len(t) : t[i] = k
      BY <2>2 DEF Contains
    <3>2. i + 1 \in 1..Len(s) /\ s[i + 1] = k /\ i + 1 # 1
      BY <1>1, <3>1 DEF t
    <3> QED
      BY <1>1, <1>5, <3>2 DEF NoDuplicates, h
  <2> QED
    BY <1>3, <2>1, <2>2
<1> QED
  BY <1>1, <1>2, <1>3, <1>4, <1>5 DEF t, h

\* An order that grows keeps what it says, and its last member comes behind
\* every other.
LEMMA OrderGrows ==
  ASSUME NEW S, NEW o \in Seq(S), NEW e \in S
  PROVE  /\ \A a, b : Precedes(o, a, b) => Precedes(Append(o, e), a, b)
         /\ \A a : Contains(o, a) => Precedes(Append(o, e), a, e)
         /\ \A s : Sorted(o, s) => Sorted(Append(o, e), s)
<1>1. /\ Len(Append(o, e)) = Len(o) + 1 /\ Len(o) \in Nat
      /\ Append(o, e)[Len(o) + 1] = e
      /\ \A i \in 1..Len(o) : Append(o, e)[i] = o[i]
  OBVIOUS
<1> DEFINE t == Append(o, e)
<1> HIDE DEF t
<1>2. \A a, b : Precedes(o, a, b) => Precedes(t, a, b)
  BY <1>1 DEF Precedes, t
<1>3. \A a : Contains(o, a) => Precedes(t, a, e)
  BY <1>1 DEF Precedes, Contains, t
<1>4. \A s : Sorted(o, s) => Sorted(t, s)
  BY <1>2 DEF Sorted
<1> QED
  BY <1>2, <1>3, <1>4 DEF t

\* A member behind all others may be appended.
LEMMA SortedAppend ==
  ASSUME NEW o, NEW s \in Seq(Packet), NEW e \in Packet, Sorted(o, s), Before(o, s, e)
  PROVE  Sorted(o, Append(s, e))
<1>1. /\ Len(Append(s, e)) = Len(s) + 1 /\ Len(s) \in Nat
      /\ Append(s, e)[Len(s) + 1] = e
      /\ \A i \in 1..Len(s) : Append(s, e)[i] = s[i] /\ s[i] \in Packet
  OBVIOUS
<1>2. \A i \in 1..Len(s) : Precedes(o, s[i], e)
  BY <1>1 DEF Before, Contains
<1> DEFINE t == Append(s, e)
<1> HIDE DEF t
<1>3. Sorted(o, t)
  BY <1>1, <1>2 DEF Sorted, t
<1> QED
  BY <1>3 DEF t

\* The head of a sorted sequence comes before its tail, which is sorted.
LEMMA SortedTail ==
  ASSUME NEW o, NEW s \in Seq(Packet), s # <<>>, Sorted(o, s)
  PROVE  /\ Sorted(o, Tail(s))
         /\ \A k : Contains(Tail(s), k) => Precedes(o, Head(s), k)
<1>1. /\ Len(Tail(s)) = Len(s) - 1 /\ Len(s) \in Nat \ {0}
      /\ Head(s) = s[1] /\ 1 \in 1..Len(s)
      /\ \A i \in 1..(Len(s) - 1) : Tail(s)[i] = s[i + 1]
  OBVIOUS
<1> DEFINE t == Tail(s)
           h == Head(s)
<1> HIDE DEF t, h
<1>2. Sorted(o, t)
  BY <1>1 DEF Sorted, t
<1>3. \A k : Contains(t, k) => Precedes(o, h, k)
  BY <1>1 DEF Sorted, Contains, t, h
<1> QED
  BY <1>2, <1>3 DEF t, h

-----------------------------------------------------------------------------
(* Lemmas about the readers                                                *)

\* None needs nobody, and some need somebody.
LEMMA EnoughForNone ==
  ASSUME NEW S
  PROVE  Enough(0, S) /\ \A n \in Nat : n > 0 /\ Enough(n, S) => S # {}
<1>1. Enough(0, S)
  <2>1. [i \in 1..0 |-> i] \in [1..0 -> S]
    OBVIOUS
  <2> QED
    BY <2>1, Zenon DEF Enough
<1>2. ASSUME NEW n \in Nat, n > 0, Enough(n, S)
      PROVE  S # {}
  BY <1>2 DEF Enough
<1> QED
  BY <1>1, <1>2

\* One more member is enough for one more.
LEMMA EnoughForMore ==
  ASSUME NEW n \in Nat, NEW S, NEW e, e \notin S, Enough(n, S)
  PROVE  Enough(n, S \cup {e}) /\ Enough(n + 1, S \cup {e})
<1>1. PICK f \in [1..n -> S] : \A i, j \in 1..n : f[i] = f[j] => i = j
  BY DEF Enough
<1> DEFINE g == [i \in 1..n + 1 |-> IF i = n + 1 THEN e ELSE f[i]]
<1>2. f \in [1..n -> S \cup {e}]
  OBVIOUS
<1>3. g \in [1..n + 1 -> S \cup {e}]
  OBVIOUS
<1>4. \A i, j \in 1..n + 1 : g[i] = g[j] => i = j
  BY <1>1
<1> QED
  BY <1>1, <1>2, <1>3, <1>4, Zenon DEF Enough

\* One member less is enough for one less: who was to serve the last serves in its place.
LEMMA EnoughForLess ==
  ASSUME NEW n \in Nat, NEW S, NEW e \in S, Enough(n + 1, S)
  PROVE  Enough(n, S \ {e})
<1>1. PICK f \in [1..n + 1 -> S] : \A i, j \in 1..n + 1 : f[i] = f[j] => i = j
  BY DEF Enough
<1> DEFINE g == [i \in 1..n |-> IF f[i] = e THEN f[n + 1] ELSE f[i]]
<1>2. g \in [1..n -> S \ {e}]
  BY <1>1
<1>3. \A i, j \in 1..n : g[i] = g[j] => i = j
  BY <1>1
<1> QED
  BY <1>2, <1>3, Zenon DEF Enough

\* A reader that wakes is one more awake, one that stops looking one less.
LEMMA AwakeChanges ==
  ASSUME ReadTyped, NEW r \in Readers, NEW x \in {"idle", "check", "wait"},
         readPc' = [readPc EXCEPT ![r] = x]
  PROVE  /\ readPc[r] # "check" /\ x = "check" => Awake' = Awake \cup {r} /\ r \notin Awake
         /\ readPc[r] = "check" /\ x # "check" => Awake' = Awake \ {r} /\ r \in Awake
BY DEF ReadTyped, Awake

-----------------------------------------------------------------------------
(* What depends on which variables                                         *)

\* Each part of the invariant outlives a step that leaves its variables alone.
LEMMA Frames ==
  ASSUME PacketsInv
  PROVE  /\ UNCHANGED <<closed, active>> => Flags'
         /\ UNCHANGED <<queue, receiver>> => QueueTyped'
         /\ UNCHANGED <<deliverMu, pushPc, pushed, seen>> => PushTyped'
         /\ UNCHANGED <<regPc, prefix>> => RegTyped'
         /\ UNCHANGED readPc => ReadTyped'
         /\ UNCHANGED <<arrived, order, out, fate>> => HistTyped'
         /\ UNCHANGED <<pushPc, regPc, deliverMu>> => DeliverMuHeld'
         /\ UNCHANGED <<pushPc, pushed, seen, regPc, prefix, queue>> => InHand'
         /\ UNCHANGED <<queue, prefix, pushed, arrived>> => OnePlace'
         /\ UNCHANGED <<queue, prefix, pushed, arrived, fate>> => NoPacketLost'
         /\ UNCHANGED <<regPc, active, receiver, queue>> => OneReceiver'
         /\ UNCHANGED <<closed, queue, receiver, readPc, regPc, active>> => CloseIsFinal'
         /\ UNCHANGED <<queue, readPc>> => EnoughAwake'
         /\ UNCHANGED <<order, out, queue, prefix, regPc, pushPc, pushed>> => InOrder'
<1> USE DEF PacketsInv
<1>1. /\ UNCHANGED <<closed, active>> => Flags'
      /\ UNCHANGED <<queue, receiver>> => QueueTyped'
      /\ UNCHANGED <<deliverMu, pushPc, pushed, seen>> => PushTyped'
      /\ UNCHANGED <<regPc, prefix>> => RegTyped'
      /\ UNCHANGED readPc => ReadTyped'
      /\ UNCHANGED <<arrived, order, out, fate>> => HistTyped'
  BY Zenon DEF Flags, QueueTyped, PushTyped, RegTyped, ReadTyped, HistTyped
<1>2. /\ UNCHANGED <<pushPc, regPc, deliverMu>> => DeliverMuHeld'
      /\ UNCHANGED <<pushPc, pushed, seen, regPc, prefix, queue>> => InHand'
      /\ UNCHANGED <<regPc, active, receiver, queue>> => OneReceiver'
      /\ UNCHANGED <<closed, queue, receiver, readPc, regPc, active>> => CloseIsFinal'
  BY DEF DeliverMuHeld, InHand, OneReceiver, CloseIsFinal
<1>3. /\ UNCHANGED <<queue, prefix, pushed, arrived>> => OnePlace'
      /\ UNCHANGED <<queue, prefix, pushed, arrived, fate>> => NoPacketLost'
  BY DEF OnePlace, NoPacketLost, Reachable
<1>4. UNCHANGED <<queue, readPc>> => EnoughAwake'
  BY Zenon DEF EnoughAwake, Awake
<1>5. UNCHANGED <<order, out, queue, prefix, regPc, pushPc, pushed>> => InOrder'
  BY Zenon DEF InOrder
<1> QED
  BY <1>1, <1>2, <1>3, <1>4, <1>5, Zenon

-----------------------------------------------------------------------------
(* PushBack                                                                *)

\* PushBack returns, and the packet it had in hand is consumed or released: it is
\* nowhere else.
LEMMA PushSettles ==
  ASSUME Setting, PacketsInv, NEW p \in Pushers, deliverMu = p,
         NEW f \in {"handled", "released"}, PushReturn(p, f),
         UNCHANGED <<queueVars, regVars, readPc, arrived, order, out>>
  PROVE  PacketsInv'
<1> USE DEF PacketsInv, queueVars, regVars
<1>0. pushed[p] \in 1..arrived /\ pushed[p] \in Packet
  <2>1. pushed[p] # 0
    BY Zenon DEF DeliverMuHeld, InHand
  <2> QED
    BY <2>1 DEF Setting, PushTyped, OnePlace, Packet
<1>1. PushTyped' /\ HistTyped'
  BY <1>0, Zenon DEF PushTyped, HistTyped, PushReturn, Settled
<1>2. DeliverMuHeld' /\ InHand'
  BY DEF Setting, PushTyped, DeliverMuHeld, InHand, PushReturn
<1>3. OnePlace'
  <2>1. \A q \in Pushers : pushed'[q] = IF q = p THEN 0 ELSE pushed[q]
    BY Zenon DEF PushTyped, PushReturn
  <2>2. \A k \in Packet : k # 0
    BY DEF Setting, Packet
  <2>3. 0 <= arrived
    BY DEF Setting, HistTyped
  <2> QED
    BY <2>1, <2>2, <2>3, Zenon DEF OnePlace
<1>4. NoPacketLost'
  <2>1. ASSUME NEW k \in 1..arrived
        PROVE  Reachable(k)' <=> Reachable(k) /\ k # pushed[p]
    BY <1>0 DEF PushTyped, OnePlace, Reachable, PushReturn, Packet
  <2>2. ASSUME NEW k \in 1..arrived
        PROVE  fate'[k] \in Settled <=> fate[k] \in Settled \/ k = pushed[p]
    BY <1>0 DEF Setting, HistTyped, PushReturn, Settled, Packet
  <2> QED
    BY <2>1, <2>2, Zenon DEF NoPacketLost
<1>5. InOrder'
  BY Zenon DEF PushTyped, InOrder, PushReturn
<1> QED
  BY <1>1, <1>2, <1>3, <1>4, <1>5, Frames, Zenon

\* A packet comes off the tunnel: it is in the hand of its goroutine only.
LEMMA PushBackStep ==
  ASSUME Setting, PacketsInv, NEW p \in Pushers, PushBack(p)
  PROVE  PacketsInv'
<1> USE DEF PacketsInv, queueVars, regVars
<1>0. /\ arrived \in Nat /\ arrived + 1 \in Packet /\ arrived' = arrived + 1
      /\ pushed' = [pushed EXCEPT ![p] = arrived + 1] /\ pushPc[p] = "idle" /\ pushed[p] = 0
  BY DEF Setting, HistTyped, InHand, PushBack, Packet
<1>1. PushTyped' /\ HistTyped'
  BY <1>0 DEF PushTyped, HistTyped, PushBack, Packet
<1>2. DeliverMuHeld' /\ InHand'
  BY <1>0 DEF Setting, PushTyped, DeliverMuHeld, InHand, PushBack, Packet
<1>3. OnePlace'
  <2>0. \A q \in Pushers : pushed'[q] = IF q = p THEN arrived + 1 ELSE pushed[q]
    BY <1>0, Zenon DEF PushTyped
  <2>1. /\ \A q \in Pushers : pushed'[q] <= arrived'
        /\ \A q, t \in Pushers : pushed'[q] = pushed'[t] /\ pushed'[q] # 0 => q = t
    <3>1. \A q \in Pushers : pushed[q] \in Int /\ pushed[q] <= arrived
      BY <1>0 DEF PushTyped, OnePlace, Packet
    <3> QED
      BY <1>0, <2>0, <3>1 DEF OnePlace
  <2>2. ASSUME NEW k \in Packet, k <= arrived, NEW q \in Pushers, pushed[q] # k
        PROVE  k <= arrived' /\ pushed'[q] # k
    BY <1>0, <2>2 DEF Packet
  <2> QED
    BY <2>1, <2>2, Zenon DEF OnePlace, PushBack
<1>4. NoPacketLost'
  <2>1. ASSUME NEW k \in 1..arrived
        PROVE  (Reachable(k)' <=> Reachable(k)) /\ fate'[k] = fate[k]
    BY <1>0 DEF Reachable, PushBack, Packet
  <2>2. ASSUME NEW k \in Packet, k = arrived + 1
        PROVE  Reachable(k)' /\ fate'[k] \notin Settled
    BY <1>0, <2>2, Zenon DEF HistTyped, PushTyped, Reachable, PushBack, Settled
  <2>3. 1..arrived' = 1..arrived \cup {arrived + 1}
    BY <1>0
  <2> QED
    BY <1>0, <2>1, <2>2, <2>3 DEF NoPacketLost
<1>5. InOrder'
  BY DEF InOrder, PushBack
<1> QED
  BY <1>1, <1>2, <1>3, <1>4, <1>5, Frames, Zenon DEF PushBack

\* deliverMu is taken: the packet in hand is behind everything that went through it.
LEMMA LockDeliverStep ==
  ASSUME Setting, PacketsInv, NEW p \in Pushers, LockDeliver(p)
  PROVE  PacketsInv'
<1> USE DEF PacketsInv, queueVars, regVars
<1>0. /\ pushed[p] \in Packet /\ order \in Seq(Packet) /\ order' = Append(order, pushed[p])
      /\ order' \in Seq(Packet) /\ deliverMu = Free
      /\ pushPc' = [pushPc EXCEPT ![p] = "push"]
      /\ UNCHANGED <<queue, out, pushed, regPc, prefix>>
  BY DEF PushTyped, HistTyped, InHand, LockDeliver
<1>1. PushTyped' /\ HistTyped'
  BY <1>0, Zenon DEF PushTyped, HistTyped, LockDeliver
<1>2. DeliverMuHeld' /\ InHand'
  BY DEF Setting, PushTyped, DeliverMuHeld, InHand, LockDeliver
<1>3. InOrder'
  <2>1. /\ \A a, b : Precedes(order, a, b) => Precedes(order', a, b)
        /\ \A a : Contains(order, a) => Contains(order', a) /\ Precedes(order', a, pushed[p])
        /\ \A s : Sorted(order, s) => Sorted(order', s)
        /\ Contains(order', pushed[p])
    BY <1>0, OrderGrows, AppendMembers, Zenon
  <2>2. \A s, k : Before(order, s, k) => Before(order', s, k)
    BY <2>1, Zenon DEF Before
  <2>3. \A s : Passed(order, s) => Passed(order', s) /\ Before(order', s, pushed[p])
    BY <2>1, Zenon DEF Passed, Before
  <2>4. \A q \in Pushers : q # p => pushPc[q] \notin {"push", "hand", "call"}
    BY <1>0, Zenon DEF Setting, DeliverMuHeld
  <2>5. /\ Sorted(order, out)' /\ Sorted(order, queue)' /\ \A r \in Registrars : Sorted(order', prefix'[r])
        /\ Passed(order, out)' /\ Passed(order, queue)' /\ \A r \in Registrars : Passed(order', prefix'[r])
    BY <1>0, <2>1, <2>3, Zenon DEF InOrder
  <2>6. \A q \in Pushers : q # p => pushPc'[q] \notin {"push", "hand", "call"}
    BY <1>0, <2>4
  <2>7. /\ Before(order', out', pushed[p]) /\ Before(order', queue', pushed[p])
    BY <1>0, <2>3, Zenon DEF InOrder
  <2>8. \A k \in Packet : Contains(queue', k) => Before(order', out', k)
    BY <1>0, <2>2, Zenon DEF InOrder
  <2>9. \A r \in Registrars : \A k \in Packet :
          Contains(prefix'[r], k) /\ (regPc'[r] = "call" => k # Head(prefix'[r])) => Before(order', out', k)
    BY <1>0, <2>2, Zenon DEF InOrder
  <2> QED
    BY <1>0, <2>1, <2>5, <2>6, <2>7, <2>8, <2>9, Zenon DEF InOrder
<1> QED
  BY <1>1, <1>2, <1>3, Frames, Zenon DEF LockDeliver

\* The packet is queued and a sleeping reader woken.  Nobody holds a drained prefix,
\* so the queue is all there is before it.
LEMMA PushQueues ==
  ASSUME Setting, PacketsInv, NEW p \in Pushers, pushPc[p] = "push", ~closed,
         receiver = Nil, Len(queue) < Cap, queue' = Append(queue, pushed[p]), Signal, PushReturn(p, "live"),
         UNCHANGED <<closed, receiver, active, regVars, arrived, order, out>>
  PROVE  PacketsInv'
<1> USE DEF PacketsInv, regVars
<1>0. /\ deliverMu = p /\ pushed[p] \in 1..arrived /\ pushed[p] \in Packet
      /\ \A q \in Pushers : pushed'[q] = IF q = p THEN 0 ELSE pushed[q]
      /\ \A r \in Registrars : prefix[r] = <<>>
  <2>1. pushed[p] # 0 /\ deliverMu = p /\ \A r \in Registrars : prefix[r] = <<>>
    BY Zenon DEF Setting, DeliverMuHeld, InHand
  <2>2. \A q \in Pushers : pushed'[q] = IF q = p THEN 0 ELSE pushed[q]
    BY Zenon DEF PushTyped, PushReturn
  <2> QED
    BY <2>1, <2>2 DEF Setting, PushTyped, OnePlace, Packet
<1>1. /\ queue' \in Seq(Packet) /\ Len(queue') = Len(queue) + 1 /\ Len(queue) \in Nat
      /\ \A k : Contains(queue', k) <=> Contains(queue, k) \/ k = pushed[p]
      /\ NoDuplicates(queue')
  <2>1. ~Contains(queue, pushed[p])
    BY <1>0, Zenon DEF OnePlace
  <2>2. queue \in Seq(Packet) /\ Len(queue) \in Nat
    BY DEF QueueTyped
  <2> QED
    BY <1>0, <2>1, <2>2, AppendMembers DEF OnePlace
<1>2. QueueTyped' /\ PushTyped' /\ ReadTyped' /\ HistTyped'
  <2>1. PushTyped' /\ HistTyped'
    BY <1>0, Zenon DEF PushTyped, HistTyped, PushReturn
  <2>2. ReadTyped'
    BY Zenon DEF ReadTyped, Signal
  <2>3. Len(queue') <= Cap
    <3>1. Len(queue') = Len(queue) + 1 /\ Len(queue) \in Nat /\ Cap \in Nat
      BY <1>1, Zenon DEF Setting
    <3> QED
      BY <3>1
  <2>4. QueueTyped'
    BY <1>1, <2>3, Zenon DEF QueueTyped
  <2> QED
    BY <2>1, <2>2, <2>4, Zenon
<1>3. DeliverMuHeld'
  BY DEF Setting, PushTyped, DeliverMuHeld, PushReturn
<1>4. InHand'
  BY <1>0, Zenon DEF PushTyped, DeliverMuHeld, InHand, PushReturn
<1>5. OnePlace'
  <2>1. \A k \in Packet : k # 0
    BY DEF Setting, Packet
  <2>2. 0 <= arrived /\ pushed[p] <= arrived
    BY <1>0 DEF Setting, HistTyped
  <2> QED
    BY <1>0, <1>1, <2>1, <2>2 DEF OnePlace
<1>6. NoPacketLost'
  <2>1. ASSUME NEW k \in 1..arrived
        PROVE  Reachable(k)' <=> Reachable(k)
    <3>1. k # 0
      OBVIOUS
    <3> QED
      BY <1>0, <1>1, <3>1, Zenon DEF Reachable
  <2>2. ASSUME NEW k \in 1..arrived
        PROVE  fate'[k] = IF k = pushed[p] THEN "live" ELSE fate[k]
    BY <1>0 DEF Setting, HistTyped, PushReturn, Packet
  <2>3. Reachable(pushed[p])
    BY Zenon DEF Reachable
  <2> QED
    BY <1>0, <2>1, <2>2, <2>3, Zenon DEF NoPacketLost, Settled
<1>7. EnoughAwake'
  <2>1. CASE \A r \in Readers : readPc'[r] # "wait"
    BY <2>1, Zenon DEF EnoughAwake
  <2>2. CASE \E r \in Readers : readPc[r] = "wait" /\ readPc' = [readPc EXCEPT ![r] = "check"]
    <3>1. PICK r \in Readers : readPc[r] = "wait" /\ readPc' = [readPc EXCEPT ![r] = "check"]
      BY <2>2, Zenon
    <3>2. Enough(Len(queue), Awake)
      BY <3>1, Zenon DEF EnoughAwake
    <3>3. Awake' = Awake \cup {r} /\ r \notin Awake
      BY <3>1, AwakeChanges, Zenon
    <3>4. Enough(Len(queue'), Awake')
      BY <1>1, <3>2, <3>3, EnoughForMore
    <3> QED
      BY <3>4, Zenon DEF EnoughAwake
  <2> QED
    BY <2>1, <2>2, Zenon DEF Signal
<1>8. InOrder'
  <2>1. Before(order, out, pushed[p]) /\ Before(order, queue, pushed[p]) /\ Contains(order, pushed[p])
    BY Zenon DEF InOrder
  <2>2. Sorted(order, queue)'
    BY <1>0, <2>1, SortedAppend, Zenon DEF InOrder, QueueTyped
  <2>3. Passed(order, queue)'
    BY <1>1, <2>1, Zenon DEF InOrder, Passed
  <2>4. \A k \in Packet : Contains(queue', k) => Before(order', out', k)
    BY <1>1, <2>1, Zenon DEF InOrder
  <2>5. \A q \in Pushers : pushPc'[q] \notin {"push", "hand", "call"}
    BY <1>0, Zenon DEF PushTyped, DeliverMuHeld, PushReturn
  <2>6. /\ Sorted(order, out)' /\ Passed(order, out)'
        /\ \A r \in Registrars : Sorted(order', prefix'[r]) /\ Passed(order', prefix'[r])
        /\ \A r \in Registrars : \A k \in Packet :
             Contains(prefix'[r], k) /\ (regPc'[r] = "call" => k # Head(prefix'[r])) => Before(order', out', k)
    BY Zenon DEF InOrder
  <2> QED
    BY <2>2, <2>3, <2>4, <2>5, <2>6, Zenon DEF InOrder
<1>9. OneReceiver' /\ CloseIsFinal'
  BY Zenon DEF OneReceiver, CloseIsFinal
<1> QED
  BY <1>2, <1>3, <1>4, <1>5, <1>6, <1>7, <1>8, <1>9, Frames, Zenon

\* The receiver is found, with nothing queued.
LEMMA PushSees ==
  ASSUME PacketsInv, NEW p \in Pushers, pushPc[p] = "push", receiver # Nil,
         pushPc' = [pushPc EXCEPT ![p] = "hand"], seen' = [seen EXCEPT ![p] = receiver],
         UNCHANGED <<queueVars, deliverMu, pushed, regVars, readPc, histVars>>
  PROVE  PacketsInv'
<1> USE DEF PacketsInv, queueVars, regVars, histVars
<1>1. queue = <<>>
  BY Zenon DEF OneReceiver
<1>2. PushTyped'
  BY Zenon DEF PushTyped, QueueTyped
<1>3. DeliverMuHeld' /\ InHand'
  BY <1>1, Zenon DEF PushTyped, DeliverMuHeld, InHand
<1>4. InOrder'
  <2>1. \A q \in Pushers : pushPc'[q] \in {"push", "hand"} => pushPc[q] \in {"push", "hand"}
    BY Zenon DEF PushTyped
  <2>2. \A q \in Pushers : pushPc'[q] = "call" => pushPc[q] = "call"
    BY Zenon DEF PushTyped
  <2> QED
    BY <2>1, <2>2 DEF InOrder
<1> QED
  BY <1>2, <1>3, <1>4, Frames, Zenon

\* The receiver is handed the packet, which comes behind everything that came out.
LEMMA PushHands ==
  ASSUME Setting, PacketsInv, NEW p \in Pushers, pushPc[p] = "hand",
         pushPc' = [pushPc EXCEPT ![p] = "call"], out' = Append(out, pushed[p]),
         UNCHANGED <<queueVars, deliverMu, pushed, seen, regVars, readPc, arrived, order, fate>>
  PROVE  PacketsInv'
<1> USE DEF PacketsInv, queueVars, regVars
<1>0. /\ pushed[p] \in Packet /\ out \in Seq(Packet) /\ out' \in Seq(Packet)
      /\ \A k : Contains(out', k) <=> Contains(out, k) \/ k = pushed[p]
      /\ deliverMu = p /\ queue = <<>> /\ \A r \in Registrars : prefix[r] = <<>>
  <2>1. pushed[p] \in Packet /\ out \in Seq(Packet)
    BY Zenon DEF PushTyped, HistTyped, InHand
  <2> QED
    BY <2>1, AppendMembers DEF Setting, DeliverMuHeld, InHand
<1>1. HistTyped' /\ PushTyped'
  BY <1>0, Zenon DEF PushTyped, HistTyped
<1>2. DeliverMuHeld' /\ InHand'
  BY <1>0 DEF DeliverMuHeld, InHand
<1>3. InOrder'
  <2>1. Sorted(order, out)' /\ Passed(order, out)'
    BY <1>0, SortedAppend, Zenon DEF InOrder, Passed
  <2>2. \A k : ~Contains(queue, k) /\ \A r \in Registrars : ~Contains(prefix[r], k)
    BY <1>0, EmptyMembers, Zenon
  <2>3. \A q \in Pushers : pushPc'[q] \notin {"push", "hand"} /\ (pushPc'[q] = "call" => q = p)
    BY <1>0, Zenon DEF PushTyped, DeliverMuHeld
  <2> QED
    BY <2>1, <2>2, <2>3, Zenon DEF InOrder
<1> QED
  BY <1>1, <1>2, <1>3, Frames, Zenon

\* The steps of PushBack.
LEMMA PushSteps ==
  ASSUME Setting, PacketsInv, NEW p \in Pushers, PushBack(p) \/ PushStep(p)
  PROVE  PacketsInv'
<1> USE DEF queueVars, regVars
<1>0. pushPc[p] \in {"push", "hand", "call"} => deliverMu = p
  BY Zenon DEF PacketsInv, DeliverMuHeld
<1>1. CASE PushBack(p)
  BY <1>1, PushBackStep, Zenon
<1>2. CASE LockDeliver(p)
  BY <1>2, LockDeliverStep, Zenon
<1>3. CASE PushLocked(p)
  <2>1. CASE PushReturn(p, "released") /\ UNCHANGED <<queue, readPc>>
    BY <1>0, <1>3, <2>1, PushSettles, Zenon DEF PushLocked
  <2>2. CASE /\ ~closed /\ receiver # Nil
             /\ pushPc' = [pushPc EXCEPT ![p] = "hand"] /\ seen' = [seen EXCEPT ![p] = receiver]
             /\ UNCHANGED <<queue, readPc, pushed, fate, deliverMu>>
    BY <1>3, <2>2, PushSees, Zenon DEF PushLocked, histVars
  <2>3. CASE /\ ~closed /\ receiver = Nil /\ Len(queue) < Cap
             /\ queue' = Append(queue, pushed[p]) /\ Signal /\ PushReturn(p, "live")
    BY <1>3, <2>3, PushQueues, Zenon DEF PushLocked
  <2> QED
    BY <1>3, <2>1, <2>2, <2>3, Zenon DEF PushLocked
<1>4. CASE PushHand(p)
  <2>1. CASE active[seen[p]]
    BY <1>4, <2>1, PushHands, Zenon DEF PushHand
  <2>2. CASE ~active[seen[p]]
    BY <1>0, <1>4, <2>2, PushSettles, Zenon DEF PushHand
  <2> QED
    BY <2>1, <2>2, Zenon
<1>5. CASE PushCalled(p)
  BY <1>0, <1>5, PushSettles, Zenon DEF PushCalled
<1> QED
  BY <1>1, <1>2, <1>3, <1>4, <1>5, Zenon DEF PushStep

-----------------------------------------------------------------------------
(* registerPacketHandler                                                   *)

\* The registration takes the queue as its prefix.  Nobody else is delivering.
LEMMA RegTakes ==
  ASSUME Setting, PacketsInv, NEW r \in Registrars, RegSwap(r), ~closed, receiver = Nil
  PROVE  PacketsInv'
<1> USE DEF PacketsInv, queueVars, pushVars, histVars
<1>0. /\ receiver' = r /\ prefix' = [prefix EXCEPT ![r] = queue] /\ queue' = <<>>
      /\ regPc[r] = "swap" /\ regPc' = [regPc EXCEPT ![r] = "drain"]
      /\ UNCHANGED <<deliverMu, closed, active, pushVars, readPc, histVars>>
      /\ deliverMu = r
  BY Zenon DEF RegSwap, DeliverMuHeld
<1>1. /\ \A p \in Pushers : pushPc[p] \notin {"push", "hand", "call"}
      /\ \A q \in Registrars : prefix[q] = <<>>
      /\ \A q \in Registrars : prefix'[q] = IF q = r THEN queue ELSE <<>>
  <2>1. \A p \in Pushers : pushPc[p] \notin {"push", "hand", "call"}
    BY <1>0, Zenon DEF Setting, DeliverMuHeld
  <2>2. \A q \in Registrars : prefix[q] = <<>>
    BY <1>0, Zenon DEF DeliverMuHeld, InHand
  <2> QED
    BY <1>0, <2>1, <2>2, Zenon DEF RegTyped
<1>2. QueueTyped' /\ RegTyped'
  <2>1. QueueTyped'
    BY <1>0 DEF Setting, QueueTyped
  <2>2. RegTyped'
    BY <1>0, Zenon DEF QueueTyped, RegTyped
  <2> QED
    BY <2>1, <2>2, Zenon
<1>3. DeliverMuHeld'
  BY <1>0 DEF DeliverMuHeld
<1>4. InHand'
  BY <1>0, <1>1, Zenon DEF RegTyped, InHand
<1>5. OnePlace'
  BY <1>0, <1>1, EmptyMembers DEF OnePlace
<1>6. NoPacketLost'
  BY <1>0, <1>1, EmptyMembers DEF NoPacketLost, Reachable
<1>7. OneReceiver'
  BY <1>0 DEF Setting, OneReceiver
<1>8. EnoughAwake'
  <2>1. Len(queue') = 0
    BY <1>0, Zenon
  <2> QED
    BY <2>1, EnoughForNone, Zenon DEF EnoughAwake
<1>9. InOrder'
  <2>1. \A q \in Registrars : Sorted(order', prefix'[q]) /\ Passed(order', prefix'[q])
    BY <1>0, <1>1, EmptyMembers DEF InOrder, Passed
  <2>2. \A q \in Registrars : \A k \in Packet : Contains(prefix'[q], k) => Before(order', out', k)
    BY <1>0, <1>1, EmptyMembers, Zenon DEF InOrder
  <2>3. /\ Sorted(order, out)' /\ Sorted(order, queue)' /\ Passed(order, out)' /\ Passed(order, queue)'
        /\ \A k \in Packet : ~Contains(queue', k)
    BY <1>0, EmptyMembers, Zenon DEF InOrder, Passed
  <2>4. \A p \in Pushers : pushPc'[p] \notin {"push", "hand", "call"}
    BY <1>0, <1>1, Zenon
  <2> QED
    BY <2>1, <2>2, <2>3, <2>4, Zenon DEF InOrder
<1> QED
  BY <1>0, <1>2, <1>3, <1>4, <1>5, <1>6, <1>7, <1>8, <1>9, Frames, Zenon DEF CloseIsFinal

\* A drained packet is consumed or released: it was the head of the prefix and is
\* nowhere else.
LEMMA PrefixSettles ==
  ASSUME Setting, PacketsInv, NEW r \in Registrars, regPc[r] \in {"drain", "call"}, prefix[r] # <<>>,
         NEW f \in {"handled", "released"}, fate' = [fate EXCEPT ![Head(prefix[r])] = f],
         prefix' = [prefix EXCEPT ![r] = Tail(@)], regPc' = [regPc EXCEPT ![r] = "drain"],
         UNCHANGED <<queueVars, deliverMu, pushVars, readPc, arrived, order, out>>
  PROVE  PacketsInv'
<1> USE DEF PacketsInv, queueVars, pushVars
<1> DEFINE h == Head(prefix[r])
           t == Tail(prefix[r])
<1>0. /\ h \in Packet /\ t \in Seq(Packet) /\ NoDuplicates(t) /\ Contains(prefix[r], h)
      /\ \A k : Contains(t, k) <=> Contains(prefix[r], k) /\ k # h
      /\ Sorted(order, t)
  <2>1. prefix[r] \in Seq(Packet) /\ NoDuplicates(prefix[r]) /\ Sorted(order, prefix[r])
    BY Zenon DEF RegTyped, OnePlace, InOrder
  <2> QED
    BY <2>1, TailMembers, SortedTail, Zenon
<1> HIDE DEF h, t
<1>1. /\ prefix' = [prefix EXCEPT ![r] = t] /\ fate' = [fate EXCEPT ![h] = f]
      /\ \A q \in Registrars : prefix'[q] = IF q = r THEN t ELSE prefix[q]
      /\ \A q \in Registrars : q # r => prefix[q] = <<>>
      /\ queue = <<>>
      /\ regPc[r] = "call" => h = Head(prefix[r])
  BY Zenon DEF RegTyped, DeliverMuHeld, InHand, h, t
<1>2. RegTyped' /\ HistTyped'
  BY <1>0, <1>1 DEF RegTyped, HistTyped, Settled
<1>3. DeliverMuHeld' /\ InHand'
  BY <1>1 DEF RegTyped, DeliverMuHeld, InHand
<1>4. OnePlace'
  BY <1>0, <1>1 DEF OnePlace
<1>5. NoPacketLost'
  <2>1. \A p \in Pushers : pushed[p] # h
    BY <1>0, Zenon DEF OnePlace
  <2>2. \A k : ~Contains(queue, k) /\ \A q \in Registrars : q # r => ~Contains(prefix[q], k)
    BY <1>1, EmptyMembers
  <2>3. ASSUME NEW k \in 1..arrived
        PROVE  Reachable(k)' <=> Reachable(k) /\ k # h
    BY <1>0, <1>1, <2>1, <2>2 DEF Reachable
  <2>4. ASSUME NEW k \in 1..arrived
        PROVE  fate'[k] \in Settled <=> fate[k] \in Settled \/ k = h
    BY <1>0, <1>1 DEF Setting, HistTyped, Settled, Packet
  <2> QED
    BY <2>3, <2>4, Zenon DEF NoPacketLost
<1>6. OneReceiver' /\ CloseIsFinal'
  BY DEF OneReceiver, CloseIsFinal
<1>7. InOrder'
  <2>1. \A q \in Registrars : Sorted(order', prefix'[q]) /\ Passed(order', prefix'[q])
    BY <1>0, <1>1, Zenon DEF InOrder, Passed
  <2>2. ASSUME NEW q \in Registrars, NEW k \in Packet, Contains(prefix'[q], k)
        PROVE  Before(order', out', k)
    <3>1. q = r
      BY <1>1, <2>2, EmptyMembers
    <3> QED
      BY <1>0, <1>1, <2>2, <3>1 DEF InOrder
  <2>3. /\ Sorted(order, out)' /\ Sorted(order, queue)' /\ Passed(order, out)' /\ Passed(order, queue)'
        /\ \A k \in Packet : Contains(queue', k) => Before(order', out', k)
        /\ \A p \in Pushers : pushPc'[p] \in {"push", "hand"} => Before(order', out', pushed'[p])
        /\ \A p \in Pushers : pushPc'[p] \in {"push", "hand", "call"} => Contains(order', pushed'[p])
        /\ \A p \in Pushers : pushPc'[p] = "push" => Before(order', queue', pushed'[p])
    BY Zenon DEF InOrder
  <2> QED
    BY <2>1, <2>2, <2>3, Zenon DEF InOrder
<1> QED
  BY <1>2, <1>3, <1>4, <1>5, <1>6, <1>7, Frames, Zenon

\* The handler is called with the head of the prefix, which comes behind everything
\* that came out and before the rest of the prefix.
LEMMA PrefixHands ==
  ASSUME Setting, PacketsInv, NEW r \in Registrars, regPc[r] = "drain", prefix[r] # <<>>,
         out' = Append(out, Head(prefix[r])), regPc' = [regPc EXCEPT ![r] = "call"],
         UNCHANGED <<queueVars, prefix, deliverMu, pushVars, readPc, arrived, order, fate>>
  PROVE  PacketsInv'
<1> USE DEF PacketsInv, queueVars, pushVars
<1> DEFINE h == Head(prefix[r])
<1>0. /\ h \in Packet /\ Contains(prefix[r], h)
      /\ \A k : Contains(prefix[r], k) /\ k # h => Precedes(order, h, k)
  <2>1. prefix[r] \in Seq(Packet) /\ NoDuplicates(prefix[r]) /\ Sorted(order, prefix[r])
    BY Zenon DEF RegTyped, OnePlace, InOrder
  <2> QED
    BY <2>1, TailMembers, SortedTail, Zenon
<1>1. /\ out \in Seq(Packet) /\ out' \in Seq(Packet)
      /\ \A k : Contains(out', k) <=> Contains(out, k) \/ k = h
  BY <1>0, AppendMembers, SMTT(30), ZenonT(30) DEF HistTyped
<1>2. /\ queue = <<>> /\ \A q \in Registrars : q # r => prefix[q] = <<>>
      /\ \A p \in Pushers : pushPc[p] \notin {"push", "hand", "call"}
  BY DEF Setting, DeliverMuHeld, InHand
<1>3. RegTyped' /\ HistTyped'
  BY <1>1, Zenon DEF RegTyped, HistTyped
<1>4. DeliverMuHeld' /\ InHand'
  BY DEF DeliverMuHeld, InHand
<1>5. OneReceiver' /\ CloseIsFinal'
  BY DEF OneReceiver, CloseIsFinal
<1>6. InOrder'
  <2>1. Before(order, out, h)
    BY <1>0, Zenon DEF InOrder
  <2>2. Sorted(order, out)' /\ Passed(order, out)'
    BY <1>0, <1>1, <2>1, SortedAppend, Zenon DEF InOrder, Passed
  <2>3. ASSUME NEW q \in Registrars, NEW k \in Packet, Contains(prefix[q], k), q = r => k # h
        PROVE  Before(order', out', k)
    <3>1. q = r
      BY <1>2, <2>3, EmptyMembers, Zenon
    <3>2. Before(order, out, k) /\ Precedes(order, h, k)
      BY <1>0, <2>3, <3>1, Zenon DEF InOrder
    <3> QED
      BY <1>1, <3>2, Zenon DEF Before
  <2>4. \A k : ~Contains(queue, k)
    BY <1>2, EmptyMembers, Zenon
  <2>5. regPc'[r] = "call"
    BY Zenon DEF RegTyped
  <2> QED
    BY <1>2, <2>2, <2>3, <2>4, <2>5, Zenon DEF InOrder
<1> QED
  BY <1>3, <1>4, <1>5, <1>6, Frames, Zenon

\* A registration with no prefix in hand goes from one of its steps to another.
LEMMA RegMoves ==
  ASSUME PacketsInv, NEW r \in Registrars, NEW x \in {"lock", "swap", "on", "off", "done"},
         regPc' = [regPc EXCEPT ![r] = x], prefix[r] = <<>>,
         UNCHANGED <<queue, pushPc, pushed, seen, prefix, readPc, histVars>>,
         Flags', QueueTyped', PushTyped', DeliverMuHeld', OneReceiver', CloseIsFinal'
  PROVE  PacketsInv'
<1> USE DEF PacketsInv, histVars
<1>1. RegTyped'
  BY Zenon DEF RegTyped
<1>2. \A q \in Registrars : IF q = r THEN regPc'[q] = x ELSE regPc'[q] = regPc[q]
  BY Zenon DEF RegTyped
<1>3. InHand'
  BY <1>2, Zenon DEF InHand
<1>4. InOrder'
  <2>1. \A k : ~Contains(prefix[r], k)
    BY EmptyMembers, Zenon
  <2>2. \A q \in Registrars : regPc[q] = "call" => regPc'[q] = "call"
    BY <1>2, Zenon DEF InHand
  <2> QED
    BY <2>1, <2>2, Zenon DEF InOrder
<1> QED
  BY <1>1, <1>3, <1>4, Frames, Zenon

\* A registration, and the function it returns, is called.
LEMMA RegCalls ==
  ASSUME Setting, PacketsInv, NEW r \in Registrars, Register(r) \/ Unregister(r)
  PROVE  PacketsInv'
<1> USE DEF PacketsInv
<1>1. PICK x \in {"lock", "off"} :
        /\ regPc' = [regPc EXCEPT ![r] = x] /\ regPc[r] \in {"idle", "on"}
        /\ active' = [active EXCEPT ![r] = (x = "lock")]
        /\ UNCHANGED <<queue, closed, receiver, deliverMu, pushVars, prefix, readPc, histVars>>
  BY Zenon DEF Register, Unregister
<1> USE DEF pushVars
<1>2. Flags'
  BY <1>1, Zenon DEF Flags
<1>3. prefix[r] = <<>> /\ DeliverMuHeld'
  BY <1>1 DEF InHand, DeliverMuHeld
<1>4. \A q \in Registrars : /\ q # r => regPc'[q] = regPc[q] /\ active'[q] = active[q]
                            /\ regPc'[r] = x /\ active'[r] = (x = "lock")
  BY <1>1, Zenon DEF RegTyped, Flags
<1>5. OneReceiver' /\ CloseIsFinal'
  BY <1>1, <1>4, Zenon DEF OneReceiver, CloseIsFinal
<1> QED
  BY <1>1, <1>2, <1>3, <1>5, Frames, RegMoves, Zenon

\* It takes deliverMu.
LEMMA RegLocks ==
  ASSUME Setting, PacketsInv, NEW r \in Registrars, RegLock(r)
  PROVE  PacketsInv'
<1> USE DEF PacketsInv, RegLock, pushVars, queueVars
<1>1. PushTyped'
  BY Zenon DEF PushTyped
<1>2. prefix[r] = <<>> /\ DeliverMuHeld'
  BY DEF Setting, RegTyped, InHand, DeliverMuHeld
<1>3. OneReceiver' /\ CloseIsFinal'
  BY DEF OneReceiver, CloseIsFinal
<1> QED
  BY <1>1, <1>2, <1>3, Frames, RegMoves, Zenon

\* It releases deliverMu: refused, or with its prefix delivered.
LEMMA RegUnlocks ==
  ASSUME Setting, PacketsInv, NEW r \in Registrars,
         \/ RegSwap(r) /\ (closed \/ receiver # Nil)
         \/ RegDrain(r) /\ prefix[r] = <<>>
  PROVE  PacketsInv'
<1> USE DEF PacketsInv
<1>1. PICK x \in {"done", "on"} :
        /\ regPc' = [regPc EXCEPT ![r] = x] /\ regPc[r] = (IF x = "done" THEN "swap" ELSE "drain")
        /\ deliverMu' = Free
        /\ UNCHANGED <<queueVars, pushVars, prefix, readPc, histVars>>
  BY Zenon DEF RegSwap, RegDrain, histVars, queueVars
<1> USE DEF pushVars, queueVars
<1>2. PushTyped'
  BY <1>1, Zenon DEF PushTyped
<1>3. prefix[r] = <<>>
  <2>1. CASE regPc[r] = "swap"
    BY <2>1, Zenon DEF InHand
  <2>2. CASE regPc[r] = "drain"
    BY <2>2, Zenon DEF RegSwap, RegDrain
  <2> QED
    BY <1>1, <2>1, <2>2, Zenon
<1>4. DeliverMuHeld'
  <2>1. deliverMu = r
    BY <1>1, Zenon DEF DeliverMuHeld
  <2>2. \A q \in Registrars : regPc'[q] \notin {"swap", "drain", "call"}
    BY <1>1, <2>1, Zenon DEF RegTyped, DeliverMuHeld
  <2>3. \A p \in Pushers : pushPc'[p] \notin {"push", "hand", "call"}
    BY <1>1, <2>1, Zenon DEF Setting, DeliverMuHeld
  <2> QED
    BY <1>1, <2>2, <2>3, Zenon DEF Setting, DeliverMuHeld
<1>5. OneReceiver' /\ CloseIsFinal'
  BY <1>1, Zenon DEF RegTyped, OneReceiver, CloseIsFinal
<1> QED
  BY <1>1, <1>2, <1>3, <1>4, <1>5, Frames, RegMoves, Zenon

\* The returned function clears the receiver.
LEMMA RegLeaves ==
  ASSUME PacketsInv, NEW r \in Registrars, UnregisterLocked(r)
  PROVE  PacketsInv'
<1> USE DEF PacketsInv, UnregisterLocked, pushVars
<1>1. QueueTyped'
  BY Zenon DEF QueueTyped
<1>2. prefix[r] = <<>> /\ DeliverMuHeld'
  BY DEF InHand, DeliverMuHeld
<1>3. OneReceiver' /\ CloseIsFinal'
  BY DEF OneReceiver, CloseIsFinal
<1> QED
  BY <1>1, <1>2, <1>3, Frames, RegMoves, Zenon

\* The steps of a registration and of the function it returns.
LEMMA RegSteps ==
  ASSUME Setting, PacketsInv, NEW r \in Registrars, Register(r) \/ RegStep(r) \/ Unregister(r)
  PROVE  PacketsInv'
<1>1. CASE Register(r) \/ Unregister(r)
  BY <1>1, RegCalls, Zenon
<1>2. CASE RegLock(r) \/ UnregisterLocked(r)
  BY <1>2, RegLocks, RegLeaves, Zenon
<1>3. CASE RegSwap(r)
  BY <1>3, RegTakes, RegUnlocks, Zenon
<1>4. CASE RegDrain(r)
  <2>1. CASE prefix[r] = <<>>
    BY <1>4, <2>1, RegUnlocks, Zenon
  <2>2. CASE prefix[r] # <<>> /\ ~active[r]
    <3>1. regPc[r] = "drain" /\ regPc' = [regPc EXCEPT ![r] = "drain"]
      BY <1>4, <2>2, Zenon DEF RegDrain, PacketsInv, RegTyped
    <3> QED
      BY <1>4, <2>2, <3>1, PrefixSettles, Zenon DEF RegDrain, queueVars, pushVars
  <2>3. CASE prefix[r] # <<>> /\ active[r]
    BY <1>4, <2>3, PrefixHands, Zenon DEF RegDrain, queueVars, pushVars
  <2> QED
    BY <2>1, <2>2, <2>3, Zenon
<1>5. CASE RegCalled(r)
  BY <1>5, PrefixSettles, Zenon DEF RegCalled, PacketsInv, InHand, queueVars, pushVars
<1> QED
  BY <1>1, <1>2, <1>3, <1>4, <1>5, Zenon DEF RegStep

-----------------------------------------------------------------------------
(* PopFrontBlock and Close                                                 *)

\* A reader takes the head of the queue, which comes behind everything that came
\* out and before the rest of the queue.
LEMMA PopTakes ==
  ASSUME Setting, PacketsInv, NEW r \in Readers, PopCheck(r), ~closed, queue # <<>>
  PROVE  PacketsInv'
<1> USE DEF PacketsInv, queueVars, pushVars, regVars
<1> DEFINE h == Head(queue)
           t == Tail(queue)
<1>0. /\ h \in Packet /\ t \in Seq(Packet) /\ NoDuplicates(t) /\ Contains(queue, h)
      /\ \A k : Contains(t, k) <=> Contains(queue, k) /\ k # h
      /\ Sorted(order, t) /\ \A k : Contains(t, k) => Precedes(order, h, k)
      /\ Len(t) = Len(queue) - 1 /\ Len(queue) \in Nat
  <2>1. queue \in Seq(Packet) /\ NoDuplicates(queue) /\ Sorted(order, queue) /\ Len(queue) \in Nat
    <3>1. queue \in Seq(Packet) /\ NoDuplicates(queue) /\ Sorted(order, queue)
      BY Zenon DEF QueueTyped, OnePlace, InOrder
    <3> QED
      BY <3>1, SeqLength, Zenon
  <2> QED
    BY <2>1, TailMembers, SortedTail, Zenon
<1>1. /\ queue' = t /\ out' = Append(out, h) /\ fate' = [fate EXCEPT ![h] = "read"]
      /\ readPc[r] = "check" /\ readPc' = [readPc EXCEPT ![r] = "idle"]
      /\ UNCHANGED <<closed, receiver, active, deliverMu, pushVars, regVars, arrived, order>>
  BY Zenon DEF PopCheck
<1> HIDE DEF h, t
<1>2. /\ out \in Seq(Packet) /\ out' \in Seq(Packet)
      /\ \A k : Contains(out', k) <=> Contains(out, k) \/ k = h
  BY <1>0, <1>1, AppendMembers DEF HistTyped
<1>3. receiver = Nil /\ \A q \in Registrars : prefix[q] = <<>>
  BY Zenon DEF InHand, OneReceiver
<1>4. \A p \in Pushers : pushPc[p] \notin {"hand", "call"}
  BY Zenon DEF InHand
<1>5. QueueTyped' /\ ReadTyped' /\ HistTyped'
  <2>1. QueueTyped'
    BY <1>0, <1>1 DEF Setting, QueueTyped
  <2>2. ReadTyped' /\ HistTyped'
    BY <1>0, <1>1, <1>2, Zenon DEF ReadTyped, HistTyped, Settled
  <2> QED
    BY <2>1, <2>2, Zenon
<1>6. DeliverMuHeld'
  BY <1>1, Frames, Zenon
<1>7. InHand' /\ OneReceiver'
  BY <1>1, <1>3, <1>4, Zenon DEF InHand, OneReceiver
<1>8. OnePlace'
  BY <1>0, <1>1, Zenon DEF OnePlace
<1>9. NoPacketLost'
  <2>1. \A p \in Pushers : pushed[p] # h
    BY <1>0, Zenon DEF OnePlace
  <2>2. \A k : \A q \in Registrars : ~Contains(prefix[q], k)
    BY <1>3, EmptyMembers, Zenon
  <2>3. ASSUME NEW k \in 1..arrived
        PROVE  Reachable(k)' <=> Reachable(k) /\ k # h
    BY <1>0, <1>1, <2>1, <2>2, Zenon DEF Reachable
  <2>4. ASSUME NEW k \in 1..arrived
        PROVE  fate'[k] \in Settled <=> fate[k] \in Settled \/ k = h
    BY <1>0, <1>1 DEF Setting, HistTyped, Settled, Packet
  <2> QED
    BY <1>1, <2>3, <2>4, Zenon DEF NoPacketLost
<1>10. EnoughAwake'
  <2>1. Awake' = Awake \ {r} /\ r \in Awake
    BY <1>1, AwakeChanges, Zenon
  <2>2. (\E q \in Readers : readPc'[q] = "wait") => \E q \in Readers : readPc[q] = "wait"
    BY <1>1
  <2>3. Len(queue') \in Nat /\ Len(queue) = Len(queue') + 1
    BY <1>0, <1>1
  <2> QED
    BY <2>1, <2>2, <2>3, EnoughForLess, Zenon DEF EnoughAwake
<1>11. InOrder'
  <2>1. Before(order, out, h)
    BY <1>0, Zenon DEF InOrder
  <2>2. Sorted(order, out)' /\ Passed(order, out)'
    BY <1>0, <1>1, <1>2, <2>1, SortedAppend, Zenon DEF InOrder, Passed
  <2>3. Sorted(order, queue)' /\ Passed(order, queue)'
    BY <1>0, <1>1, Zenon DEF InOrder, Passed
  <2>4. ASSUME NEW k \in Packet, Contains(queue', k)
        PROVE  Before(order', out', k)
    <3>1. Before(order, out, k) /\ Precedes(order, h, k)
      BY <1>0, <1>1, <2>4, Zenon DEF InOrder
    <3> QED
      BY <1>1, <1>2, <3>1, Zenon DEF Before
  <2>5. ASSUME NEW p \in Pushers, pushPc'[p] \in {"push", "hand"}
        PROVE  /\ Before(order', out', pushed'[p]) /\ pushPc'[p] = "push"
               /\ Before(order', queue', pushed'[p])
    <3>1. pushPc[p] = "push" /\ Before(order, out, pushed[p]) /\ Before(order, queue, pushed[p])
      BY <1>1, <1>4, <2>5, Zenon DEF InOrder
    <3>2. Precedes(order, h, pushed[p])
      BY <1>0, <3>1, Zenon DEF Before
    <3> QED
      BY <1>0, <1>1, <1>2, <3>1, <3>2, Zenon DEF Before
  <2>6. \A k : \A q \in Registrars : ~Contains(prefix'[q], k)
    BY <1>1, <1>3, EmptyMembers, Zenon
  <2>7. /\ \A q \in Registrars : Sorted(order', prefix'[q]) /\ Passed(order', prefix'[q])
        /\ \A p \in Pushers : pushPc'[p] \in {"push", "hand", "call"} => Contains(order', pushed'[p])
    BY <1>1, Zenon DEF InOrder
  <2> QED
    BY <2>2, <2>3, <2>4, <2>5, <2>6, <2>7, Zenon DEF InOrder
<1> QED
  BY <1>1, <1>5, <1>6, <1>7, <1>8, <1>9, <1>10, <1>11, Frames, Zenon DEF CloseIsFinal

\* The steps of a reader.
LEMMA ReadSteps ==
  ASSUME Setting, PacketsInv, NEW r \in Readers, PopFrontBlock(r) \/ PopCheck(r)
  PROVE  PacketsInv'
<1>1. CASE PopCheck(r) /\ ~closed /\ queue # <<>>
  BY <1>1, PopTakes, Zenon
<1>2. CASE PopFrontBlock(r) \/ (PopCheck(r) /\ (closed \/ queue = <<>>))
  <2> USE DEF PacketsInv, PopFrontBlock, PopCheck, queueVars, pushVars, regVars, histVars
  <2>1. PICK x \in {"idle", "check", "wait"} :
          /\ readPc' = [readPc EXCEPT ![r] = x]
          /\ x = "wait" => queue = <<>> /\ ~closed
          /\ x = "check" => readPc[r] # "check"
    BY <1>2, Zenon
  <2>2. UNCHANGED <<queueVars, deliverMu, pushVars, regVars, histVars>>
    BY <1>2, Zenon
  <2>3. ReadTyped'
    BY <2>1, Zenon DEF ReadTyped
  <2>4. CloseIsFinal'
    <3>1. closed => \A q \in Readers : readPc[q] # "wait" => readPc'[q] # "wait"
      BY <2>1, Zenon DEF ReadTyped
    <3> QED
      BY <2>2, <3>1, Zenon DEF CloseIsFinal
  <2>5. EnoughAwake'
    <3>1. CASE queue = <<>>
      <4>1. Len(queue') = 0
        BY <2>2, <3>1, Zenon
      <4> QED
        BY <4>1, EnoughForNone, Zenon DEF EnoughAwake
    <3>2. CASE closed
      BY <2>2, <2>4, <3>2, Zenon DEF CloseIsFinal, EnoughAwake
    <3>3. CASE ~closed /\ queue # <<>>
      <4>1. x = "check" /\ readPc[r] # "check"
        BY <1>2, <2>1, <3>3, Zenon DEF ReadTyped
      <4>2. Awake' = Awake \cup {r} /\ r \notin Awake
        BY <2>1, <4>1, AwakeChanges, Zenon
      <4>3. (\E q \in Readers : readPc'[q] = "wait") => \E q \in Readers : readPc[q] = "wait"
        BY <2>1, <4>1
      <4>4. Len(queue) \in Nat /\ queue' = queue
        BY <2>2
      <4> QED
        BY <4>2, <4>3, <4>4, EnoughForMore, Zenon DEF EnoughAwake
    <3> QED
      BY <3>1, <3>2, <3>3, Zenon
  <2> QED
    BY <2>2, <2>3, <2>4, <2>5, Frames, Zenon
<1> QED
  BY <1>1, <1>2, Zenon

\* What arrived is a packet.
LEMMA ArrivedIsPacket ==
  ASSUME Setting, HistTyped, NEW k \in 1..arrived
  PROVE  k \in Packet
BY DEF Setting, HistTyped, Packet

\* Close releases what is queued and deactivates the receiver.
LEMMA CloseStep ==
  ASSUME Setting, PacketsInv, Close
  PROVE  PacketsInv'
<1> USE DEF PacketsInv, Close, pushVars, regVars
<1>1. Flags'
  BY Zenon DEF Flags
<1>2. QueueTyped' /\ ReadTyped' /\ HistTyped'
  <2>1. QueueTyped'
    <3>1. <<>> \in Seq(Packet) /\ Len(<<>>) <= Cap
      BY EmptyFits, Zenon DEF Setting
    <3> QED
      BY <3>1, Zenon DEF QueueTyped
  <2>2. ReadTyped' /\ HistTyped'
    BY Zenon DEF ReadTyped, HistTyped, Settled
  <2> QED
    BY <2>1, <2>2, Zenon
<1>3. DeliverMuHeld' /\ InHand'
  BY Zenon DEF DeliverMuHeld, InHand
<1>4. OnePlace'
  BY EmptyMembers, Zenon DEF OnePlace
<1>5. NoPacketLost'
  <2>1. ASSUME NEW k \in 1..arrived
        PROVE  Reachable(k)' <=> Reachable(k) /\ ~Contains(queue, k)
    <3>1. Contains(queue, k) => /\ \A p \in Pushers : pushed[p] # k
                                /\ \A q \in Registrars : prefix[q] = <<>>
      <4>1. k \in Packet
        BY ArrivedIsPacket, Zenon
      <4> QED
        BY <4>1, EmptyMembers, Zenon DEF OnePlace, InHand
    <3> QED
      BY <3>1, EmptyMembers, Zenon DEF Reachable
  <2>2. ASSUME NEW k \in 1..arrived
        PROVE  fate'[k] \in Settled <=> fate[k] \in Settled \/ Contains(queue, k)
    <3>1. k \in Packet /\ "released" \in Settled
      BY ArrivedIsPacket, Zenon DEF Settled
    <3>2. fate'[k] = IF Contains(queue, k) THEN "released" ELSE fate[k]
      BY <3>1, Zenon
    <3> QED
      BY <3>1, <3>2, Zenon
  <2> QED
    BY <2>1, <2>2, Zenon DEF NoPacketLost
<1>6. OneReceiver'
  BY Zenon DEF OneReceiver
<1>7. CloseIsFinal'
  <2>1. \A r \in Readers : readPc'[r] # "wait"
    BY Zenon DEF ReadTyped
  <2>2. \A r \in Registrars : regPc'[r] \in {"drain", "call", "on", "off"} => ~active'[r]
    BY Zenon DEF OneReceiver
  <2> QED
    BY <2>1, <2>2, Zenon DEF CloseIsFinal
<1>8. EnoughAwake'
  BY <1>7, Zenon DEF CloseIsFinal, EnoughAwake
<1>9. InOrder'
  <2>1. Sorted(order, queue)' /\ Passed(order, queue)' /\ \A k : ~Contains(queue', k)
    BY EmptyMembers, Zenon DEF Passed
  <2> QED
    BY <2>1, Zenon DEF InOrder, Before
<1> QED
  BY <1>1, <1>2, <1>3, <1>4, <1>5, <1>6, <1>7, <1>8, <1>9, Frames, Zenon

-----------------------------------------------------------------------------
(* The theorems                                                            *)

\* However pushes, blocking reads, registrations and Close of the receive queue
\* interleave, deliverMu has the holder packet.go gives it, every packet is in
\* one place and in order, and every packet queued wakes a waiting read.
THEOREM PacketsInvariant ==
  ASSUME Setting
  PROVE  Spec => []PacketsInv
<1>1. ASSUME Init
      PROVE  PacketsInv
  <2> USE DEF Init
  <2>1. Flags
    BY <1>1, Zenon DEF Flags
  <2>2. QueueTyped /\ PushTyped /\ RegTyped /\ ReadTyped /\ HistTyped
    BY <1>1 DEF Setting, QueueTyped, PushTyped, RegTyped, ReadTyped, HistTyped
  <2>3. DeliverMuHeld /\ InHand /\ OneReceiver
    BY <1>1, Zenon DEF Setting, DeliverMuHeld, InHand, OneReceiver
  <2>4. OnePlace
    BY <1>1, EmptyMembers DEF Setting, OnePlace, Packet
  <2>5. NoPacketLost /\ CloseIsFinal /\ EnoughAwake
    BY <1>1 DEF NoPacketLost, CloseIsFinal, EnoughAwake
  <2>6. InOrder
    BY <1>1, EmptyMembers, Zenon DEF InOrder, Passed
  <2> QED
    BY <2>1, <2>2, <2>3, <2>4, <2>5, <2>6, Zenon DEF PacketsInv
<1>2. ASSUME PacketsInv, [Next]_vars
      PROVE  PacketsInv'
  <2>1. CASE UNCHANGED vars
    BY <1>2, <2>1, Frames, Zenon
    DEF PacketsInv, vars, queueVars, pushVars, regVars, histVars
  <2>2. CASE Next
    BY <1>2, <2>2, PushSteps, RegSteps, ReadSteps, CloseStep, Zenon DEF Next
  <2> QED
    BY <1>2, <2>1, <2>2, Zenon
<1> QED
  BY <1>1, <1>2, PTL DEF Spec

\* Every packet is in somebody's hands until it is consumed or its buffer released,
\* and not a moment longer; handlers and readers see the packets in the order of
\* deliverMu; no reader sleeps over a queued packet unless another one is awake, and
\* nothing is left behind Close: whatever push, drain, unregister, reads and Close do
\* to each other.
THEOREM ReceiveQueueIsSafe ==
  ASSUME Setting
  PROVE  Spec => []ReceiveQueueSafe
<1>1. ASSUME PacketsInv
      PROVE  ReceiveQueueSafe
  <2> USE <1>1 DEF PacketsInv
  <2>0. TypeOK
    BY Zenon DEF TypeOK, Flags, QueueTyped, PushTyped, RegTyped, ReadTyped, HistTyped
  <2>1. FIFO
    BY Zenon DEF InOrder, Sorted, FIFO
  <2>2. NoLostWakeup
    <3>1. ASSUME queue # <<>>, \E r \in Readers : readPc[r] = "wait", ~\E r \in Readers : readPc[r] = "check"
          PROVE  FALSE
      <4>1. Awake = {} /\ Enough(Len(queue), Awake)
        BY <3>1, Zenon DEF Awake, EnoughAwake
      <4>2. Len(queue) \in Nat /\ Len(queue) > 0
        BY <3>1
      <4> QED
        BY <4>1, <4>2, EnoughForNone, Zenon
    <3> QED
      BY <3>1, Zenon DEF NoLostWakeup
  <2> QED
    BY <2>0, <2>1, <2>2, Zenon DEF ReceiveQueueSafe
<1> QED
  BY <1>1, PacketsInvariant, PTL

-----------------------------------------------------------------------------
(* Deadlines: the inductive invariant                                      *)

\* The phases of a timer, and the timers.
Stages == {"off", "armed", "fired", "acts", "done"}
Timers == [ph : Stages, at : Nat, gen : Nat, version : Nat]

\* The types the proofs need.
TimersTyped ==
  /\ kind \in {"session", "read"} /\ clock \in Nat /\ deadline \in Nat /\ version \in Nat /\ turn \in Nat
  /\ timer \in 0..MaxTimers /\ timers \in [1..MaxTimers -> Timers]
  /\ reading \in BOOLEAN /\ ended \in BOOLEAN /\ (kind = "session" => ~reading)
  /\ cause \in {"none", "deadline", "closed"}

\* A timer that has fired is due.
FiredIsDue == \A i \in 1..MaxTimers : timers[i].ph = "fired" => timers[i].at <= clock

\* A session's timer is the one of the deadline in force, until it acts.
SessionTimer ==
  kind = "session" =>
    /\ timer # Timer!None => /\ timers[timer].ph \in {"armed", "fired"}
                             /\ timers[timer].at = deadline /\ deadline # Timer!None
    /\ deadline # Timer!None /\ ~ended /\ timer = Timer!None
         => \E i \in 1..MaxTimers : timers[i].ph = "acts" /\ timers[i].at = deadline

\* A version stands for one deadline, and is no newer than the one in force.
ReadVersions ==
  kind = "read" =>
    \A i \in 1..MaxTimers : timers[i].ph # "off" =>
      /\ timers[i].version <= version
      /\ timers[i].version = version => timers[i].at = deadline /\ deadline # Timer!None

\* The read in progress has a timer for the deadline in force.
ReadTimer ==
  kind = "read" /\ deadline # Timer!None /\ ~ended /\ reading /\ cause = "none"
    => \E i \in 1..MaxTimers : /\ timers[i].ph \in {"armed", "fired", "acts"} /\ timers[i].at = deadline
                               /\ timers[i].gen = turn /\ timers[i].version = version

TimerInv == TimersTyped /\ FiredIsDue /\ SessionTimer /\ ReadVersions /\ ReadTimer /\ Timer!NeverEarly

-----------------------------------------------------------------------------
(* Deadlines: the timers                                                   *)

\* A timer goes from one phase to another.
LEMMA SetPhase ==
  ASSUME NEW x \in Timers, NEW p \in Stages
  PROVE  /\ [x EXCEPT !.ph = p] \in Timers /\ [x EXCEPT !.ph = p].ph = p
         /\ [x EXCEPT !.ph = p].at = x.at /\ [x EXCEPT !.ph = p].gen = x.gen
         /\ [x EXCEPT !.ph = p].version = x.version
BY DEF Timers, Stages

\* The timers h are those of f, with j in phase p.
Moved(f, j, p, h) ==
  /\ h \in [1..MaxTimers -> Timers]
  /\ \A i \in 1..MaxTimers : /\ h[i].at = f[i].at /\ h[i].gen = f[i].gen /\ h[i].version = f[i].version
                             /\ i # j => h[i].ph = f[i].ph
  /\ h[j].ph = p

\* EXCEPT moves one timer.
LEMMA Phases ==
  ASSUME NEW f \in [1..MaxTimers -> Timers], NEW j \in 1..MaxTimers, NEW p \in Stages
  PROVE  Moved(f, j, p, [f EXCEPT ![j].ph = p])
<1> DEFINE y == [f[j] EXCEPT !.ph = p]
<1>1. f[j] \in Timers
  OBVIOUS
<1>2. y \in Timers /\ y.ph = p /\ y.at = f[j].at /\ y.gen = f[j].gen /\ y.version = f[j].version
  BY <1>1, SetPhase, Zenon
<1> DEFINE h == [f EXCEPT ![j] = y]
<1>3. h = [f EXCEPT ![j].ph = p]
  BY Zenon
<1> HIDE DEF y
<1>4. /\ h \in [1..MaxTimers -> Timers] /\ h[j] = y /\ \A i \in 1..MaxTimers : i # j => h[i] = f[i]
  BY <1>2
<1> HIDE DEF h
<1>5. Moved(f, j, p, h)
  BY <1>2, <1>4, Zenon DEF Moved
<1> QED
  BY <1>3, <1>5, Zenon

\* Stop changes the timer at hand only.
LEMMA StopsOne ==
  ASSUME Timer!Setting, TimersTyped
  PROVE  /\ Timer!Stopped \in [1..MaxTimers -> Timers]
         /\ \A i \in 1..MaxTimers :
              /\ Timer!Stopped[i].at = timers[i].at /\ Timer!Stopped[i].gen = timers[i].gen
              /\ Timer!Stopped[i].version = timers[i].version
              /\ \/ Timer!Stopped[i].ph = timers[i].ph
                 \/ i = timer /\ timers[i].ph = "armed" /\ Timer!Stopped[i].ph = "done"
<1>1. CASE timer # Timer!None /\ timers[timer].ph = "armed"
  <2>1. timer \in 1..MaxTimers /\ timers \in [1..MaxTimers -> Timers]
    BY <1>1 DEF TimersTyped, Timer!None, Timer!Setting
  <2>2. Timer!Stopped = [timers EXCEPT ![timer].ph = "done"] /\ "done" \in Stages
    BY <1>1, Zenon DEF Timer!Stopped, Stages
  <2>3. Moved(timers, timer, "done", Timer!Stopped)
    BY <2>1, <2>2, Phases, Zenon
  <2> QED
    BY <1>1, <2>3, Zenon DEF Moved
<1>2. CASE ~(timer # Timer!None /\ timers[timer].ph = "armed")
  BY <1>2, Zenon DEF Timer!Stopped, TimersTyped
<1> QED
  BY <1>1, <1>2, Zenon

\* A timer is armed in a place of its own.
LEMMA ArmsOne ==
  ASSUME Timer!Setting, TimersTyped, NEW t \in Nat, NEW g \in Nat, NEW v \in Nat, Timer!Arm(t, g, v)
  PROVE  /\ timer' \in 1..MaxTimers /\ timers' \in [1..MaxTimers -> Timers]
         /\ timer' \in 0..MaxTimers /\ timers'[timer'].ph = "armed" /\ timers'[timer'].at = t
         /\ timers'[timer'].gen = g /\ timers'[timer'].version = v
         /\ \A i \in 1..MaxTimers : i # timer' => timers'[i] = Timer!Stopped[i]
<1> DEFINE e == [ph |-> "armed", at |-> t, gen |-> g, version |-> v]
<1>1. PICK i \in 1..MaxTimers : timers[i].ph = "off" /\ timer' = i /\ timers' = [Timer!Stopped EXCEPT ![i] = e]
  BY Zenon DEF Timer!Arm
<1>2. e \in Timers /\ e.ph = "armed" /\ e.at = t /\ e.gen = g /\ e.version = v
  BY DEF Timers, Stages
<1> HIDE DEF e
<1>3. /\ timers' \in [1..MaxTimers -> Timers] /\ timers'[i] = e
      /\ \A j \in 1..MaxTimers : j # i => timers'[j] = Timer!Stopped[j]
  BY <1>1, <1>2, StopsOne, Zenon
<1>4. i \in 0..MaxTimers
  BY DEF Timer!Setting
<1> QED
  BY <1>1, <1>2, <1>3, <1>4, Zenon

\* Disarming arms nothing.
LEMMA DisarmsOne ==
  ASSUME Timer!Setting, TimersTyped, Timer!Disarm
  PROVE  /\ timer' = 0 /\ timers' \in [1..MaxTimers -> Timers]
         /\ timers' = Timer!Stopped
BY StopsOne DEF Timer!Disarm, Timer!None

\* SetDeadline of a session.
LEMMA SessionSets ==
  ASSUME Timer!Setting, TimerInv, NEW t \in 0..MaxTime, Timer!SetSessionDeadline(t)
  PROVE  TimerInv'
<1> USE DEF Timer!None, TimerInv
<1>1. kind = "session" /\ deadline' = t /\ UNCHANGED <<kind, clock, version, turn, reading, cause, ended, early>>
  BY DEF Timer!SetSessionDeadline
<1>2. t \in Nat
  BY DEF Timer!Setting
<1>3. Timer!NeverEarly' /\ ReadVersions' /\ ReadTimer'
  BY <1>1, Zenon DEF Timer!NeverEarly, ReadVersions, ReadTimer
<1>4. CASE t = Timer!None
  <2>1. Timer!Disarm
    BY <1>4 DEF Timer!SetSessionDeadline
  <2>2. TimersTyped'
    BY <1>1, <1>2, <2>1, DisarmsOne DEF TimersTyped, Timer!Setting
  <2>3. FiredIsDue'
    BY <1>1, <2>1, DisarmsOne, StopsOne DEF FiredIsDue
  <2>4. SessionTimer'
    BY <1>1, <1>4, <2>1, DisarmsOne DEF SessionTimer
  <2> QED
    BY <1>3, <2>2, <2>3, <2>4
<1>5. CASE t # Timer!None
  <2>1. Timer!Arm(t, 0, 0)
    BY <1>5 DEF Timer!SetSessionDeadline
  <2>2. /\ timer' \in 1..MaxTimers /\ timers' \in [1..MaxTimers -> Timers]
        /\ timer' \in 0..MaxTimers /\ timers'[timer'].ph = "armed" /\ timers'[timer'].at = t
        /\ timers'[timer'].gen = 0 /\ timers'[timer'].version = 0
        /\ \A i \in 1..MaxTimers : i # timer' => timers'[i] = Timer!Stopped[i]
    <3>1. 0 \in Nat
      OBVIOUS
    <3> QED
      BY <1>2, <2>1, <3>1, ArmsOne, Zenon
  <2>3. TimersTyped'
    BY <1>1, <1>2, <2>2, Zenon DEF TimersTyped
  <2>4. FiredIsDue'
    <3>1. \A i \in 1..MaxTimers :
            timers'[i].ph = "fired" => timers[i].ph = "fired" /\ timers'[i].at = timers[i].at
      BY <2>2, StopsOne, Zenon
    <3> QED
      BY <1>1, <3>1, Zenon DEF FiredIsDue
  <2>5. SessionTimer'
    <3>1. timer' # Timer!None
      BY <2>2
    <3> QED
      BY <1>1, <1>5, <2>2, <3>1, Zenon DEF SessionTimer
  <2> QED
    BY <1>3, <2>3, <2>4, <2>5
<1> QED
  BY <1>4, <1>5

\* SetReadDeadline, which also ends the read in progress when it is past.
LEMMA ReadSets ==
  ASSUME Timer!Setting, TimerInv, NEW t \in 0..MaxTime, Timer!SetReadDeadline(t)
  PROVE  TimerInv'
<1> USE DEF Timer!None, TimerInv
<1>1. /\ kind = "read" /\ deadline' = t /\ version' = version + 1
      /\ UNCHANGED <<kind, clock, turn, reading, ended, early>>
  BY DEF Timer!SetReadDeadline
<1>2. t \in Nat /\ version' \in Nat
  BY <1>1 DEF Timer!Setting, TimersTyped
<1>3. Timer!NeverEarly' /\ SessionTimer'
  BY <1>1, Zenon DEF Timer!NeverEarly, SessionTimer
<1>4. cause' \in {"none", "deadline", "closed"}
  BY DEF Timer!SetReadDeadline, TimersTyped
<1>5. CASE ~reading \/ t = Timer!None \/ t <= clock
  <2>1. Timer!Disarm
    BY <1>5 DEF Timer!SetReadDeadline
  <2>2. TimersTyped'
    BY <1>1, <1>2, <1>4, <2>1, DisarmsOne DEF TimersTyped, Timer!Setting
  <2>3. FiredIsDue'
    BY <1>1, <2>1, DisarmsOne, StopsOne DEF FiredIsDue
  <2>4. ReadVersions'
    <3> SUFFICES ASSUME NEW i \in 1..MaxTimers, timers'[i].ph # "off"
                 PROVE  timers'[i].version <= version' /\ timers'[i].version # version'
      BY Zenon DEF ReadVersions
    <3>1. timers[i].ph # "off" /\ timers'[i].version = timers[i].version
      BY <2>1, DisarmsOne, StopsOne
    <3> QED
      BY <1>1, <3>1 DEF ReadVersions, TimersTyped, Timers
  <2>5. ReadTimer'
    BY <1>1, <1>5 DEF ReadTimer, Timer!SetReadDeadline
  <2> QED
    BY <1>3, <2>2, <2>3, <2>4, <2>5
<1>6. CASE ~(~reading \/ t = Timer!None \/ t <= clock)
  <2>1. Timer!Arm(t, turn, version')
    BY <1>6 DEF Timer!SetReadDeadline
  <2>2. /\ timer' \in 1..MaxTimers /\ timers' \in [1..MaxTimers -> Timers]
        /\ timer' \in 0..MaxTimers /\ timers'[timer'].ph = "armed" /\ timers'[timer'].at = t
        /\ timers'[timer'].gen = turn /\ timers'[timer'].version = version'
        /\ \A i \in 1..MaxTimers : i # timer' => timers'[i] = Timer!Stopped[i]
    <3>1. turn \in Nat
      BY DEF TimersTyped
    <3> QED
      BY <1>2, <2>1, <3>1, ArmsOne, Zenon
  <2>3. TimersTyped'
    BY <1>1, <1>2, <1>4, <2>2, Zenon DEF TimersTyped
  <2>4. FiredIsDue'
    <3>1. \A i \in 1..MaxTimers :
            timers'[i].ph = "fired" => timers[i].ph = "fired" /\ timers'[i].at = timers[i].at
      BY <2>2, StopsOne, Zenon
    <3> QED
      BY <1>1, <3>1, Zenon DEF FiredIsDue
  <2>5. ReadVersions'
    <3>1. timers'[timer'].version <= version' /\ timers'[timer'].at = deadline' /\ deadline' # Timer!None
      <4>1. version' <= version'
        BY <1>2
      <4> QED
        BY <1>1, <1>6, <2>2, <4>1, Zenon
    <3> SUFFICES ASSUME NEW i \in 1..MaxTimers, timers'[i].ph # "off", i # timer'
                 PROVE  timers'[i].version <= version' /\ timers'[i].version # version'
      BY <3>1, Zenon DEF ReadVersions
    <3>2. timers[i].ph # "off" /\ timers'[i].version = timers[i].version
      BY <2>2, StopsOne
    <3> QED
      BY <1>1, <3>2 DEF ReadVersions, TimersTyped, Timers
  <2>6. ReadTimer'
    BY <1>1, <2>2, Zenon DEF ReadTimer
  <2> QED
    BY <1>3, <2>3, <2>4, <2>5, <2>6
<1> QED
  BY <1>5, <1>6

\* startReadContext
LEMMA ReadStarts ==
  ASSUME Timer!Setting, TimerInv, Timer!StartRead
  PROVE  TimerInv'
<1> USE DEF Timer!None, TimerInv
<1>1. /\ kind = "read" /\ turn' = turn + 1 /\ reading' = TRUE
      /\ UNCHANGED <<kind, clock, deadline, version, ended, early>>
  BY DEF Timer!StartRead
<1>2. deadline \in Nat /\ version \in Nat /\ turn' \in Nat
  BY <1>1 DEF TimersTyped
<1>3. Timer!NeverEarly' /\ SessionTimer'
  BY <1>1, Zenon DEF Timer!NeverEarly, SessionTimer
<1>4. cause' \in {"none", "deadline", "closed"}
  BY DEF Timer!StartRead, TimersTyped
<1>5. CASE deadline = Timer!None \/ deadline <= clock
  <2>1. Timer!Disarm
    BY <1>5 DEF Timer!StartRead
  <2>2. TimersTyped'
    BY <1>1, <1>2, <1>4, <2>1, DisarmsOne DEF TimersTyped, Timer!Setting
  <2>3. FiredIsDue'
    BY <1>1, <2>1, DisarmsOne, StopsOne DEF FiredIsDue
  <2>4. ReadVersions'
    BY <1>1, <2>1, DisarmsOne, StopsOne DEF ReadVersions
  <2>5. ReadTimer'
    BY <1>1, <1>5 DEF ReadTimer, Timer!StartRead
  <2> QED
    BY <1>3, <2>2, <2>3, <2>4, <2>5
<1>6. CASE ~(deadline = Timer!None \/ deadline <= clock)
  <2>1. Timer!Arm(deadline, turn', version)
    BY <1>6 DEF Timer!StartRead
  <2>2. /\ timer' \in 1..MaxTimers /\ timers' \in [1..MaxTimers -> Timers]
        /\ timer' \in 0..MaxTimers /\ timers'[timer'].ph = "armed" /\ timers'[timer'].at = deadline
        /\ timers'[timer'].gen = turn' /\ timers'[timer'].version = version
        /\ \A i \in 1..MaxTimers : i # timer' => timers'[i] = Timer!Stopped[i]
    BY <1>2, <2>1, ArmsOne, Zenon
  <2>3. TimersTyped'
    BY <1>1, <1>2, <1>4, <2>2, Zenon DEF TimersTyped
  <2>4. FiredIsDue'
    <3>1. \A i \in 1..MaxTimers :
            timers'[i].ph = "fired" => timers[i].ph = "fired" /\ timers'[i].at = timers[i].at
      BY <2>2, StopsOne, Zenon
    <3> QED
      BY <1>1, <3>1, Zenon DEF FiredIsDue
  <2>5. ReadVersions'
    <3>1. version <= version
      BY <1>2
    <3> SUFFICES ASSUME NEW i \in 1..MaxTimers, timers'[i].ph # "off", i # timer'
                 PROVE  /\ timers'[i].version <= version
                        /\ timers'[i].version = version => timers'[i].at = deadline /\ deadline # Timer!None
      BY <1>1, <1>6, <2>2, <3>1, Zenon DEF ReadVersions
    <3>2. /\ timers[i].ph # "off" /\ timers'[i].version = timers[i].version
          /\ timers'[i].at = timers[i].at
      BY <2>2, StopsOne, Zenon
    <3> QED
      BY <1>1, <3>2, Zenon DEF ReadVersions
  <2>6. ReadTimer'
    BY <1>1, <2>2, Zenon DEF ReadTimer
  <2> QED
    BY <1>3, <2>3, <2>4, <2>5, <2>6
<1> QED
  BY <1>5, <1>6

\* finishReadContext
LEMMA ReadFinishes ==
  ASSUME Timer!Setting, TimerInv, Timer!FinishRead
  PROVE  TimerInv'
<1> USE DEF Timer!None, TimerInv
<1>1. /\ kind = "read" /\ reading' = FALSE /\ cause' = "none" /\ Timer!Disarm
      /\ UNCHANGED <<kind, clock, deadline, version, turn, ended, early>>
  BY DEF Timer!FinishRead, TimersTyped
<1>2. TimersTyped'
  <2>1. 0 \in 0..MaxTimers
    BY DEF Timer!Setting
  <2>2. timer' = 0 /\ timers' \in [1..MaxTimers -> Timers]
    BY <1>1, DisarmsOne, Zenon
  <2> QED
    BY <1>1, <2>1, <2>2, Zenon DEF TimersTyped
<1>3. FiredIsDue'
  BY <1>1, DisarmsOne, StopsOne DEF FiredIsDue
<1>4. ReadVersions'
  BY <1>1, DisarmsOne, StopsOne DEF ReadVersions
<1> QED
  BY <1>1, <1>2, <1>3, <1>4, Zenon DEF Timer!NeverEarly, SessionTimer, ReadTimer

\* The runtime fires a timer that is due.
LEMMA TimerFiring ==
  ASSUME Timer!Setting, TimerInv, NEW i \in 1..MaxTimers, Timer!TimerFires(i)
  PROVE  TimerInv'
<1> USE DEF Timer!None, TimerInv
<1>1. /\ timers[i].ph = "armed" /\ timers[i].at <= clock /\ "fired" \in Stages
      /\ timers' = [timers EXCEPT ![i].ph = "fired"] /\ timers \in [1..MaxTimers -> Timers]
      /\ UNCHANGED <<kind, clock, deadline, version, timer, turn, reading, cause, ended, early>>
  BY Zenon DEF Timer!TimerFires, Stages, TimersTyped
<1>2. Moved(timers, i, "fired", timers')
  BY <1>1, Phases, Zenon
<1>3. TimersTyped'
  BY <1>1, <1>2, Zenon DEF TimersTyped, Moved
<1>4. FiredIsDue'
  BY <1>1, <1>2, Zenon DEF FiredIsDue, Moved
<1>5. SessionTimer'
  <2>1. timer # Timer!None => timer \in 1..MaxTimers
    BY DEF TimersTyped, Timer!Setting
  <2> QED
    BY <1>1, <1>2, <2>1, Zenon DEF SessionTimer, Moved
<1>6. ReadVersions'
  BY <1>1, <1>2, ZenonT(30) DEF ReadVersions, Moved
<1>7. ReadTimer'
  <2>1. \A j \in 1..MaxTimers : timers[j].ph \in {"armed", "fired", "acts"} =>
          timers'[j].ph \in {"armed", "fired", "acts"}
    BY <1>2, Zenon DEF Moved
  <2> QED
    BY <1>1, <1>2, <2>1, ZenonT(30) DEF ReadTimer, Moved
<1> QED
  BY <1>1, <1>3, <1>4, <1>5, <1>6, <1>7, Zenon DEF Timer!NeverEarly

\* The callback finds its deadline in force, or returns.
LEMMA CallbackChecks ==
  ASSUME Timer!Setting, TimerInv, NEW i \in 1..MaxTimers, Timer!Callback(i)
  PROVE  TimerInv'
<1> USE DEF Timer!None, TimerInv
<1> DEFINE p == IF Timer!Current(i) THEN "acts" ELSE "done"
<1>1. /\ timers[i].ph = "fired" /\ p \in Stages /\ p # "off"
      /\ timers' = [timers EXCEPT ![i].ph = p] /\ timers \in [1..MaxTimers -> Timers]
      /\ timer' = IF Timer!Current(i) THEN Timer!None ELSE timer
      /\ UNCHANGED <<kind, clock, deadline, version, turn, reading, cause, ended>>
  BY Zenon DEF Timer!Callback, Stages, TimersTyped
<1>2. Timer!Current(i) <=> p = "acts"
  OBVIOUS
<1> HIDE DEF p
<1>3. Moved(timers, i, p, timers')
  BY <1>1, Phases, Zenon
<1>4. TimersTyped'
  <2>1. timer' \in 0..MaxTimers
    BY <1>1 DEF TimersTyped, Timer!Setting
  <2> QED
    BY <1>1, <1>3, <2>1, Zenon DEF TimersTyped, Moved
<1>5. FiredIsDue'
  BY <1>1, <1>2, <1>3 DEF FiredIsDue, Moved
<1>6. Timer!Current(i) => timers[i].at = deadline /\ deadline # Timer!None
  <2>1. i # Timer!None
    OBVIOUS
  <2> QED
    BY <1>1, <2>1, Zenon DEF Timer!Current, SessionTimer, ReadVersions, TimersTyped
<1>7. Timer!NeverEarly'
  <2>1. Timer!Current(i) => ~(deadline = Timer!None \/ clock < deadline)
    BY <1>1, <1>6 DEF FiredIsDue, TimersTyped
  <2>2. early' = (early \/ (Timer!Current(i) /\ (deadline = Timer!None \/ clock < deadline)))
    BY Zenon DEF Timer!Callback
  <2> QED
    BY <2>1, <2>2, Zenon DEF Timer!NeverEarly
<1>8. SessionTimer'
  <2>1. timer # Timer!None => timer \in 1..MaxTimers
    BY DEF TimersTyped, Timer!Setting
  <2>2. CASE Timer!Current(i) /\ kind = "session"
    BY <1>1, <1>2, <1>3, <1>6, <2>2, Zenon DEF SessionTimer, Moved
  <2>3. CASE ~Timer!Current(i) /\ kind = "session"
    <3>1. timer' = timer /\ timer # i
      BY <1>1, <2>3, Zenon DEF Timer!Current
    <3>2. timer' # Timer!None => /\ timers'[timer'].ph \in {"armed", "fired"}
                                 /\ timers'[timer'].at = deadline' /\ deadline' # Timer!None
      BY <1>1, <1>3, <2>1, <2>3, <3>1, Zenon DEF SessionTimer, Moved
    <3>3. \A j \in 1..MaxTimers : timers[j].ph = "acts" => timers'[j].ph = "acts" /\ timers'[j].at = timers[j].at
      BY <1>1, <1>3, Zenon DEF Moved
    <3> QED
      BY <1>1, <2>3, <3>1, <3>2, <3>3, Zenon DEF SessionTimer
  <2> QED
    BY <1>1, <2>2, <2>3, Zenon DEF SessionTimer
<1>9. ReadVersions'
  BY <1>1, <1>3, Zenon DEF ReadVersions, Moved
<1>10. ReadTimer'
  <2> SUFFICES ASSUME kind = "read", deadline # Timer!None, ~ended, reading, cause = "none"
               PROVE  \E j \in 1..MaxTimers :
                         /\ timers'[j].ph \in {"armed", "fired", "acts"} /\ timers'[j].at = deadline
                         /\ timers'[j].gen = turn /\ timers'[j].version = version
    BY <1>1, Zenon DEF ReadTimer
  <2>1. PICK j \in 1..MaxTimers : /\ timers[j].ph \in {"armed", "fired", "acts"} /\ timers[j].at = deadline
                                  /\ timers[j].gen = turn /\ timers[j].version = version
    BY Zenon DEF ReadTimer
  <2>2. j = i => timers'[j].ph = "acts"
    BY <1>2, <1>3, <2>1, Zenon DEF Timer!Current, Moved
  <2> QED
    BY <1>3, <2>1, <2>2, Zenon DEF Moved
<1> QED
  BY <1>4, <1>5, <1>7, <1>8, <1>9, <1>10, Zenon

\* The callback closes the session or cancels the read.
LEMMA CallbackEnds ==
  ASSUME Timer!Setting, TimerInv, NEW i \in 1..MaxTimers, Timer!CallbackActs(i)
  PROVE  TimerInv'
<1> USE DEF Timer!None, TimerInv
<1>1. /\ timers[i].ph = "acts" /\ "done" \in Stages /\ timers \in [1..MaxTimers -> Timers] /\ i # 0
      /\ UNCHANGED <<kind, clock, deadline, version, turn, reading, early>>
  BY DEF Timer!CallbackActs, Stages, TimersTyped
<1>2. Timer!NeverEarly'
  BY <1>1, Zenon DEF Timer!NeverEarly
<1>3. CASE kind = "session"
  <2>1. ended' = TRUE /\ timer' = 0 /\ timers' = [Timer!Stopped EXCEPT ![i].ph = "done"] /\ UNCHANGED cause
    BY <1>3, Zenon DEF Timer!CallbackActs
  <2>2. Moved(Timer!Stopped, i, "done", timers')
    BY <1>1, <2>1, StopsOne, Phases, Zenon
  <2>3. /\ timers' \in [1..MaxTimers -> Timers]
        /\ \A j \in 1..MaxTimers : /\ timers'[j].at = timers[j].at
                                   /\ timers'[j].ph # "off" <=> timers[j].ph # "off"
                                   /\ timers'[j].ph = "fired" => timers[j].ph = "fired"
    BY <1>1, <2>2, StopsOne, Zenon DEF Moved
  <2>4. 0 \in 0..MaxTimers
    BY DEF Timer!Setting
  <2>5. TimersTyped'
    BY <1>1, <2>1, <2>3, <2>4, Zenon DEF TimersTyped
  <2>6. FiredIsDue'
    BY <1>1, <2>3, Zenon DEF FiredIsDue
  <2>7. SessionTimer' /\ ReadVersions' /\ ReadTimer'
    BY <1>1, <1>3, <2>1, Zenon DEF SessionTimer, ReadVersions, ReadTimer
  <2> QED
    BY <1>2, <2>5, <2>6, <2>7, Zenon
<1>4. CASE kind = "read"
  <2>1. /\ cause' = (IF reading /\ timers[i].gen = turn /\ cause = "none" THEN "deadline" ELSE cause)
        /\ timers' = [timers EXCEPT ![i].ph = "done"] /\ UNCHANGED <<ended, timer>>
    BY <1>4, Zenon DEF Timer!CallbackActs
  <2>2. Moved(timers, i, "done", timers')
    BY <1>1, <2>1, Phases, Zenon
  <2>3. cause' \in {"none", "deadline", "closed"}
    BY <2>1, Zenon DEF TimersTyped
  <2>4. TimersTyped'
    BY <1>1, <2>1, <2>2, <2>3, Zenon DEF TimersTyped, Moved
  <2>5. FiredIsDue' /\ ReadVersions'
    BY <1>1, <2>1, <2>2, ZenonT(30) DEF FiredIsDue, ReadVersions, Moved
  <2>6. SessionTimer'
    BY <1>1, <1>4, Zenon DEF SessionTimer
  <2>7. ReadTimer'
    <3> SUFFICES ASSUME deadline # Timer!None, ~ended, reading, cause' = "none"
                 PROVE  \E j \in 1..MaxTimers :
                           /\ timers'[j].ph \in {"armed", "fired", "acts"} /\ timers'[j].at = deadline
                           /\ timers'[j].gen = turn /\ timers'[j].version = version
      BY <1>1, <2>1, Zenon DEF ReadTimer
    <3>1. cause = "none" /\ timers[i].gen # turn
      BY <2>1, Zenon
    <3>2. PICK j \in 1..MaxTimers : /\ timers[j].ph \in {"armed", "fired", "acts"} /\ timers[j].at = deadline
                                    /\ timers[j].gen = turn /\ timers[j].version = version
      BY <1>4, <3>1, Zenon DEF ReadTimer
    <3> QED
      BY <2>2, <3>1, <3>2, Zenon DEF Moved
  <2> QED
    BY <1>2, <2>4, <2>5, <2>6, <2>7, Zenon
<1> QED
  BY <1>3, <1>4 DEF TimersTyped

\* Close stops the timer of a session and cancels every read.
LEMMA Closing ==
  ASSUME Timer!Setting, TimerInv, Timer!Close
  PROVE  TimerInv'
<1> USE DEF Timer!None, TimerInv
<1>1. ended' = TRUE /\ UNCHANGED <<kind, clock, deadline, version, turn, reading, early>>
  BY Zenon DEF Timer!Close
<1>2. cause' \in {"none", "deadline", "closed"}
  BY Zenon DEF Timer!Close, TimersTyped
<1>3. Timer!NeverEarly' /\ ReadTimer'
  BY <1>1, Zenon DEF Timer!NeverEarly, ReadTimer
<1>4. CASE kind = "session"
  <2>1. Timer!Disarm
    BY <1>4, Zenon DEF Timer!Close
  <2>2. 0 \in 0..MaxTimers
    BY DEF Timer!Setting
  <2>3. timer' = 0 /\ timers' = Timer!Stopped /\ timers' \in [1..MaxTimers -> Timers]
    BY <2>1, DisarmsOne, Zenon
  <2>4. TimersTyped'
    BY <1>1, <1>2, <2>2, <2>3, Zenon DEF TimersTyped
  <2>5. FiredIsDue'
    BY <1>1, <2>3, StopsOne DEF FiredIsDue
  <2>6. SessionTimer' /\ ReadVersions'
    BY <1>1, <1>4, <2>3, Zenon DEF SessionTimer, ReadVersions
  <2> QED
    BY <1>3, <2>4, <2>5, <2>6, Zenon
<1>5. CASE kind = "read"
  <2>1. UNCHANGED <<timer, timers>>
    BY <1>5, Zenon DEF Timer!Close
  <2> QED
    BY <1>1, <1>2, <1>3, <1>5, <2>1, Zenon DEF TimersTyped, FiredIsDue, SessionTimer, ReadVersions
<1> QED
  BY <1>4, <1>5 DEF TimersTyped

\* Every step.
LEMMA TimerStep ==
  ASSUME Timer!Setting, TimerInv, [Timer!Next]_Timer!vars
  PROVE  TimerInv'
<1>1. CASE UNCHANGED Timer!vars
  BY <1>1, Zenon DEF Timer!vars, TimerInv, TimersTyped, FiredIsDue, SessionTimer, ReadVersions, ReadTimer,
     Timer!NeverEarly
<1>2. CASE Timer!Tick
  <2>1. /\ clock \in Nat /\ clock' = clock + 1
        /\ UNCHANGED <<kind, deadline, version, timer, timers, turn, reading, cause, ended, early>>
    BY <1>2, Zenon DEF Timer!Tick, TimerInv, TimersTyped
  <2>2. FiredIsDue' /\ clock' \in Nat
    BY <2>1 DEF TimerInv, TimersTyped, FiredIsDue, Timers
  <2> QED
    BY <2>1, <2>2, Zenon DEF TimerInv, TimersTyped, SessionTimer, ReadVersions, ReadTimer, Timer!NeverEarly
<1> QED
  BY <1>1, <1>2, SessionSets, ReadSets, ReadStarts, ReadFinishes, TimerFiring, CallbackChecks, CallbackEnds, Closing,
     Zenon DEF Timer!Next

\* Initially.
LEMMA TimerStart ==
  ASSUME Timer!Setting, Timer!Init
  PROVE  TimerInv
<1>1. TimersTyped
  <2>1. Timer!Off \in Timers /\ Timer!Off.ph = "off"
    BY DEF Timer!Off, Timers, Stages
  <2>2. timers \in [1..MaxTimers -> Timers] /\ \A i \in 1..MaxTimers : timers[i] = Timer!Off
    BY <2>1 DEF Timer!Init
  <2>3. 0 \in 0..MaxTimers
    BY DEF Timer!Setting
  <2> QED
    <3>1. kind \in {"session", "read"} /\ clock \in Nat /\ deadline \in Nat /\ version \in Nat /\ turn \in Nat
      BY DEF Timer!Init, Timer!Setting, Timer!None
    <3> QED
      BY <2>2, <2>3, <3>1, Zenon DEF TimersTyped, Timer!Init, Timer!None
<1>2. \A i \in 1..MaxTimers : timers[i].ph = "off"
  BY DEF Timer!Init, Timer!Off
<1> QED
  BY <1>1, <1>2 DEF TimerInv, FiredIsDue, SessionTimer, ReadVersions, ReadTimer, Timer!NeverEarly, Timer!Init,
     Timer!None

\* The invariant of SetDeadline, the timers' callbacks, reads and Close: a timer that may still act is the
\* one of the deadline in force.
THEOREM DeadlinesInvariant == ASSUME Timer!Setting PROVE Timer!Spec => []TimerInv
BY TimerStart, TimerStep, PTL DEF Timer!Spec

\* A callback acts only on the deadline in force and only once it is past, and a deadline in force always
\* has a timer: whatever SetDeadline, the callbacks and the reads do in between.
THEOREM DeadlinesHold == ASSUME Timer!Setting PROVE Timer!Spec => [](Timer!NeverEarly /\ Timer!NoMissedDeadline)
<1>1. ASSUME TimerInv PROVE Timer!NeverEarly /\ Timer!NoMissedDeadline
  <2> SUFFICES ASSUME deadline # Timer!None, ~ended, kind = "read" => reading /\ cause = "none"
               PROVE  \E i \in 1..MaxTimers :
                         /\ timers[i].ph \in {"armed", "fired", "acts"} /\ timers[i].at = deadline
                         /\ kind = "read" => timers[i].gen = turn /\ timers[i].version = version
    BY <1>1, Zenon DEF Timer!NoMissedDeadline, Timer!Used, TimerInv
  <2>1. CASE kind = "read"
    BY <1>1, <2>1, Zenon DEF TimerInv, ReadTimer
  <2>2. CASE kind = "session"
    <3>1. timer # Timer!None => timer \in 1..MaxTimers
      BY <1>1 DEF TimerInv, TimersTyped, Timer!None
    <3> QED
      BY <1>1, <2>2, <3>1, Zenon DEF TimerInv, SessionTimer
  <2> QED
    BY <1>1, <2>1, <2>2 DEF TimerInv, TimersTyped
<1> QED
  BY <1>1, DeadlinesInvariant, PTL
=============================================================================
