----------------------------- MODULE PacketQueue -----------------------------
(***************************************************************************)
(* packetNumberIndexedQueue of the BBR sampler: send records in a ring     *)
(* buffer that starts at the lowest packet number held, with empty slots   *)
(* for numbers without a record.  It grows by doubling, gives memory back  *)
(* when it is trimmed, and drops the oldest slots at a budget.             *)
(*                                                                         *)
(* A record is consumed once its packet was acked or lost.  Remove has no  *)
(* caller and is left out.                                                 *)
(***************************************************************************)
EXTENDS Integers, Sequences, SequencesExt

CONSTANTS MaxPacket, InitialSlots, MaxSlots, ShrinkDenominator, Invalid

VARIABLES
  queue,    \* [ring, headPos, tailPos, full, first, present]
  lastSent  \* the packet numbers sent so far end here

vars == <<queue, lastSent>>

Absent == [packet |-> 0, consumed |-> FALSE]
Record(n) == [packet |-> n, consumed |-> FALSE]

-----------------------------------------------------------------------------
(* The ring buffer.  Its array is indexed from 0.                          *)

Capacity(q) == Cardinality(DOMAIN q.ring)
Size(q) == IF q.full THEN Capacity(q)
           ELSE IF q.tailPos >= q.headPos THEN q.tailPos - q.headPos ELSE q.tailPos - q.headPos + Capacity(q)
Empty(q) == ~q.full /\ q.headPos = q.tailPos
At(q, i) == q.ring[(q.headPos + i) % Capacity(q)]
Reset(q, size) == [q EXCEPT !.ring = [i \in 0..(size - 1) |-> Absent], !.headPos = 0, !.tailPos = 0, !.full = FALSE]

Grow(q) ==
  [q EXCEPT !.ring = [i \in 0..(2 * Capacity(q) - 1) |-> IF i < Capacity(q) THEN At(q, i) ELSE Absent],
            !.headPos = 0, !.tailPos = Capacity(q), !.full = FALSE]
PushBack(q0, slot) ==
  LET q == IF q0.full THEN Grow(q0) ELSE q0
      tail == (q.tailPos + 1) % Capacity(q)
  IN  [q EXCEPT !.ring[q.tailPos] = slot, !.tailPos = tail, !.full = (tail = q.headPos)]
PopFront(q) == [q EXCEPT !.full = FALSE, !.ring[q.headPos] = Absent, !.headPos = (@ + 1) % Capacity(q)]
ShrinkTo(q, size) ==
  LET n == Size(q)
  IN  IF size < 1 \/ size < n \/ size >= Capacity(q) THEN q
      ELSE [q EXCEPT !.ring = [i \in 0..(size - 1) |-> IF i < n THEN At(q, i) ELSE Absent],
                     !.headPos = 0, !.tailPos = n % size, !.full = (n = size)]

-----------------------------------------------------------------------------
(* The queue.                                                              *)

IsEmpty(q) == q.present = 0
LastPacket(q) == IF IsEmpty(q) THEN Invalid ELSE q.first + Size(q) - 1

\* The oldest slot goes, with its record if it has one.
DropSlot(q) ==
  [PopFront(q) EXCEPT !.present = @ - (IF At(q, 0) # Absent THEN 1 ELSE 0), !.first = @ + 1]
DropFront(q, n) == FoldLeft(LAMBDA acc, i : DropSlot(acc), q, [i \in 1..n |-> i])
PushHoles(q, n) == FoldLeft(LAMBDA acc, i : PushBack(acc, Absent), q, [i \in 1..n |-> i])

Emplace(q, n) ==
  LET held(p) == [PushBack(p, Record(n)) EXCEPT !.present = @ + 1]
      gap == n - q.first - Size(q)
      excess == Size(q) + gap + 1 - MaxSlots
  IN  IF IsEmpty(q) THEN [held(q) EXCEPT !.first = n]
      ELSE IF n <= LastPacket(q) THEN q
      ELSE IF gap >= MaxSlots THEN held([Reset(q, InitialSlots) EXCEPT !.present = 0, !.first = n])
      ELSE held(PushHoles(DropFront(q, IF excess > 0 THEN excess ELSE 0), gap))

\* Capacity that the live slots do not need is given back.
Reclaim(q) ==
  LET half[t \in 1..Capacity(q)] == IF t > InitialSlots /\ Size(q) * ShrinkDenominator <= t THEN half[t \div 2] ELSE t
      target == IF Size(q) > 0 THEN half[Capacity(q)] ELSE InitialSlots
  IN  IF Capacity(q) <= InitialSlots THEN q ELSE ShrinkTo(q, target)

\* How many slots at the front satisfy drop.
Prefix(q, drop(_)) ==
  LET front == {k \in 0..Size(q) : \A i \in 0..(k - 1) : drop(At(q, i))}
  IN  CHOOSE k \in front : \A j \in front : j <= k
Trim(q) == Reclaim(IF Empty(q) THEN [q EXCEPT !.first = Invalid] ELSE q)
Clearup(q) == Trim(DropFront(q, Prefix(q, LAMBDA s : s = Absent)))
DropConsumedFront(q) == Trim(DropFront(q, Prefix(q, LAMBDA s : s = Absent \/ s.consumed)))
RemoveUpTo(q, n) ==
  Clearup(IF q.first = Invalid \/ q.first >= n THEN q
          ELSE DropFront(q, IF n - q.first < Size(q) THEN n - q.first ELSE Size(q)))

\* The record of a packet, or Absent.
GetEntry(q, n) ==
  IF IsEmpty(q) \/ n < q.first \/ n - q.first >= Size(q) THEN Absent ELSE At(q, n - q.first)

-----------------------------------------------------------------------------
(* The sampler's use of it.                                                *)

Init ==
  /\ queue = [ring |-> [i \in 0..(InitialSlots - 1) |-> Absent], headPos |-> 0, tailPos |-> 0, full |-> FALSE,
              first |-> Invalid, present |-> 0]
  /\ lastSent = 0

\* A packet is sent; the numbers skipped are of packets that are not retransmittable.
Send == \E n \in (lastSent + 1)..MaxPacket : lastSent' = n /\ queue' = Emplace(queue, n)

\* A packet is acked or lost, and the consumed front goes.
Consume ==
  \E n \in 1..lastSent :
    /\ GetEntry(queue, n) # Absent /\ ~GetEntry(queue, n).consumed
    /\ queue' = DropConsumedFront([queue EXCEPT !.ring[(queue.headPos + n - queue.first) % Capacity(queue)].consumed = TRUE])
    /\ UNCHANGED lastSent

Obsolete == \E n \in 1..(MaxPacket + 1) : queue' = RemoveUpTo(queue, n) /\ UNCHANGED lastSent

Next == Send \/ Consume \/ Obsolete

Spec == Init /\ [][Next]_vars

-----------------------------------------------------------------------------
(* Properties.                                                             *)

\* The records the queue answers for, with their marks.
Held == {n \in 1..MaxPacket : GetEntry(queue, n) # Absent}
Records == [n \in Held |-> GetEntry(queue, n).consumed]

\* The ring is consistent: it answers with the record of the packet asked for, counts its
\* records, starts at one, and keeps the budget.
QueueIsSound ==
  /\ \A n \in Held : GetEntry(queue, n).packet = n
  /\ queue.present = Cardinality(Held) /\ Size(queue) <= MaxSlots /\ Capacity(queue) <= 2 * MaxSlots
  /\ (queue.first = Invalid) = Empty(queue)

\* What the queue promises: a map from packet numbers to records.  A new packet evicts what
\* is a whole budget older; a trim removes consumed records from the front or records below
\* a number; nothing else disappears.
Kept(n) == {p \in Held : p > n - MaxSlots}
Consumed(recs) == {p \in DOMAIN recs : \A r \in DOMAIN recs : r <= p => recs[r]}
Without(recs, ps) == [p \in (DOMAIN recs) \ ps |-> recs[p]]
MapStep ==
  \/ Records' = Records
  \/ \E n \in 1..MaxPacket : Records' = [p \in Kept(n) \cup {n} |-> p # n /\ Records[p]]
  \/ \E n \in Held : LET marked == [Records EXCEPT ![n] = TRUE] IN Records' = Without(marked, Consumed(marked))
  \/ \E n \in 1..(MaxPacket + 1) : Records' = Without(Records, 1..(n - 1))

\* A trim leaves no more than four times the slots in use, and an empty queue is as small as
\* a fresh one.
CapacityStep ==
  lastSent' = lastSent => Capacity(queue') <= InitialSlots \/ Size(queue') * ShrinkDenominator > Capacity(queue')
=============================================================================
