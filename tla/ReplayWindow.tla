---------------------------- MODULE ReplayWindow ----------------------------
(***************************************************************************)
(* The replay windows of shadowsocks_2022.UdpConn: a sync.Map with a       *)
(* sliding window of packet IDs per remote session, which a receiver       *)
(* consults after a datagram was authenticated.  A session that was not    *)
(* seen for Retention is forgotten: by the receiver, by the sweeps it      *)
(* starts every Interval-th miss, or to get below the cap.  A sweep is a   *)
(* goroutine that works with the time at which it was started.             *)
(*                                                                         *)
(* A datagram carries the time of its sender, and is refused when that is  *)
(* more than Tolerance away.  An entry of the map is named by a generation *)
(* number, as CompareAndDelete compares pointers.                          *)
(***************************************************************************)
EXTENDS Integers, FiniteSets, FiniteSetTheorems, TLAPS

CONSTANTS Sessions, Readers,
          Stamp,       \* the time at which each datagram, a pair of session and ID, was sent
          Window,      \* udpPacketReplayWindowSize
          Tolerance,   \* TimestampTolerance
          Retention,   \* SaltStorageDuration
          MaxTracked,  \* maxTrackedUdpSessions
          Interval,    \* cleanupInterval
          MaxSweeps,   \* bound on the sweeps at a time
          MaxTime, None

VARIABLES
  now,
  table,      \* replayWindow: per session an entry or None
  gen,        \* entries made
  count,      \* replayCount
  misses,     \* cleanupCounter, modulo Interval
  sweeps,     \* the running cleanupExpiredSessions, by slot
  reader,     \* per receiver: where it is, its datagram and the time it took
  delivered,  \* how often each datagram was delivered
  rejected    \* the datagram just rejected as a replay, or None

vars == <<now, table, gen, count, misses, sweeps, reader, delivered, rejected>>

Datagrams == DOMAIN Stamp
Idle == [pc |-> "idle"]
Slots == 1..MaxSweeps

\* SlidingWindowFilter: the highest ID, and the distances below it that were seen.
NewSlidingWindowFilter == [latest |-> None, bits |-> {}]
ShiftWindow(bits, shift) == {d + shift : d \in {b \in bits : b + shift < Window}}
Fresh(f, id) == f.latest = None \/ id > f.latest \/ (f.latest - id < Window /\ f.latest - id \notin f.bits)
\* The direction of the shift is the one the source calls "pre-fix".
CheckAndUpdate(f, id) ==
  IF f.latest = None THEN [latest |-> id, bits |-> {0}]
  ELSE IF id > f.latest THEN [latest |-> id, bits |-> ShiftWindow(f.bits, id - f.latest) \cup {0}]
  ELSE [f EXCEPT !.bits = @ \cup {f.latest - id}]

TypeOK ==
  /\ now \in 0..MaxTime /\ gen \in Nat /\ count \in Int /\ misses \in 0..(Interval - 1)
  /\ \A s \in Sessions : table[s] = None \/
       (table[s].gen \in 1..gen /\ table[s].seen \in 0..MaxTime /\ table[s].filter.bits \subseteq 0..(Window - 1))
  /\ \A r \in Readers : reader[r].pc \in {"idle", "load", "drop", "store", "evict", "filter"}
  /\ \A k \in Slots : sweeps[k] = None \/ (sweeps[k].now \in 0..MaxTime /\ sweeps[k].todo \subseteq Sessions)
  /\ delivered \in [Datagrams -> Nat]

Init ==
  /\ now = 0 /\ table = [s \in Sessions |-> None] /\ gen = 0 /\ count = 0 /\ misses = 0
  /\ sweeps = [k \in Slots |-> None] /\ reader = [r \in Readers |-> Idle]
  /\ delivered = [d \in Datagrams |-> 0] /\ rejected = None

Tick ==
  /\ now < MaxTime /\ now' = now + 1
  /\ UNCHANGED <<table, gen, count, misses, sweeps, reader, delivered, rejected>>

ValidateTimestamp(t, at) == t >= at - Tolerance /\ t <= at + Tolerance

At(r, pc) == reader' = [reader EXCEPT ![r].pc = pc]

\* A datagram that opens and whose header is valid: the time is taken once for it.
Receive(r) ==
  /\ reader[r].pc = "idle"
  /\ \E d \in Datagrams :
       /\ ValidateTimestamp(Stamp[d], now)
       /\ reader' = [reader EXCEPT ![r] = [pc |-> "load", s |-> d[1], id |-> d[2], now |-> now, gen |-> 0]]
  /\ rejected' = None
  /\ UNCHANGED <<now, table, gen, count, misses, sweeps, delivered>>

Expired(at, seen) == at - seen > Retention

\* The entry is looked up, and its lastSeen read; a live one is used.
Load(r) ==
  LET me == reader[r]  e == table[me.s] IN
  /\ me.pc = "load"
  /\ IF e = None THEN At(r, "store") /\ UNCHANGED table
     ELSE IF Expired(me.now, e.seen)
     THEN reader' = [reader EXCEPT ![r].pc = "drop", ![r].gen = e.gen] /\ UNCHANGED table
     ELSE /\ reader' = [reader EXCEPT ![r].pc = "filter", ![r].gen = e.gen]
          /\ table' = [table EXCEPT ![me.s].seen = me.now]
  /\ UNCHANGED <<now, gen, count, misses, sweeps, delivered, rejected>>

\* CompareAndDelete of an entry with the generation g.
Delete(s, g) ==
  IF table[s] # None /\ table[s].gen = g
  THEN table' = [table EXCEPT ![s] = None] /\ count' = count - 1 ELSE UNCHANGED <<table, count>>

DropExpired(r) ==
  /\ reader[r].pc = "drop" /\ Delete(reader[r].s, reader[r].gen) /\ At(r, "store")
  /\ UNCHANGED <<now, gen, misses, sweeps, delivered, rejected>>

\* A miss: every Interval-th starts a sweep; LoadOrStore takes the entry of another receiver
\* or stores a new one.
Store(r) ==
  LET me == reader[r]  e == table[me.s] IN
  /\ me.pc = "store" /\ misses' = (misses + 1) % Interval
  /\ IF misses' = 0
     THEN \E k \in Slots :
            /\ sweeps[k] = None
            /\ sweeps' = [sweeps EXCEPT ![k] = [now |-> me.now, todo |-> Sessions, s |-> None, gen |-> 0]]
     ELSE UNCHANGED sweeps
  /\ IF e # None
     THEN /\ table' = [table EXCEPT ![me.s].seen = me.now]
          /\ reader' = [reader EXCEPT ![r].pc = "filter", ![r].gen = e.gen] /\ UNCHANGED <<gen, count>>
     ELSE /\ gen' = gen + 1 /\ count' = count + 1
          /\ table' = [table EXCEPT ![me.s] = [gen |-> gen + 1, seen |-> me.now, filter |-> NewSlidingWindowFilter]]
          /\ reader' = [reader EXCEPT ![r].pc = "evict", ![r].gen = gen + 1]
  /\ UNCHANGED <<now, delivered, rejected>>

\* One turn of evictOldestIfNeeded: the oldest entry past its retention goes, if there is one.
Evict(r) ==
  /\ reader[r].pc = "evict" /\ count > MaxTracked
  /\ LET old == {s \in Sessions : table[s] # None /\ Expired(now, table[s].seen)} IN
     \E s \in old : /\ \A t \in old : table[s].seen <= table[t].seen
                    /\ Delete(s, table[s].gen)
  /\ UNCHANGED <<now, gen, misses, sweeps, reader, delivered, rejected>>
EvictEnds(r) ==
  /\ reader[r].pc = "evict"
  /\ count <= MaxTracked \/ ~(\E s \in Sessions : table[s] # None /\ Expired(now, table[s].seen))
  /\ At(r, "filter")
  /\ UNCHANGED <<now, table, gen, count, misses, sweeps, delivered, rejected>>

\* The window of the entry decides; the entry may no longer be in the map.
Filter(r) ==
  LET me == reader[r]  e == table[me.s]
      kept == e # None /\ e.gen = me.gen
      fresh == kept => Fresh(e.filter, me.id) IN
  /\ me.pc = "filter" /\ reader' = [reader EXCEPT ![r] = Idle]
  /\ IF fresh
     THEN /\ delivered' = [delivered EXCEPT ![<<me.s, me.id>>] = @ + 1] /\ rejected' = None
          /\ table' = IF kept THEN [table EXCEPT ![me.s].filter = CheckAndUpdate(@, me.id)] ELSE table
     ELSE rejected' = <<me.s, me.id>> /\ UNCHANGED <<delivered, table>>
  /\ UNCHANGED <<now, gen, count, misses, sweeps>>

\* A sweep looks at an entry, and deletes the one it found expired.
SweepLook(k) ==
  /\ sweeps[k] # None /\ sweeps[k].s = None
  /\ \E s \in sweeps[k].todo :
       sweeps' = [sweeps EXCEPT ![k].todo = @ \ {s},
                    ![k].s = IF table[s] # None /\ Expired(sweeps[k].now, table[s].seen) THEN s ELSE None,
                    ![k].gen = IF table[s] # None THEN table[s].gen ELSE 0]
  /\ UNCHANGED <<now, table, gen, count, misses, reader, delivered, rejected>>
SweepDelete(k) ==
  /\ sweeps[k] # None /\ sweeps[k].s # None /\ Delete(sweeps[k].s, sweeps[k].gen)
  /\ sweeps' = [sweeps EXCEPT ![k].s = None]
  /\ UNCHANGED <<now, gen, misses, reader, delivered, rejected>>
SweepEnds(k) ==
  /\ sweeps[k] # None /\ sweeps[k].s = None /\ sweeps[k].todo = {}
  /\ sweeps' = [sweeps EXCEPT ![k] = None]
  /\ UNCHANGED <<now, table, gen, count, misses, reader, delivered, rejected>>

Next ==
  \/ Tick
  \/ \E r \in Readers : Receive(r) \/ Load(r) \/ DropExpired(r) \/ Store(r) \/ Evict(r) \/ EvictEnds(r) \/ Filter(r)
  \/ \E k \in Slots : SweepLook(k) \/ SweepDelete(k) \/ SweepEnds(k)

Spec == Init /\ [][Next]_vars

-----------------------------------------------------------------------------
(* Properties.                                                             *)

\* A datagram is delivered once at most, however often it arrives: a window is forgotten only
\* when the time of every datagram in it has become invalid.  It needs the one receiver that
\* calls ReadFrom or runs the registered handler: of two, one may have taken its time later.
DeliveredOnce == \A d \in Datagrams : delivered[d] <= 1

\* A datagram is rejected as a replay only if it was delivered, or if it is so far behind
\* another one of its session that the window has passed it.
RejectedIsOld ==
  rejected # None =>
    \/ delivered[rejected] > 0
    \/ \E d \in Datagrams : d[1] = rejected[1] /\ d[2] - rejected[2] >= Window /\ delivered[d] > 0

\* The counter that the cap is compared with is the number of entries, whatever the order in
\* which receivers and sweeps find the same entry expired.
CountIsSize == count = Cardinality({s \in Sessions : table[s] # None})

-----------------------------------------------------------------------------
(* Proofs for any sessions, datagrams, window, cap and interval: nothing   *)
(* is delivered twice, nothing is rejected without reason, and the counter *)
(* counts the windows.                                                     *)

\* Windows, entries, and what a receiver and a sweep hold.
Filters == [latest : Nat \cup {None}, bits : SUBSET Nat]
Entries == [gen : Nat, seen : Nat, filter : Filters]
Tasks == [pc : {"load", "drop", "store", "evict", "filter"}, s : Sessions, id : Nat, now : Nat, gen : Nat]
Sweeps == [now : Nat, todo : SUBSET Sessions, s : Sessions \cup {None}, gen : Nat]

\* What the proofs assume of the constants: one receiver, and a retention that
\* outlasts the tolerance on both sides of a timestamp, as 60 s does 30 s.
Setting ==
  /\ IsFiniteSet(Sessions) /\ \A q, r \in Readers : q = r
  /\ Datagrams \subseteq Sessions \X Nat /\ Stamp \in [Datagrams -> Int]
  /\ Window \in Nat \ {0} /\ Interval \in Nat \ {0} /\ MaxTracked \in Nat /\ MaxSweeps \in Nat /\ MaxTime \in Nat
  /\ Tolerance \in Nat /\ Retention \in Nat /\ 2 * Tolerance <= Retention
  /\ None \notin Nat /\ None \notin Sessions /\ None \notin Datagrams /\ None \notin Entries /\ None \notin Sweeps

-----------------------------------------------------------------------------
(* The inductive invariant                                                 *)

\* The receiver has a datagram.
Working(r) == reader[r].pc # "idle"

\* The types the proofs need.
ReplayTyped ==
  /\ now \in Nat /\ gen \in Nat /\ count \in Int /\ misses \in 0..(Interval - 1)
  /\ table \in [Sessions -> Entries \cup {None}] /\ \A s \in Sessions : table[s] # None => table[s].gen <= gen
  /\ sweeps \in [Slots -> Sweeps \cup {None}] /\ \A k \in Slots : sweeps[k] # None => sweeps[k].gen <= gen
  /\ reader \in [Readers -> Tasks \cup {Idle}]
  /\ delivered \in [Datagrams -> Nat] /\ rejected \in Datagrams \cup {None}

\* The receiver's datagram was valid at the time it took.
TaskIsValid ==
  \A r \in Readers : Working(r) =>
    /\ <<reader[r].s, reader[r].id>> \in Datagrams /\ reader[r].now <= now
    /\ ValidateTimestamp(Stamp[<<reader[r].s, reader[r].id>>], reader[r].now)

\* Entries were seen, and sweeps started, before the receiver took its time.
SeenEarlier ==
  \A s \in Sessions : table[s] # None =>
    table[s].seen <= now /\ \A r \in Readers : Working(r) => table[s].seen <= reader[r].now
SweptEarlier ==
  \A k \in Slots : sweeps[k] # None =>
    sweeps[k].now <= now /\ \A r \in Readers : Working(r) => sweeps[k].now <= reader[r].now

\* What a sweep has found expired is expired when it deletes it.
SweepFound ==
  \A k \in Slots :
    sweeps[k] # None /\ sweeps[k].s # None /\ table[sweeps[k].s] # None /\ table[sweeps[k].s].gen = sweeps[k].gen
      => Expired(sweeps[k].now, table[sweeps[k].s].seen)

\* What the receiver knows about the entry of its session.
ReaderKnows ==
  \A r \in Readers :
    /\ reader[r].pc = "store" => table[reader[r].s] = None
    /\ reader[r].pc = "drop" /\ table[reader[r].s] # None =>
         table[reader[r].s].gen = reader[r].gen /\ Expired(reader[r].now, table[reader[r].s].seen)
    /\ reader[r].pc \in {"evict", "filter"} =>
         IF table[reader[r].s] = None THEN Expired(now, reader[r].now)
         ELSE table[reader[r].s].gen = reader[r].gen /\ table[reader[r].s].seen = reader[r].now
    /\ reader[r].pc = "evict" /\ table[reader[r].s] # None => table[reader[r].s].filter = NewSlidingWindowFilter

\* The window of its session knows datagram d.
Remembered(d) ==
  /\ table[d[1]] # None /\ ~Fresh(table[d[1]].filter, d[2])
  /\ Stamp[d] <= table[d[1]].seen + Tolerance

\* Datagram d is too old to be taken again.
Outdated(d) ==
  /\ Stamp[d] < now - Tolerance
  /\ \A r \in Readers : Working(r) /\ reader[r].s = d[1] => Stamp[d] < reader[r].now - Tolerance

DeliveredIsKept == \A d \in Datagrams : delivered[d] > 0 => Remembered(d) \/ Outdated(d)

\* A window holds what was delivered.
WindowIsDelivered ==
  \A s \in Sessions : table[s] # None /\ table[s].filter.latest # None =>
    /\ <<s, table[s].filter.latest>> \in Datagrams /\ delivered[<<s, table[s].filter.latest>>] > 0
    /\ \A b \in table[s].filter.bits :
         <<s, table[s].filter.latest - b>> \in Datagrams /\ delivered[<<s, table[s].filter.latest - b>>] > 0

ReplayInv ==
  /\ ReplayTyped /\ TaskIsValid /\ SeenEarlier /\ SweptEarlier /\ SweepFound /\ ReaderKnows
  /\ DeliveredIsKept /\ WindowIsDelivered
  /\ DeliveredOnce /\ RejectedIsOld /\ CountIsSize

-----------------------------------------------------------------------------
(* The sliding window                                                      *)

\* An ID that was taken is not fresh again, and one that was not fresh stays so.
LEMMA WindowRemembers ==
  ASSUME Setting, NEW f \in Filters, NEW id \in Nat
  PROVE  /\ CheckAndUpdate(f, id) \in Filters /\ CheckAndUpdate(f, id).latest # None
         /\ ~Fresh(CheckAndUpdate(f, id), id)
         /\ \A x \in Nat : ~Fresh(f, x) => ~Fresh(CheckAndUpdate(f, id), x)
<1> USE DEF Setting
<1>1. f.latest \in Nat \cup {None} /\ f.bits \in SUBSET Nat
  BY DEF Filters
<1>2. CASE f.latest = None
  <2>1. CheckAndUpdate(f, id) = [latest |-> id, bits |-> {0}]
    BY <1>2 DEF CheckAndUpdate
  <2>2. \A x \in Nat : Fresh(f, x)
    BY <1>2 DEF Fresh
  <2> QED
    BY <2>1, <2>2 DEF Filters, Fresh
<1>3. CASE f.latest # None /\ id > f.latest
  <2> DEFINE B == ShiftWindow(f.bits, id - f.latest) \cup {0}
  <2>1. CheckAndUpdate(f, id) = [latest |-> id, bits |-> B]
    BY <1>3 DEF CheckAndUpdate
  <2>2. B \in SUBSET Nat
    BY <1>1, <1>3 DEF ShiftWindow
  <2>3. \A b \in f.bits : b + (id - f.latest) < Window => b + (id - f.latest) \in B
    BY DEF ShiftWindow
  <2>4. 0 \in B
    OBVIOUS
  <2> HIDE DEF B
  <2>5. ASSUME NEW x \in Nat, ~Fresh(f, x)
        PROVE  ~Fresh([latest |-> id, bits |-> B], x)
    <3>1. x <= f.latest /\ (f.latest - x >= Window \/ f.latest - x \in f.bits)
      BY <1>1, <1>3, <2>5 DEF Fresh
    <3>2. id - x = (f.latest - x) + (id - f.latest) /\ x < id
      BY <1>1, <1>3, <3>1
    <3>3. id - x >= Window \/ id - x \in B
      BY <1>1, <1>3, <2>3, <3>1, <3>2
    <3> QED
      BY <1>1, <1>3, <3>2, <3>3 DEF Fresh
  <2> QED
    BY <2>1, <2>2, <2>4, <2>5 DEF Filters, Fresh
<1>4. CASE f.latest # None /\ ~(id > f.latest)
  <2> DEFINE B == f.bits \cup {f.latest - id}
  <2>1. CheckAndUpdate(f, id) = [f EXCEPT !.bits = B]
    BY <1>4, Zenon DEF CheckAndUpdate
  <2>2. B \in SUBSET Nat
    BY <1>1, <1>4
  <2>3. f.bits \subseteq B /\ f.latest - id \in B
    OBVIOUS
  <2> HIDE DEF B
  <2>4. CheckAndUpdate(f, id) \in Filters /\ CheckAndUpdate(f, id).latest = f.latest /\ CheckAndUpdate(f, id).bits = B
    BY <2>1, <2>2 DEF Filters
  <2> QED
    BY <1>1, <1>4, <2>3, <2>4 DEF Fresh
<1> QED
  BY <1>1, <1>2, <1>3, <1>4

\* An ID that is not fresh is behind the window or in it.
LEMMA NotFresh ==
  ASSUME Setting, NEW f \in Filters, NEW id \in Nat, ~Fresh(f, id)
  PROVE  /\ f.latest # None /\ f.latest \in Nat /\ id <= f.latest
         /\ f.latest - id >= Window \/ f.latest - id \in f.bits
BY DEF Setting, Filters, Fresh

\* A window holds IDs it was given.
LEMMA WindowIsGiven ==
  ASSUME Setting, NEW f \in Filters, NEW id \in Nat, NEW S \in SUBSET Nat,
         f.latest # None => f.latest \in S /\ \A b \in f.bits : f.latest - b \in S
  PROVE  /\ CheckAndUpdate(f, id).latest \in S \cup {id}
         /\ \A b \in CheckAndUpdate(f, id).bits : CheckAndUpdate(f, id).latest - b \in S \cup {id}
<1> USE DEF Setting
<1>1. f.latest \in Nat \cup {None} /\ f.bits \in SUBSET Nat
  BY DEF Filters
<1>2. CASE f.latest = None
  <2>1. CheckAndUpdate(f, id) = [latest |-> id, bits |-> {0}]
    BY <1>2 DEF CheckAndUpdate
  <2> QED
    BY <2>1
<1>3. CASE f.latest # None /\ id > f.latest
  <2> DEFINE B == ShiftWindow(f.bits, id - f.latest) \cup {0}
  <2>1. CheckAndUpdate(f, id) = [latest |-> id, bits |-> B]
    BY <1>3 DEF CheckAndUpdate
  <2>2. ASSUME NEW y \in B PROVE id - y \in S \cup {id}
    <3>1. CASE y = 0
      BY <3>1
    <3>2. CASE y # 0
      <4>1. PICK b \in f.bits : y = b + (id - f.latest)
        BY <2>2, <3>2 DEF ShiftWindow
      <4>2. id - y = f.latest - b
        BY <1>1, <1>3, <4>1
      <4> QED
        BY <1>3, <4>1, <4>2
    <3> QED
      BY <3>1, <3>2
  <2> HIDE DEF B
  <2> QED
    BY <2>1, <2>2
<1>4. CASE f.latest # None /\ ~(id > f.latest)
  <2> DEFINE B == f.bits \cup {f.latest - id}
  <2>1. CheckAndUpdate(f, id) = [f EXCEPT !.bits = B]
    BY <1>4, Zenon DEF CheckAndUpdate
  <2>2. CheckAndUpdate(f, id).latest = f.latest /\ CheckAndUpdate(f, id).bits = B
    BY <2>1 DEF Filters
  <2>3. f.latest - (f.latest - id) = id
    BY <1>1, <1>4
  <2> QED
    BY <1>4, <2>2, <2>3
<1> QED
  BY <1>1, <1>2, <1>3, <1>4

-----------------------------------------------------------------------------
(* Entries and tasks                                                       *)

\* An entry is a record.
LEMMA EntryFields ==
  ASSUME Setting, NEW e \in Entries
  PROVE  e # None /\ e.gen \in Nat /\ e.seen \in Nat /\ e.filter \in Filters
BY DEF Entries, Setting

\* The entry of session s becomes one with these fields.
Updated(s, g, n, f) ==
  /\ table' \in [Sessions -> Entries \cup {None}] /\ table'[s] \in Entries /\ table'[s] # None
  /\ table'[s].gen = g /\ table'[s].seen = n /\ table'[s].filter = f
  /\ \A q \in Sessions : q # s => table'[q] = table[q]

\* An entry is replaced.
LEMMA Replaces ==
  ASSUME Setting, table \in [Sessions -> Entries \cup {None}], NEW s \in Sessions, NEW x \in Entries,
         table' = [table EXCEPT ![s] = x]
  PROVE  Updated(s, x.gen, x.seen, x.filter)
BY EntryFields DEF Updated

\* lastSeen is set.
LEMMA Refreshes ==
  ASSUME Setting, table \in [Sessions -> Entries \cup {None}], NEW s \in Sessions, table[s] # None, NEW n \in Nat,
         table' = [table EXCEPT ![s].seen = n]
  PROVE  Updated(s, table[s].gen, n, table[s].filter)
<1> DEFINE x == [table[s] EXCEPT !.seen = n]
<1>1. table[s] \in Entries
  OBVIOUS
<1>2. x \in Entries /\ x.gen = table[s].gen /\ x.seen = n /\ x.filter = table[s].filter
  BY <1>1 DEF Entries
<1>3. table' = [table EXCEPT ![s] = x]
  BY Zenon
<1> HIDE DEF x
<1>4. Updated(s, x.gen, x.seen, x.filter)
  BY <1>2, <1>3, Replaces, Zenon
<1> QED
  BY <1>2, <1>4, Zenon

\* The window is updated.
LEMMA Takes ==
  ASSUME Setting, table \in [Sessions -> Entries \cup {None}], NEW s \in Sessions, table[s] # None, NEW id \in Nat,
         table' = [table EXCEPT ![s].filter = CheckAndUpdate(@, id)]
  PROVE  Updated(s, table[s].gen, table[s].seen, CheckAndUpdate(table[s].filter, id))
<1> DEFINE f == CheckAndUpdate(table[s].filter, id)
           x == [table[s] EXCEPT !.filter = f]
<1>1. table[s] \in Entries
  OBVIOUS
<1>2. f \in Filters
  BY <1>1, EntryFields, WindowRemembers
<1>3. table' = [table EXCEPT ![s] = x]
  BY Zenon
<1> HIDE DEF f
<1>4. x \in Entries /\ x.gen = table[s].gen /\ x.seen = table[s].seen /\ x.filter = f
  BY <1>1, <1>2 DEF Entries
<1> HIDE DEF x
<1>5. Updated(s, x.gen, x.seen, x.filter)
  BY <1>3, <1>4, Replaces, Zenon
<1> QED
  BY <1>4, <1>5, Zenon DEF f

\* The receivers go on with the datagrams they have.
TasksStay ==
  /\ reader' \in [Readers -> Tasks \cup {Idle}]
  /\ \A r \in Readers : /\ Working(r)' <=> Working(r)
                        /\ Working(r) => /\ reader'[r].s = reader[r].s /\ reader'[r].id = reader[r].id
                                         /\ reader'[r].now = reader[r].now

\* The fields of a task.
LEMMA TaskFields ==
  ASSUME ReplayTyped, NEW r \in Readers, Working(r)
  PROVE  /\ reader[r] \in Tasks /\ reader[r].s \in Sessions /\ reader[r].id \in Nat
         /\ reader[r].now \in Nat /\ reader[r].gen \in Nat
<1>1. Idle.pc = "idle" /\ reader[r] \in Tasks \cup {Idle}
  BY DEF Idle, ReplayTyped
<1>2. reader[r] \in Tasks
  BY <1>1 DEF Working
<1> QED
  BY <1>2 DEF Tasks

Stages == {"load", "drop", "store", "evict", "filter"}

\* A receiver goes to its next stage, with the same or with another entry.
LEMMA Turns ==
  ASSUME Setting, ReplayTyped, NEW r \in Readers, Working(r),
         NEW p \in Stages, NEW g \in Nat,
         \/ reader' = [reader EXCEPT ![r].pc = p, ![r].gen = g]
         \/ reader' = [reader EXCEPT ![r].pc = p] /\ g = reader[r].gen
  PROVE  TasksStay /\ reader'[r].pc = p /\ reader'[r].gen = g
<1> DEFINE y == [reader[r] EXCEPT !.pc = p]
           x == [y EXCEPT !.gen = g]
<1>1. reader[r] \in Tasks
  BY TaskFields
<1>2. /\ y \in Tasks /\ y.pc = p /\ y.gen = reader[r].gen
      /\ y.s = reader[r].s /\ y.id = reader[r].id /\ y.now = reader[r].now
  BY <1>1 DEF Tasks, Stages
<1>3. \/ reader' = [[reader EXCEPT ![r] = y] EXCEPT ![r].gen = g]
      \/ reader' = [reader EXCEPT ![r] = y] /\ g = reader[r].gen
  BY Zenon
<1> HIDE DEF y
<1>4. /\ x \in Tasks /\ x.pc = p /\ x.gen = g
      /\ x.s = reader[r].s /\ x.id = reader[r].id /\ x.now = reader[r].now
  BY <1>2 DEF Tasks
<1>5. reader \in [Readers -> Tasks \cup {Idle}]
  BY DEF ReplayTyped
<1>6. PICK z \in Tasks : /\ reader' \in [Readers -> Tasks \cup {Idle}] /\ reader'[r] = z
                         /\ \A q \in Readers : q # r => reader'[q] = reader[q]
                         /\ z.pc = p /\ z.gen = g
                         /\ z.s = reader[r].s /\ z.id = reader[r].id /\ z.now = reader[r].now
  <2>1. CASE reader' = [[reader EXCEPT ![r] = y] EXCEPT ![r].gen = g]
    <3> DEFINE u == [reader EXCEPT ![r] = y]
    <3>1. u \in [Readers -> Tasks \cup {Idle}] /\ u[r] = y /\ \A q \in Readers : q # r => u[q] = reader[q]
      BY <1>2, <1>5
    <3>2. reader' = [u EXCEPT ![r] = [u[r] EXCEPT !.gen = g]]
      BY <2>1, Zenon
    <3> HIDE DEF u
    <3>3. reader' = [u EXCEPT ![r] = x]
      BY <3>1, <3>2, Zenon
    <3> HIDE DEF x
    <3>4. /\ reader' \in [Readers -> Tasks \cup {Idle}] /\ reader'[r] = x
          /\ \A q \in Readers : q # r => reader'[q] = reader[q]
      BY <1>4, <3>1, <3>3
    <3> QED
      BY <1>4, <3>4, Zenon
  <2>2. CASE reader' = [reader EXCEPT ![r] = y] /\ g = reader[r].gen
    <3>1. /\ reader' \in [Readers -> Tasks \cup {Idle}] /\ reader'[r] = y
          /\ \A q \in Readers : q # r => reader'[q] = reader[q]
      BY <1>2, <1>5, <2>2
    <3> QED
      BY <1>2, <2>2, <3>1, Zenon
  <2> QED
    BY <1>3, <2>1, <2>2, Zenon
<1>7. z.pc # "idle"
  BY <1>6 DEF Stages
<1> QED
  BY <1>6, <1>7, Zenon DEF TasksStay, Working

\* It goes on with the entry it has.
LEMMA TurnsTo ==
  ASSUME Setting, ReplayTyped, NEW r \in Readers, Working(r), NEW p \in Stages, reader' = [reader EXCEPT ![r].pc = p]
  PROVE  TasksStay /\ reader'[r].pc = p /\ reader'[r].gen = reader[r].gen
<1>1. reader[r].gen \in Nat
  BY TaskFields, Zenon
<1> QED
  BY <1>1, Turns, ZenonT(30)

\* It goes on with another entry.
LEMMA TurnsWith ==
  ASSUME Setting, ReplayTyped, NEW r \in Readers, Working(r), NEW p \in Stages, NEW g \in Nat,
         reader' = [reader EXCEPT ![r].pc = p, ![r].gen = g]
  PROVE  TasksStay /\ reader'[r].pc = p /\ reader'[r].gen = g
BY Turns, Zenon

-----------------------------------------------------------------------------
(* What steps have in common                                               *)

\* What TasksStay says of each receiver.
LEMMA SameTasks ==
  ASSUME TasksStay
  PROVE  \A r \in Readers : /\ reader'[r].pc # "idle" <=> reader[r].pc # "idle"
                            /\ reader[r].pc # "idle" => /\ reader'[r].s = reader[r].s /\ reader'[r].id = reader[r].id
                                                        /\ reader'[r].now = reader[r].now
BY DEF TasksStay, Working

\* The receivers' datagrams stay valid.
LEMMA TasksStayValid ==
  ASSUME Setting, ReplayInv, TasksStay, now' = now
  PROVE  TaskIsValid'
BY SameTasks, Zenon DEF ReplayInv, TaskIsValid, Working

\* A step that leaves the table and the history alone.
LEMMA TableStays ==
  ASSUME Setting, ReplayInv, TasksStay, UNCHANGED <<now, table, count, delivered, rejected>>
  PROVE  /\ TaskIsValid' /\ SeenEarlier' /\ DeliveredIsKept' /\ WindowIsDelivered'
         /\ DeliveredOnce' /\ RejectedIsOld' /\ CountIsSize'
<1> USE DEF ReplayInv
<1>1. TaskIsValid'
  BY TasksStayValid, Zenon
<1>2. SeenEarlier'
  BY SameTasks, Zenon DEF SeenEarlier, Working
<1>3. DeliveredIsKept'
  <2>1. \A d \in Datagrams : Remembered(d) => Remembered(d)'
    BY Zenon DEF Remembered, Fresh
  <2>2. \A d \in Datagrams : Outdated(d) => Outdated(d)'
    BY SameTasks, Zenon DEF Outdated, Working
  <2> QED
    BY <2>1, <2>2, Zenon DEF DeliveredIsKept
<1>4. WindowIsDelivered' /\ DeliveredOnce'
  BY Zenon DEF WindowIsDelivered, DeliveredOnce
<1>5. RejectedIsOld' /\ CountIsSize'
  BY Zenon DEF RejectedIsOld, CountIsSize
<1> QED
  BY <1>1, <1>2, <1>3, <1>4, <1>5, Zenon

\* lastSeen of a session is set to the receiver's time.
LEMMA RefreshStep ==
  ASSUME Setting, ReplayInv, TasksStay, NEW r \in Readers, Working(r), table[reader[r].s] # None,
         table' = [table EXCEPT ![reader[r].s].seen = reader[r].now],
         UNCHANGED <<now, count, delivered, rejected>>
  PROVE  /\ TaskIsValid' /\ SeenEarlier' /\ DeliveredIsKept' /\ WindowIsDelivered'
         /\ DeliveredOnce' /\ RejectedIsOld' /\ CountIsSize'
         /\ Updated(reader[r].s, table[reader[r].s].gen, reader[r].now, table[reader[r].s].filter)
<1> USE DEF ReplayInv
<1> DEFINE s == reader[r].s
           n == reader[r].now
<1>1. s \in Sessions /\ n \in Nat /\ n <= now /\ table \in [Sessions -> Entries \cup {None}]
  BY TaskFields, Zenon DEF TaskIsValid, ReplayTyped
<1>2. table[s] # None /\ Updated(s, table[s].gen, n, table[s].filter)
  BY <1>1, Refreshes, Zenon
<1>3. TaskIsValid'
  BY TasksStayValid, Zenon
<1>4. \A q \in Readers : q = r
  BY Zenon DEF Setting
<1>5. Working(r)' /\ reader'[r].now = n /\ reader'[r].s = s
  BY SameTasks, Zenon DEF Working
<1> HIDE DEF s, n
<1>6. n <= n
  BY <1>1
<1>7. SeenEarlier'
  BY <1>1, <1>2, <1>4, <1>5, <1>6, ZenonT(30) DEF SeenEarlier, Updated, n
<1>8. DeliveredIsKept'
  <2>1. ASSUME NEW d \in Datagrams, Remembered(d) PROVE Remembered(d)'
    <3>1. d[1] \in Sessions /\ Stamp[d] \in Int
      BY DEF Setting
    <3>2. CASE d[1] # s
      BY <1>2, <2>1, <3>1, <3>2, Zenon DEF Remembered, Updated
    <3>3. CASE d[1] = s
      <4>1. table[s].seen <= n /\ table[s].seen \in Nat
        BY <1>1, <1>2, EntryFields DEF SeenEarlier, n
      <4>2. Stamp[d] <= table[s].seen + Tolerance
        BY <2>1, <3>3, Zenon DEF Remembered
      <4>3. Stamp[d] <= n + Tolerance
        BY <1>1, <3>1, <4>1, <4>2 DEF Setting
      <4> QED
        BY <1>2, <2>1, <3>3, <4>3, Zenon DEF Remembered, Updated
    <3> QED
      BY <3>2, <3>3
  <2>2. \A d \in Datagrams : Outdated(d) => Outdated(d)'
    BY SameTasks, Zenon DEF Outdated, Working
  <2> QED
    BY <2>1, <2>2, Zenon DEF DeliveredIsKept
<1>9. WindowIsDelivered' /\ DeliveredOnce'
  <2>1. \A q \in Sessions : table'[q] # None => table[q] # None /\ table'[q].filter = table[q].filter
    BY <1>2, Zenon DEF Updated
  <2> QED
    BY <2>1, Zenon DEF WindowIsDelivered, DeliveredOnce
<1>10. RejectedIsOld' /\ CountIsSize'
  <2>1. {q \in Sessions : table'[q] # None} = {q \in Sessions : table[q] # None}
    BY <1>2, Zenon DEF Updated
  <2> QED
    BY <2>1, Zenon DEF RejectedIsOld, CountIsSize
<1> QED
  BY <1>2, <1>3, <1>7, <1>8, <1>9, <1>10, Zenon DEF s, n

\* The entry of session s goes.
Gone(s) ==
  /\ table' \in [Sessions -> Entries \cup {None}] /\ table'[s] = None
  /\ \A q \in Sessions : q # s => table'[q] = table[q]

\* An entry past its retention goes: what its window knows is too old by now.
LEMMA ForgetStep ==
  ASSUME Setting, ReplayInv, TasksStay, NEW s \in Sessions, NEW T \in Nat, table[s] # None,
         Expired(T, table[s].seen), T <= now, table' = [table EXCEPT ![s] = None], count' = count - 1,
         UNCHANGED <<now, delivered, rejected>>,
         \A r \in Readers : Working(r) /\ reader[r].s = s =>
           T <= reader[r].now \/ table[s].filter = NewSlidingWindowFilter
  PROVE  /\ TaskIsValid' /\ SeenEarlier' /\ DeliveredIsKept' /\ WindowIsDelivered'
         /\ DeliveredOnce' /\ RejectedIsOld' /\ CountIsSize' /\ Gone(s)
<1> USE DEF ReplayInv
<1>1. now \in Nat /\ table \in [Sessions -> Entries \cup {None}]
  BY Zenon DEF ReplayTyped
<1>2. Gone(s)
  BY <1>1 DEF Gone
<1>3. TaskIsValid'
  BY TasksStayValid, Zenon
<1>4. \A q \in Sessions : table'[q] # None => table'[q] = table[q]
  BY <1>2, Zenon DEF Gone
<1>5. SeenEarlier'
  BY <1>4, SameTasks, Zenon DEF SeenEarlier, Working
<1>6. DeliveredIsKept'
  <2>1. \A d \in Datagrams : Outdated(d) => Outdated(d)'
    BY SameTasks, Zenon DEF Outdated, Working
  <2>2. ASSUME NEW d \in Datagrams, Remembered(d) PROVE Remembered(d)' \/ Outdated(d)'
    <3>1. d[1] \in Sessions /\ Stamp[d] \in Int
      BY DEF Setting
    <3>2. CASE d[1] # s
      BY <1>2, <2>2, <3>1, <3>2, Zenon DEF Remembered, Gone
    <3>3. CASE d[1] = s
      <4>1. table[s].seen \in Nat
        BY <1>1, EntryFields
      <4>2. Stamp[d] <= table[s].seen + Tolerance /\ ~Fresh(table[s].filter, d[2])
        BY <2>2, <3>3, Zenon DEF Remembered
      <4>3. Stamp[d] < T - Tolerance
        BY <3>1, <4>1, <4>2 DEF Setting, Expired
      <4>4. Stamp[d] < now - Tolerance
        BY <1>1, <3>1, <4>3 DEF Setting
      <4>5. NewSlidingWindowFilter.latest = None
        BY DEF NewSlidingWindowFilter
      <4>6. \A r \in Readers : Working(r) /\ reader[r].s = s => T <= reader[r].now
        BY <4>2, <4>5, Zenon DEF Fresh
      <4>7. \A r \in Readers : Working(r) => reader[r].now \in Nat
        BY TaskFields, Zenon
      <4>8. \A r \in Readers : Working(r) /\ reader[r].s = s => Stamp[d] < reader[r].now - Tolerance
        BY <3>1, <4>3, <4>6, <4>7 DEF Setting
      <4>9. Outdated(d)
        BY <3>3, <4>4, <4>8, Zenon DEF Outdated
      <4> QED
        BY <2>1, <4>9
    <3> QED
      BY <3>2, <3>3
  <2> QED
    BY <2>1, <2>2, Zenon DEF DeliveredIsKept
<1>7. WindowIsDelivered' /\ DeliveredOnce'
  BY <1>4, Zenon DEF WindowIsDelivered, DeliveredOnce
<1>8. RejectedIsOld'
  BY Zenon DEF RejectedIsOld
<1>9. CountIsSize'
  <2> DEFINE S == {q \in Sessions : table[q] # None}
             D == {q \in Sessions : table'[q] # None}
  <2>1. D = S \ {s} /\ s \in S
    BY <1>2, Zenon DEF Gone
  <2>2. IsFiniteSet(S)
    BY FS_Subset, Zenon DEF Setting
  <2>3. count = Cardinality(S)
    BY Zenon DEF CountIsSize
  <2> HIDE DEF S, D
  <2>4. Cardinality(S \ {s}) = Cardinality(S) - 1
    BY <2>1, <2>2, FS_RemoveElement, Zenon
  <2>5. count' = Cardinality(D)
    BY <2>1, <2>3, <2>4, Zenon
  <2> QED
    BY <2>5, Zenon DEF CountIsSize, D
<1> QED
  BY <1>2, <1>3, <1>5, <1>6, <1>7, <1>8, <1>9, Zenon

\* The table changes at most by losing the entry of one session.
Loses == table' = table \/ \E s \in Sessions : Gone(s)

\* The sweeps take no notice of a receiver's step.
LEMMA SweepsStay ==
  ASSUME Setting, ReplayInv, TasksStay, Loses, count' \in Int,
         UNCHANGED <<now, gen, misses, sweeps, delivered, rejected>>
  PROVE  ReplayTyped' /\ SweptEarlier' /\ SweepFound'
<1> USE DEF ReplayInv
<1>1. /\ table' \in [Sessions -> Entries \cup {None}]
      /\ \A q \in Sessions : table'[q] # None => table[q] # None /\ table'[q] = table[q]
  BY Zenon DEF Loses, Gone, ReplayTyped
<1>2. ReplayTyped'
  BY <1>1, Zenon DEF ReplayTyped, TasksStay
<1>3. SweptEarlier'
  BY SameTasks, Zenon DEF SweptEarlier, Working
<1>4. \A k \in Slots : sweeps[k] # None /\ sweeps[k].s # None => sweeps[k].s \in Sessions
  BY DEF ReplayTyped, Sweeps
<1>5. SweepFound'
  BY <1>1, <1>4, Zenon DEF SweepFound
<1> QED
  BY <1>2, <1>3, <1>5, Zenon

\* The parts of the invariant make it.
LEMMA Whole ==
  ASSUME ReplayTyped', TaskIsValid', SeenEarlier', SweptEarlier', SweepFound', ReaderKnows',
         DeliveredIsKept', WindowIsDelivered', DeliveredOnce', RejectedIsOld', CountIsSize'
  PROVE  ReplayInv'
BY Zenon DEF ReplayInv

-----------------------------------------------------------------------------
(* The receiver                                                            *)

\* Tick.
LEMMA TickStep ==
  ASSUME Setting, ReplayInv, Tick
  PROVE  ReplayInv'
<1> USE DEF ReplayInv
<1>1. UNCHANGED <<table, gen, count, misses, sweeps, reader, delivered, rejected>> /\ now' = now + 1 /\ now \in Nat
  BY DEF Tick, ReplayTyped
<1>2. \A x \in Int : (x <= now => x <= now') /\ (x < now - Tolerance => x < now' - Tolerance)
  BY <1>1 DEF Setting
<1>3. ReplayTyped'
  <2>1. now' \in Nat
    BY <1>1
  <2> QED
    BY <1>1, <2>1, Zenon DEF ReplayTyped
<1>4. TaskIsValid'
  <2>1. \A r \in Readers : Working(r) => reader[r].now \in Int
    BY TaskFields
  <2> QED
    BY <1>1, <1>2, <2>1, Zenon DEF TaskIsValid, Working
<1>5. SeenEarlier'
  <2>1. \A s \in Sessions : table[s] # None => table[s].seen \in Int
    BY EntryFields DEF ReplayTyped
  <2> QED
    BY <1>1, <1>2, <2>1, Zenon DEF SeenEarlier, Working
<1>6. SweptEarlier'
  <2>1. \A k \in Slots : sweeps[k] # None => sweeps[k].now \in Int
    BY DEF ReplayTyped, Sweeps
  <2> QED
    BY <1>1, <1>2, <2>1, Zenon DEF SweptEarlier, Working
<1>7. SweepFound'
  BY <1>1, Zenon DEF SweepFound
<1>8. ReaderKnows'
  <2>1. \A r \in Readers : Working(r) => reader[r].now \in Int
    BY TaskFields
  <2>2. \A x \in Int : Expired(now, x) => Expired(now', x)
    BY <1>1 DEF Setting, Expired
  <2>3. \A r \in Readers : reader[r].pc \in {"evict", "filter"} => Working(r)
    BY DEF Working
  <2> QED
    BY <1>1, <2>1, <2>2, <2>3, Zenon DEF ReaderKnows
<1>9. DeliveredIsKept'
  <2>1. \A d \in Datagrams : Stamp[d] \in Int
    BY DEF Setting
  <2>2. \A d \in Datagrams : Remembered(d) => Remembered(d)'
    BY <1>1, Zenon DEF Remembered, Fresh
  <2>3. \A d \in Datagrams : Outdated(d) => Outdated(d)'
    BY <1>1, <1>2, <2>1, Zenon DEF Outdated, Working
  <2> QED
    BY <1>1, <2>2, <2>3, Zenon DEF DeliveredIsKept
<1>10. WindowIsDelivered' /\ DeliveredOnce' /\ RejectedIsOld' /\ CountIsSize'
  BY <1>1, Zenon DEF WindowIsDelivered, DeliveredOnce, RejectedIsOld, CountIsSize
<1> QED
  BY <1>3, <1>4, <1>5, <1>6, <1>7, <1>8, <1>9, <1>10, Whole, Zenon

\* Receive: the time is taken after everything that is in the table or under way.
LEMMA ReceiveStep ==
  ASSUME Setting, ReplayInv, NEW r \in Readers, Receive(r)
  PROVE  ReplayInv'
<1> USE DEF ReplayInv
<1>1. PICK d \in Datagrams :
        /\ ValidateTimestamp(Stamp[d], now)
        /\ reader' = [reader EXCEPT ![r] = [pc |-> "load", s |-> d[1], id |-> d[2], now |-> now, gen |-> 0]]
  BY Zenon DEF Receive
<1>2. UNCHANGED <<now, table, gen, count, misses, sweeps, delivered>> /\ rejected' = None
  BY Zenon DEF Receive
<1>3. now \in Nat /\ now <= now /\ d \in Sessions \X Nat
  BY DEF ReplayTyped, Setting
<1> DEFINE x == [pc |-> "load", s |-> d[1], id |-> d[2], now |-> now, gen |-> 0]
<1>4. x \in Tasks /\ x.pc = "load" /\ x.now = now /\ <<x.s, x.id>> = d
  BY <1>3 DEF Tasks
<1> HIDE DEF x
<1>5. reader' \in [Readers -> Tasks \cup {Idle}] /\ reader'[r] = x
  BY <1>1, <1>4 DEF ReplayTyped, x
<1>6. \A q \in Readers : reader'[q] = x
  BY <1>5, Zenon DEF Setting
<1>7. ReplayTyped'
  BY <1>2, <1>5, Zenon DEF ReplayTyped
<1>8. TaskIsValid'
  BY <1>1, <1>2, <1>3, <1>4, <1>6, Zenon DEF TaskIsValid, Working
<1>9. SeenEarlier' /\ SweptEarlier'
  BY <1>2, <1>4, <1>6, Zenon DEF SeenEarlier, SweptEarlier
<1>10. SweepFound'
  BY <1>2, Zenon DEF SweepFound
<1>11. ReaderKnows'
  <2>1. \A q \in Readers : reader'[q].pc = "load"
    BY <1>4, <1>6, Zenon
  <2> QED
    BY <2>1 DEF ReaderKnows
<1>12. DeliveredIsKept'
  <2>1. \A e \in Datagrams : Remembered(e) => Remembered(e)'
    BY <1>2, Zenon DEF Remembered, Fresh
  <2>2. \A e \in Datagrams : Outdated(e) => Outdated(e)'
    BY <1>2, <1>4, <1>6, Zenon DEF Outdated
  <2> QED
    BY <1>2, <2>1, <2>2, Zenon DEF DeliveredIsKept
<1>13. WindowIsDelivered' /\ DeliveredOnce' /\ RejectedIsOld' /\ CountIsSize'
  BY <1>2, Zenon DEF WindowIsDelivered, DeliveredOnce, RejectedIsOld, CountIsSize
<1> QED
  BY <1>7, <1>8, <1>9, <1>10, <1>11, <1>12, <1>13, Whole, Zenon

\* Load: a live entry is refreshed, and no sweep has found it expired.
LEMMA LoadStep ==
  ASSUME Setting, ReplayInv, NEW r \in Readers, Load(r)
  PROVE  ReplayInv'
<1> USE DEF ReplayInv
<1> DEFINE s == reader[r].s
           n == reader[r].now
<1>1. Working(r) /\ UNCHANGED <<now, gen, count, misses, sweeps, delivered, rejected>>
  <2>1. reader[r].pc = "load"
    BY Zenon DEF Load
  <2> QED
    BY <2>1 DEF Working, Load
<1>2. s \in Sessions /\ n \in Nat /\ n <= now /\ reader[r].gen \in Nat
  BY <1>1, TaskFields, Zenon DEF TaskIsValid
<1>3. /\ table \in [Sessions -> Entries \cup {None}] /\ count \in Int /\ now \in Nat
      /\ table[s] # None => table[s] \in Entries /\ table[s].gen \in Nat /\ table[s].seen \in Nat
  BY <1>2, EntryFields DEF ReplayTyped
<1>4. \A q \in Readers : q = r
  BY Zenon DEF Setting
<1>5. CASE table[s] = None
  <2>1. reader' = [reader EXCEPT ![r].pc = "store"] /\ table' = table
    BY <1>5, Zenon DEF Load, At
  <2>2. TasksStay /\ reader'[r].pc = "store"
    BY <1>1, <2>1, TurnsTo, Zenon DEF Stages
  <2>3. ReplayTyped' /\ SweptEarlier' /\ SweepFound'
    BY <1>1, <1>3, <2>1, <2>2, SweepsStay, Zenon DEF Loses
  <2>4. reader'[r].s = s
    BY <1>1, <2>2, SameTasks, Zenon DEF Working
  <2>5. ReaderKnows'
    <3>1. \A q \in Readers : reader'[q].pc = "store" /\ table'[reader'[q].s] = None
      BY <1>4, <1>5, <2>1, <2>2, <2>4, Zenon
    <3> QED
      BY <3>1 DEF ReaderKnows
  <2> QED
    BY <1>1, <2>1, <2>2, <2>3, <2>5, TableStays, Whole, Zenon
<1>6. CASE table[s] # None /\ Expired(n, table[s].seen)
  <2>1. reader' = [reader EXCEPT ![r].pc = "drop", ![r].gen = table[s].gen] /\ table' = table
    BY <1>6, Zenon DEF Load
  <2>2. TasksStay /\ reader'[r].pc = "drop" /\ reader'[r].gen = table[s].gen
    BY <1>1, <1>3, <1>6, <2>1, TurnsWith, Zenon DEF Stages
  <2>3. ReplayTyped' /\ SweptEarlier' /\ SweepFound'
    BY <1>1, <1>3, <2>1, <2>2, SweepsStay, Zenon DEF Loses
  <2>4. reader'[r].s = s /\ reader'[r].now = n
    BY <1>1, <2>2, SameTasks, Zenon DEF Working
  <2>5. ReaderKnows'
    <3>1. \A q \in Readers : /\ reader'[q].pc = "drop" /\ table'[reader'[q].s].gen = reader'[q].gen
                             /\ Expired(reader'[q].now, table'[reader'[q].s].seen)
      BY <1>4, <1>6, <2>1, <2>2, <2>4, Zenon
    <3> QED
      BY <3>1 DEF ReaderKnows
  <2> QED
    BY <1>1, <2>1, <2>2, <2>3, <2>5, TableStays, Whole, Zenon
<1>7. CASE table[s] # None /\ ~Expired(n, table[s].seen)
  <2>1. /\ reader' = [reader EXCEPT ![r].pc = "filter", ![r].gen = table[s].gen]
        /\ table' = [table EXCEPT ![s].seen = n]
    BY <1>7, Zenon DEF Load
  <2>2. TasksStay /\ reader'[r].pc = "filter" /\ reader'[r].gen = table[s].gen
    BY <1>1, <1>3, <1>7, <2>1, TurnsWith, Zenon DEF Stages
  <2>3. /\ TaskIsValid' /\ SeenEarlier' /\ DeliveredIsKept' /\ WindowIsDelivered'
        /\ DeliveredOnce' /\ RejectedIsOld' /\ CountIsSize'
        /\ Updated(s, table[s].gen, n, table[s].filter)
    BY <1>1, <1>7, <2>1, <2>2, RefreshStep, Zenon
  <2>4. reader'[r].s = s /\ reader'[r].now = n
    BY <1>1, <2>2, SameTasks, Zenon DEF Working
  <2>5. \A q \in Sessions : table'[q] # None => table[q] # None /\ table'[q].gen = table[q].gen
    BY <1>7, <2>3, Zenon DEF Updated
  <2>6. ReplayTyped'
    BY <1>1, <2>2, <2>3, <2>5, Zenon DEF ReplayTyped, TasksStay, Updated
  <2>7. SweptEarlier'
    BY <1>1, <2>2, SameTasks, Zenon DEF SweptEarlier, Working
  <2>8. SweepFound'
    <3>1. \A k \in Slots : sweeps[k] # None =>
            /\ sweeps[k].now \in Nat /\ sweeps[k].now <= n
            /\ sweeps[k].s # None => sweeps[k].s \in Sessions
      BY <1>1 DEF ReplayTyped, Sweeps, SweptEarlier
    <3>2. \A k \in Slots : sweeps[k] # None => ~Expired(sweeps[k].now, table[s].seen)
      BY <1>2, <1>3, <1>7, <3>1 DEF Expired, Setting
    <3> QED
      BY <1>1, <1>7, <2>3, <3>1, <3>2, Zenon DEF SweepFound, Updated
  <2>9. ReaderKnows'
    <3>1. \A q \in Readers : /\ reader'[q].pc = "filter" /\ table'[reader'[q].s] # None
                             /\ table'[reader'[q].s].gen = reader'[q].gen
                             /\ table'[reader'[q].s].seen = reader'[q].now
      BY <1>4, <2>2, <2>3, <2>4, Zenon DEF Updated
    <3> QED
      BY <3>1 DEF ReaderKnows
  <2> QED
    BY <2>3, <2>6, <2>7, <2>8, <2>9, Whole, Zenon
<1> QED
  BY <1>5, <1>6, <1>7, Zenon

\* DropExpired: the entry found expired is gone, by this receiver or by a sweep.
LEMMA DropStep ==
  ASSUME Setting, ReplayInv, NEW r \in Readers, DropExpired(r)
  PROVE  ReplayInv'
<1> USE DEF ReplayInv
<1> DEFINE s == reader[r].s
           n == reader[r].now
<1>1. Working(r) /\ UNCHANGED <<now, gen, misses, sweeps, delivered, rejected>> /\ reader[r].pc = "drop"
  BY DEF Working, DropExpired
<1>2. s \in Sessions /\ n \in Nat /\ n <= now /\ n <= n
  <2>1. s \in Sessions /\ n \in Nat /\ n <= now
    BY <1>1, TaskFields, Zenon DEF TaskIsValid
  <2> QED
    BY <2>1
<1>3. \A q \in Readers : q = r
  BY Zenon DEF Setting
<1>4. TasksStay /\ reader'[r].pc = "store"
  BY <1>1, TurnsTo, Zenon DEF DropExpired, At, Stages
<1>5. reader'[r].s = s
  BY <1>1, <1>4, SameTasks, Zenon DEF Working
<1>6. count \in Int /\ count - 1 \in Int
  BY DEF ReplayTyped
<1>7. CASE table[s] = None
  <2>1. table' = table /\ count' = count
    BY <1>7, Zenon DEF DropExpired, Delete
  <2>2. ReplayTyped' /\ SweptEarlier' /\ SweepFound'
    BY <1>1, <1>4, <1>6, <2>1, SweepsStay, Zenon DEF Loses
  <2>3. ReaderKnows'
    <3>1. \A q \in Readers : reader'[q].pc = "store" /\ table'[reader'[q].s] = None
      BY <1>3, <1>4, <1>5, <1>7, <2>1, Zenon
    <3> QED
      BY <3>1 DEF ReaderKnows
  <2> QED
    BY <1>1, <1>4, <2>1, <2>2, <2>3, TableStays, Whole, Zenon
<1>8. CASE table[s] # None
  <2>1. table[s].gen = reader[r].gen /\ Expired(n, table[s].seen)
    BY <1>1, <1>8, Zenon DEF ReaderKnows
  <2>2. table' = [table EXCEPT ![s] = None] /\ count' = count - 1
    BY <1>8, <2>1, Zenon DEF DropExpired, Delete
  <2>3. /\ TaskIsValid' /\ SeenEarlier' /\ DeliveredIsKept' /\ WindowIsDelivered'
        /\ DeliveredOnce' /\ RejectedIsOld' /\ CountIsSize' /\ Gone(s)
    <3>1. \A q \in Readers : Working(q) /\ reader[q].s = s =>
            n <= reader[q].now \/ table[s].filter = NewSlidingWindowFilter
      BY <1>2, <1>3, Zenon
    <3> HIDE DEF s, n
    <3> QED
      BY <1>1, <1>2, <1>4, <1>8, <2>1, <2>2, <3>1, ForgetStep, Zenon
  <2>4. ReplayTyped' /\ SweptEarlier' /\ SweepFound'
    BY <1>1, <1>2, <1>4, <1>6, <2>2, <2>3, SweepsStay, Zenon DEF Loses
  <2>5. ReaderKnows'
    <3>1. \A q \in Readers : reader'[q].pc = "store" /\ table'[reader'[q].s] = None
      BY <1>3, <1>4, <1>5, <2>3, Zenon DEF Gone
    <3> QED
      BY <3>1 DEF ReaderKnows
  <2> QED
    BY <2>3, <2>4, <2>5, Whole, Zenon
<1> QED
  BY <1>7, <1>8, Zenon

\* Evict: the receiver's own entry has an empty window when it goes.
LEMMA EvictStep ==
  ASSUME Setting, ReplayInv, NEW r \in Readers, Evict(r)
  PROVE  ReplayInv'
<1> USE DEF ReplayInv
<1>1. PICK s \in Sessions : table[s] # None /\ Expired(now, table[s].seen) /\ Delete(s, table[s].gen)
  BY Zenon DEF Evict
<1>2. reader[r].pc = "evict" /\ UNCHANGED <<now, gen, misses, sweeps, reader, delivered, rejected>>
  BY Zenon DEF Evict
<1>3. table' = [table EXCEPT ![s] = None] /\ count' = count - 1
  BY <1>1, Zenon DEF Delete
<1>4. \A q \in Readers : q = r
  BY Zenon DEF Setting
<1>5. now \in Nat /\ now <= now /\ count - 1 \in Int
  BY DEF ReplayTyped
<1>6. TasksStay
  BY <1>2, Zenon DEF TasksStay, ReplayTyped, Working
<1>7. /\ TaskIsValid' /\ SeenEarlier' /\ DeliveredIsKept' /\ WindowIsDelivered'
      /\ DeliveredOnce' /\ RejectedIsOld' /\ CountIsSize' /\ Gone(s)
  <2>1. \A q \in Readers : Working(q) /\ reader[q].s = s =>
          now <= reader[q].now \/ table[s].filter = NewSlidingWindowFilter
    BY <1>1, <1>2, <1>4, Zenon DEF ReaderKnows
  <2> QED
    BY <1>1, <1>2, <1>3, <1>5, <1>6, <2>1, ForgetStep, Zenon
<1>8. ReplayTyped' /\ SweptEarlier' /\ SweepFound'
  BY <1>2, <1>3, <1>5, <1>6, <1>7, SweepsStay, Zenon DEF Loses
<1>9. ReaderKnows'
  <2>1. Working(r)
    BY <1>2 DEF Working
  <2>2. reader[r].s \in Sessions
    BY <2>1, TaskFields, Zenon
  <2>3. \A q \in Readers :
          /\ reader'[q].pc = "evict"
          /\ IF table'[reader'[q].s] = None THEN Expired(now', reader'[q].now)
             ELSE table'[reader'[q].s].gen = reader'[q].gen /\ table'[reader'[q].s].seen = reader'[q].now
          /\ table'[reader'[q].s] # None => table'[reader'[q].s].filter = NewSlidingWindowFilter
    <3>1. CASE reader[r].s = s
      <4>1. table[s].seen = reader[r].now
        BY <1>1, <1>2, <3>1, Zenon DEF ReaderKnows
      <4> QED
        BY <1>1, <1>2, <1>4, <1>7, <3>1, <4>1, Zenon DEF Gone
    <3>2. CASE reader[r].s # s
      <4>1. table'[reader[r].s] = table[reader[r].s]
        BY <1>7, <2>2, <3>2, Zenon DEF Gone
      <4> QED
        BY <1>2, <1>4, <4>1, Zenon DEF ReaderKnows
    <3> QED
      BY <3>1, <3>2
  <2> QED
    BY <2>3 DEF ReaderKnows
<1> QED
  BY <1>7, <1>8, <1>9, Whole, Zenon

\* EvictEnds.
LEMMA EvictEndsStep ==
  ASSUME Setting, ReplayInv, NEW r \in Readers, EvictEnds(r)
  PROVE  ReplayInv'
<1> USE DEF ReplayInv
<1>1. /\ Working(r) /\ UNCHANGED <<now, table, gen, count, misses, sweeps, delivered, rejected>>
      /\ reader[r].pc = "evict"
  BY DEF Working, EvictEnds
<1>2. TasksStay /\ reader'[r].pc = "filter" /\ reader'[r].gen = reader[r].gen
  BY <1>1, TurnsTo, Zenon DEF EvictEnds, At, Stages
<1>3. reader'[r].s = reader[r].s /\ reader'[r].now = reader[r].now
  BY <1>1, <1>2, SameTasks, Zenon DEF Working
<1>4. count' \in Int
  BY <1>1 DEF ReplayTyped
<1>5. ReplayTyped' /\ SweptEarlier' /\ SweepFound'
  BY <1>1, <1>2, <1>4, SweepsStay, Zenon DEF Loses
<1>6. ReaderKnows'
  <2>1. \A q \in Readers :
          /\ reader'[q].pc = "filter"
          /\ IF table'[reader'[q].s] = None THEN Expired(now', reader'[q].now)
             ELSE table'[reader'[q].s].gen = reader'[q].gen /\ table'[reader'[q].s].seen = reader'[q].now
    <3>1. \A q \in Readers : q = r
      BY Zenon DEF Setting
    <3> QED
      BY <1>1, <1>2, <1>3, <3>1, Zenon DEF ReaderKnows
  <2> QED
    BY <2>1 DEF ReaderKnows
<1> QED
  BY <1>1, <1>2, <1>5, <1>6, TableStays, Whole, Zenon

\* A miss may start a sweep, with the receiver's time.
LEMMA StartSweep ==
  ASSUME Setting, ReplayInv, NEW r \in Readers, Store(r), Working(r)
  PROVE  /\ sweeps' \in [Slots -> Sweeps \cup {None}]
         /\ \A k \in Slots : sweeps'[k] # None =>
              sweeps'[k] = sweeps[k] \/ (sweeps'[k].now = reader[r].now /\ sweeps'[k].s = None /\ sweeps'[k].gen = 0)
<1> USE DEF ReplayInv
<1> DEFINE x == [now |-> reader[r].now, todo |-> Sessions, s |-> None, gen |-> 0]
<1>1. x \in Sweeps /\ x.now = reader[r].now /\ x.s = None /\ x.gen = 0
  BY TaskFields DEF Sweeps
<1>2. sweeps' = sweeps \/ \E k \in Slots : sweeps' = [sweeps EXCEPT ![k] = x]
  BY Zenon DEF Store
<1>3. sweeps \in [Slots -> Sweeps \cup {None}]
  BY Zenon DEF ReplayTyped
<1> HIDE DEF x
<1> QED
  BY <1>1, <1>2, <1>3

\* Store: the entry is newer than any that a sweep has found.
LEMMA StoreStep ==
  ASSUME Setting, ReplayInv, NEW r \in Readers, Store(r)
  PROVE  ReplayInv'
<1> USE DEF ReplayInv
<1> DEFINE s == reader[r].s
           n == reader[r].now
           x == [gen |-> gen + 1, seen |-> n, filter |-> NewSlidingWindowFilter]
<1>1. Working(r) /\ UNCHANGED <<now, delivered, rejected>> /\ reader[r].pc = "store"
  BY DEF Working, Store
<1>2. s \in Sessions /\ n \in Nat /\ n <= now /\ n <= n
  <2>1. s \in Sessions /\ n \in Nat /\ n <= now
    BY <1>1, TaskFields, Zenon DEF TaskIsValid
  <2> QED
    BY <2>1
<1>3. table[s] = None
  BY <1>1, Zenon DEF ReaderKnows
<1>4. /\ gen' = gen + 1 /\ count' = count + 1 /\ table' = [table EXCEPT ![s] = x]
      /\ reader' = [reader EXCEPT ![r].pc = "evict", ![r].gen = gen + 1]
  BY <1>3, Zenon DEF Store
<1>5. gen \in Nat /\ gen + 1 \in Nat /\ count' \in Int
  BY <1>4 DEF ReplayTyped
<1>6. x \in Entries /\ x.gen = gen + 1 /\ x.seen = n /\ x.filter = NewSlidingWindowFilter
  BY <1>2, <1>5 DEF Entries, Filters, NewSlidingWindowFilter
<1> HIDE DEF x
<1>7. TasksStay /\ reader'[r].pc = "evict" /\ reader'[r].gen = gen + 1
  BY <1>1, <1>4, <1>5, TurnsWith, Zenon DEF Stages
<1>8. reader'[r].s = s /\ reader'[r].now = n
  BY <1>1, <1>7, SameTasks, Zenon DEF Working
<1>9. Updated(s, gen + 1, n, NewSlidingWindowFilter)
  <2>1. table \in [Sessions -> Entries \cup {None}]
    BY Zenon DEF ReplayTyped
  <2>2. Updated(s, x.gen, x.seen, x.filter)
    BY <1>2, <1>4, <1>6, <2>1, Replaces, Zenon
  <2> QED
    BY <1>6, <2>2, Zenon
<1>10. /\ sweeps' \in [Slots -> Sweeps \cup {None}]
       /\ \A k \in Slots : sweeps'[k] # None =>
            sweeps'[k] = sweeps[k] \/ (sweeps'[k].now = n /\ sweeps'[k].s = None /\ sweeps'[k].gen = 0)
  BY <1>1, StartSweep, Zenon
<1>11. \A q \in Readers : q = r
  BY Zenon DEF Setting
<1> HIDE DEF s, n
<1>12. ReplayTyped'
  <2>1. misses' \in 0..(Interval - 1)
    <3>1. misses' = (misses + 1) % Interval /\ misses \in Nat
      BY DEF Store, ReplayTyped
    <3> QED
      BY <3>1 DEF Setting
  <2>2. \A q \in Sessions : table'[q] # None => table'[q].gen <= gen'
    <3>1. \A q \in Sessions : table[q] # None => table[q].gen \in Nat
      BY EntryFields DEF ReplayTyped
    <3>2. \A m \in Nat : m <= gen => m <= gen'
      BY <1>4, <1>5
    <3>3. gen + 1 <= gen'
      BY <1>4, <1>5
    <3> QED
      BY <1>9, <3>1, <3>2, <3>3, Zenon DEF ReplayTyped, Updated
  <2>3. \A k \in Slots : sweeps'[k] # None => sweeps'[k].gen <= gen'
    <3>1. \A k \in Slots : sweeps[k] # None => sweeps[k].gen \in Nat
      BY DEF ReplayTyped, Sweeps
    <3>2. 0 <= gen' /\ \A m \in Nat : m <= gen => m <= gen'
      BY <1>4, <1>5
    <3> QED
      BY <1>10, <3>1, <3>2, Zenon DEF ReplayTyped
  <2> QED
    BY <1>1, <1>4, <1>5, <1>7, <1>9, <1>10, <2>1, <2>2, <2>3, Zenon DEF ReplayTyped, TasksStay, Updated
<1>13. TaskIsValid'
  BY <1>1, <1>7, TasksStayValid, Zenon
<1>14. SeenEarlier'
  <2>1. \A q \in Sessions : table'[q] # None =>
          table'[q].seen = n \/ (table[q] # None /\ table'[q].seen = table[q].seen)
    BY <1>9, Zenon DEF Updated
  <2> QED
    BY <1>1, <1>2, <1>8, <1>11, <2>1, Zenon DEF SeenEarlier, n
<1>15. SweptEarlier'
  BY <1>1, <1>2, <1>8, <1>10, <1>11, Zenon DEF SweptEarlier, n
<1>16. SweepFound'
  <2>1. \A k \in Slots : sweeps[k] # None =>
          sweeps[k].gen # gen + 1 /\ (sweeps[k].s # None => sweeps[k].s \in Sessions)
    BY <1>5 DEF ReplayTyped, Sweeps
  <2> SUFFICES ASSUME NEW j \in Slots, sweeps'[j] # None, sweeps'[j].s # None, table'[sweeps'[j].s] # None,
                     table'[sweeps'[j].s].gen = sweeps'[j].gen
              PROVE  Expired(sweeps'[j].now, table'[sweeps'[j].s].seen)
    BY Zenon DEF SweepFound
  <2>2. sweeps'[j] = sweeps[j] /\ sweeps[j] # None
    BY <1>10, Zenon
  <2>3. sweeps[j].s \in Sessions /\ sweeps[j].s # s
    BY <1>9, <2>1, <2>2, Zenon DEF Updated
  <2>4. table'[sweeps[j].s] = table[sweeps[j].s]
    BY <1>9, <2>3, Zenon DEF Updated
  <2> QED
    BY <2>2, <2>4, Zenon DEF SweepFound
<1>17. ReaderKnows'
  <2>1. \A q \in Readers : /\ reader'[q].pc = "evict" /\ table'[reader'[q].s] # None
                           /\ table'[reader'[q].s].gen = reader'[q].gen
                           /\ table'[reader'[q].s].seen = reader'[q].now
                           /\ table'[reader'[q].s].filter = NewSlidingWindowFilter
    BY <1>7, <1>8, <1>9, <1>11, Zenon DEF Updated
  <2> QED
    BY <2>1 DEF ReaderKnows
<1>18. DeliveredIsKept'
  <2>1. \A d \in Datagrams : d[1] \in Sessions
    BY DEF Setting
  <2>2. \A d \in Datagrams : Remembered(d) => Remembered(d)'
    BY <1>3, <1>9, <2>1, Zenon DEF Remembered, Updated, s
  <2>3. \A d \in Datagrams : Outdated(d) => Outdated(d)'
    BY <1>1, <1>7, SameTasks, Zenon DEF Outdated, Working
  <2> QED
    BY <1>1, <2>2, <2>3, Zenon DEF DeliveredIsKept
<1>19. WindowIsDelivered' /\ DeliveredOnce' /\ RejectedIsOld'
  <2>1. NewSlidingWindowFilter.latest = None
    BY DEF NewSlidingWindowFilter
  <2> QED
    BY <1>1, <1>9, <2>1, Zenon DEF WindowIsDelivered, DeliveredOnce, RejectedIsOld, Updated
<1>20. CountIsSize'
  <2> DEFINE S == {q \in Sessions : table[q] # None}
             D == {q \in Sessions : table'[q] # None}
  <2>1. D = S \cup {s} /\ s \notin S
    BY <1>2, <1>3, <1>9 DEF Updated, s
  <2>2. IsFiniteSet(S)
    BY FS_Subset, Zenon DEF Setting
  <2>3. count = Cardinality(S)
    BY Zenon DEF CountIsSize
  <2> HIDE DEF S, D
  <2>4. Cardinality(S \cup {s}) = Cardinality(S) + 1
    BY <2>1, <2>2, FS_AddElement, Zenon
  <2>5. count' = Cardinality(D)
    BY <1>4, <2>1, <2>3, <2>4, Zenon
  <2> QED
    BY <2>5, Zenon DEF CountIsSize, D
<1> QED
  BY <1>12, <1>13, <1>14, <1>15, <1>16, <1>17, <1>18, <1>19, <1>20, Whole, Zenon

\* The datagram the receiver lets through was not delivered before.
LEMMA FreshIsNew ==
  ASSUME Setting, ReplayInv, NEW r \in Readers, Working(r),
         table[reader[r].s] # None => Fresh(table[reader[r].s].filter, reader[r].id)
  PROVE  delivered[<<reader[r].s, reader[r].id>>] = 0
<1> USE DEF ReplayInv
<1> DEFINE d == <<reader[r].s, reader[r].id>>
<1>1. /\ d \in Datagrams /\ d[1] = reader[r].s /\ d[2] = reader[r].id /\ Stamp[d] \in Int
      /\ ValidateTimestamp(Stamp[d], reader[r].now) /\ reader[r].now \in Nat
  BY TaskFields DEF TaskIsValid, Setting
<1> HIDE DEF d
<1>2. ~Remembered(d)
  BY <1>1, Zenon DEF Remembered
<1>3. ~Outdated(d)
  <2>1. ~(Stamp[d] < reader[r].now - Tolerance)
    BY <1>1 DEF ValidateTimestamp, Setting
  <2> QED
    BY <1>1, <2>1, Zenon DEF Outdated
<1>4. ~(delivered[d] > 0) /\ delivered[d] \in Nat
  <2>1. ~(delivered[d] > 0)
    BY <1>1, <1>2, <1>3, Zenon DEF DeliveredIsKept
  <2> QED
    BY <1>1, <2>1 DEF ReplayTyped
<1> QED
  BY <1>4 DEF d

\* What every step that ends a datagram keeps, when the table keeps its entries and their times.
LEMMA TaskEnds ==
  ASSUME Setting, ReplayInv, NEW r \in Readers, reader' = [reader EXCEPT ![r] = Idle],
         table' \in [Sessions -> Entries \cup {None}], delivered' \in [Datagrams -> Nat],
         rejected' \in Datagrams \cup {None},
         \A q \in Sessions : /\ table'[q] # None <=> table[q] # None
                             /\ table'[q] # None => table'[q].gen = table[q].gen /\ table'[q].seen = table[q].seen,
         UNCHANGED <<now, gen, count, misses, sweeps>>
  PROVE  /\ ReplayTyped' /\ TaskIsValid' /\ SeenEarlier' /\ SweptEarlier' /\ SweepFound' /\ ReaderKnows'
         /\ CountIsSize' /\ \A q \in Readers : ~Working(q)'
<1> USE DEF ReplayInv
<1>1. reader' \in [Readers -> Tasks \cup {Idle}] /\ reader'[r] = Idle
  BY DEF ReplayTyped
<1>2. \A q \in Readers : reader'[q].pc = "idle"
  <2>1. Idle.pc = "idle"
    BY DEF Idle
  <2> QED
    BY <1>1, <2>1, Zenon DEF Setting
<1>3. \A q \in Readers : ~Working(q)'
  BY <1>2, Zenon DEF Working
<1>4. ReplayTyped'
  BY <1>1, Zenon DEF ReplayTyped
<1>5. TaskIsValid' /\ SeenEarlier' /\ SweptEarlier'
  BY <1>3, Zenon DEF TaskIsValid, SeenEarlier, SweptEarlier
<1>6. SweepFound'
  <2>1. \A k \in Slots : sweeps[k] # None /\ sweeps[k].s # None => sweeps[k].s \in Sessions
    BY DEF ReplayTyped, Sweeps
  <2> QED
    BY <2>1, Zenon DEF SweepFound
<1>7. ReaderKnows'
  BY <1>2 DEF ReaderKnows
<1>8. CountIsSize'
  <2>1. {q \in Sessions : table'[q] # None} = {q \in Sessions : table[q] # None}
    BY Zenon
  <2> QED
    BY <2>1, Zenon DEF CountIsSize
<1> QED
  BY <1>3, <1>4, <1>5, <1>6, <1>7, <1>8, Zenon

\* Filter, when the window refuses the datagram.
LEMMA RejectStep ==
  ASSUME Setting, ReplayInv, NEW r \in Readers, Working(r), reader' = [reader EXCEPT ![r] = Idle],
         table[reader[r].s] # None, ~Fresh(table[reader[r].s].filter, reader[r].id),
         rejected' = <<reader[r].s, reader[r].id>>, UNCHANGED <<now, table, gen, count, misses, sweeps, delivered>>
  PROVE  ReplayInv'
<1> USE DEF ReplayInv
<1> DEFINE s == reader[r].s
           i == reader[r].id
           f == table[s].filter
<1>1. s \in Sessions /\ i \in Nat /\ <<s, i>> \in Datagrams
  BY TaskFields, Zenon DEF TaskIsValid
<1>2. table \in [Sessions -> Entries \cup {None}] /\ delivered \in [Datagrams -> Nat]
  BY Zenon DEF ReplayTyped
<1>3. f \in Filters
  BY <1>1, <1>2, EntryFields
<1>4. /\ ReplayTyped' /\ TaskIsValid' /\ SeenEarlier' /\ SweptEarlier' /\ SweepFound' /\ ReaderKnows'
      /\ CountIsSize' /\ \A q \in Readers : ~Working(q)'
  <2>1. rejected' \in Datagrams \cup {None}
    BY <1>1
  <2> QED
    BY <1>2, <2>1, TaskEnds, Zenon
<1> HIDE DEF s, i, f
<1>5. DeliveredIsKept'
  <2>1. \A d \in Datagrams : Remembered(d) => Remembered(d)'
    BY Zenon DEF Remembered, Fresh
  <2>2. \A d \in Datagrams : Outdated(d) => Outdated(d)'
    BY <1>4, Zenon DEF Outdated
  <2> QED
    BY <2>1, <2>2, Zenon DEF DeliveredIsKept
<1>6. WindowIsDelivered' /\ DeliveredOnce'
  BY Zenon DEF WindowIsDelivered, DeliveredOnce
<1>7. RejectedIsOld'
  <2>1. f.latest # None /\ f.latest \in Nat /\ i <= f.latest /\ (f.latest - i >= Window \/ f.latest - i \in f.bits)
    <3>1. ~Fresh(f, i)
      BY Zenon DEF s, i, f
    <3> QED
      BY <1>1, <1>3, <3>1, NotFresh, Zenon
  <2>2. /\ <<s, f.latest>> \in Datagrams /\ delivered[<<s, f.latest>>] > 0
        /\ \A b \in f.bits : <<s, f.latest - b>> \in Datagrams /\ delivered[<<s, f.latest - b>>] > 0
    BY <1>1, <2>1, Zenon DEF WindowIsDelivered, s, f
  <2>3. rejected' = <<s, i>>
    BY Zenon DEF s, i
  <2>4. CASE f.latest - i >= Window
    <3>1. <<s, f.latest>>[1] = rejected'[1] /\ <<s, f.latest>>[2] - rejected'[2] >= Window
      BY <2>3, <2>4
    <3> QED
      BY <2>2, <3>1, Zenon DEF RejectedIsOld
  <2>5. CASE f.latest - i \in f.bits
    <3>1. f.latest - (f.latest - i) = i
      BY <1>1, <2>1
    <3>2. delivered[<<s, i>>] > 0
      BY <2>2, <2>5, <3>1, Zenon
    <3> QED
      BY <2>3, <3>2, Zenon DEF RejectedIsOld
  <2> QED
    BY <2>1, <2>4, <2>5
<1> QED
  BY <1>4, <1>5, <1>6, <1>7, Whole, Zenon

\* The window takes the ID of the datagram delivered.
LEMMA TakeStep ==
  ASSUME Setting, ReplayInv, NEW r \in Readers, reader[r].pc = "filter", reader' = [reader EXCEPT ![r] = Idle],
         table[reader[r].s] # None, Fresh(table[reader[r].s].filter, reader[r].id),
         delivered' = [delivered EXCEPT ![<<reader[r].s, reader[r].id>>] = @ + 1], rejected' = None,
         table' = [table EXCEPT ![reader[r].s].filter = CheckAndUpdate(@, reader[r].id)],
         UNCHANGED <<now, gen, count, misses, sweeps>>
  PROVE  ReplayInv'
<1> USE DEF ReplayInv
<1> DEFINE s == reader[r].s
           i == reader[r].id
           f == table[s].filter
           g == CheckAndUpdate(f, i)
<1>1. Working(r)
  BY DEF Working
<1>2. s \in Sessions /\ i \in Nat /\ reader[r].now \in Nat
  BY <1>1, TaskFields, Zenon
<1>3. /\ <<s, i>> \in Datagrams /\ Stamp[<<s, i>>] \in Int
      /\ ValidateTimestamp(Stamp[<<s, i>>], reader[r].now)
  BY <1>1 DEF TaskIsValid, Setting
<1>4. table \in [Sessions -> Entries \cup {None}] /\ delivered \in [Datagrams -> Nat]
  BY Zenon DEF ReplayTyped
<1>5. f \in Filters
  BY <1>2, <1>4, EntryFields
<1>6. Updated(s, table[s].gen, table[s].seen, g)
  BY <1>2, <1>4, Takes, Zenon
<1>7. table[s].seen = reader[r].now
  BY Zenon DEF ReaderKnows
<1>8. delivered[<<s, i>>] = 0
  BY <1>1, FreshIsNew, Zenon
<1>9. g \in Filters /\ g.latest # None /\ ~Fresh(g, i) /\ \A x \in Nat : ~Fresh(f, x) => ~Fresh(g, x)
  BY <1>2, <1>5, WindowRemembers, Zenon
<1>10. /\ delivered' \in [Datagrams -> Nat] /\ delivered'[<<s, i>>] = 1
       /\ \A d \in Datagrams : d # <<s, i>> => delivered'[d] = delivered[d]
  BY <1>3, <1>4, <1>8
<1>11. /\ ReplayTyped' /\ TaskIsValid' /\ SeenEarlier' /\ SweptEarlier' /\ SweepFound' /\ ReaderKnows'
       /\ CountIsSize' /\ \A q \in Readers : ~Working(q)'
  <2>1. \A q \in Sessions : /\ table'[q] # None <=> table[q] # None
                            /\ table'[q] # None => table'[q].gen = table[q].gen /\ table'[q].seen = table[q].seen
    BY <1>6, Zenon DEF Updated
  <2>2. table' \in [Sessions -> Entries \cup {None}] /\ rejected' \in Datagrams \cup {None}
    BY <1>6, Zenon DEF Updated
  <2> QED
    BY <1>10, <2>1, <2>2, TaskEnds, Zenon
<1>12. DeliveredOnce' /\ RejectedIsOld'
  <2>1. DeliveredOnce'
    <3>1. 1 <= 1
      OBVIOUS
    <3> QED
      BY <1>10, <3>1, Zenon DEF DeliveredOnce
  <2> QED
    BY <2>1, Zenon DEF RejectedIsOld
<1> HIDE DEF s, i, f, g
<1>13. DeliveredIsKept'
  <2>1. ASSUME NEW d \in Datagrams, Remembered(d) PROVE Remembered(d)'
    <3>1. d[1] \in Sessions /\ d[2] \in Nat
      BY DEF Setting
    <3>2. CASE d[1] = s
      BY <1>6, <1>9, <2>1, <3>1, <3>2, Zenon DEF Remembered, Updated, f
    <3>3. CASE d[1] # s
      BY <1>6, <2>1, <3>1, <3>3, Zenon DEF Remembered, Updated
    <3> QED
      BY <3>2, <3>3
  <2>2. \A d \in Datagrams : Outdated(d) => Outdated(d)'
    BY <1>11, Zenon DEF Outdated
  <2>3. ASSUME NEW d \in Datagrams, d = <<s, i>> PROVE Remembered(d)'
    <3>1. Stamp[d] <= table[s].seen + Tolerance
      BY <1>3, <1>7, <2>3 DEF ValidateTimestamp
    <3>2. d[1] = s /\ d[2] = i
      BY <2>3
    <3> QED
      BY <1>6, <1>9, <3>1, <3>2, Zenon DEF Remembered, Updated
  <2> QED
    BY <1>10, <2>1, <2>2, <2>3, Zenon DEF DeliveredIsKept
<1>14. WindowIsDelivered'
  <2> DEFINE S == {x \in Nat : <<s, x>> \in Datagrams /\ delivered[<<s, x>>] > 0}
  <2>1. \A d \in Datagrams : delivered[d] > 0 => delivered'[d] > 0
    <3>1. 1 > 0
      OBVIOUS
    <3> QED
      BY <1>10, <3>1, Zenon
  <2>2. \A x \in S \cup {i} : <<s, x>> \in Datagrams /\ delivered'[<<s, x>>] > 0
    <3>1. delivered'[<<s, i>>] > 0
      BY <1>10
    <3> QED
      BY <1>3, <2>1, <3>1, Zenon
  <2>3. f.latest # None => f.latest \in S /\ \A b \in f.bits : f.latest - b \in S
    <3>1. f.latest # None => \A x \in {f.latest} \cup {f.latest - b : b \in f.bits} : x \in Nat
      <4>1. \A x : <<s, x>> \in Datagrams => x \in Nat
        BY DEF Setting
      <4> QED
        BY <1>2, <4>1, Zenon DEF WindowIsDelivered, f, s
    <3> QED
      BY <1>2, <3>1, Zenon DEF WindowIsDelivered, f, s
  <2> HIDE DEF S
  <2>4. S \in SUBSET Nat
    BY DEF S
  <2>5. g.latest \in S \cup {i} /\ \A b \in g.bits : g.latest - b \in S \cup {i}
    BY <1>2, <1>5, <2>3, <2>4, WindowIsGiven, Zenon DEF g
  <2>6. ASSUME NEW q \in Sessions, table'[q] # None, table'[q].filter.latest # None
        PROVE  /\ <<q, table'[q].filter.latest>> \in Datagrams /\ delivered'[<<q, table'[q].filter.latest>>] > 0
               /\ \A b \in table'[q].filter.bits :
                    /\ <<q, table'[q].filter.latest - b>> \in Datagrams
                    /\ delivered'[<<q, table'[q].filter.latest - b>>] > 0
    <3>1. CASE q = s
      BY <1>6, <2>2, <2>5, <3>1, Zenon DEF Updated
    <3>2. CASE q # s
      <4>1. table'[q] = table[q]
        BY <1>6, <3>2, Zenon DEF Updated
      <4> QED
        BY <2>1, <2>6, <4>1, Zenon DEF WindowIsDelivered
    <3> QED
      BY <3>1, <3>2, Zenon
  <2> QED
    BY <2>6, Zenon DEF WindowIsDelivered
<1> QED
  BY <1>11, <1>12, <1>13, <1>14, Whole, Zenon

\* Filter, when the entry went meanwhile: the datagram is too old to be taken again.
LEMMA LostStep ==
  ASSUME Setting, ReplayInv, NEW r \in Readers, reader[r].pc = "filter", reader' = [reader EXCEPT ![r] = Idle],
         table[reader[r].s] = None,
         delivered' = [delivered EXCEPT ![<<reader[r].s, reader[r].id>>] = @ + 1], rejected' = None,
         UNCHANGED <<now, table, gen, count, misses, sweeps>>
  PROVE  ReplayInv'
<1> USE DEF ReplayInv
<1> DEFINE s == reader[r].s
           i == reader[r].id
           n == reader[r].now
<1>1. Working(r)
  BY DEF Working
<1>2. s \in Sessions /\ i \in Nat /\ n \in Nat /\ now \in Nat
  BY <1>1, TaskFields, Zenon DEF ReplayTyped
<1>3. <<s, i>> \in Datagrams /\ Stamp[<<s, i>>] \in Int /\ ValidateTimestamp(Stamp[<<s, i>>], n)
  BY <1>1 DEF TaskIsValid, Setting
<1>4. table \in [Sessions -> Entries \cup {None}] /\ delivered \in [Datagrams -> Nat]
  BY Zenon DEF ReplayTyped
<1>5. Expired(now, n)
  BY Zenon DEF ReaderKnows
<1>6. delivered[<<s, i>>] = 0
  BY <1>1, FreshIsNew, Zenon
<1>7. /\ delivered' \in [Datagrams -> Nat] /\ delivered'[<<s, i>>] = 1
      /\ \A d \in Datagrams : d # <<s, i>> => delivered'[d] = delivered[d]
  BY <1>3, <1>4, <1>6
<1>8. /\ ReplayTyped' /\ TaskIsValid' /\ SeenEarlier' /\ SweptEarlier' /\ SweepFound' /\ ReaderKnows'
      /\ CountIsSize' /\ \A q \in Readers : ~Working(q)'
  <2>1. rejected' \in Datagrams \cup {None}
    OBVIOUS
  <2> QED
    BY <1>4, <1>7, <2>1, TaskEnds, Zenon
<1> HIDE DEF s, i, n
<1>9. 1 <= 1 /\ 1 > 0
  OBVIOUS
<1>10. DeliveredOnce' /\ RejectedIsOld'
  BY <1>7, <1>9, Zenon DEF DeliveredOnce, RejectedIsOld
<1>11. DeliveredIsKept'
  <2>1. \A d \in Datagrams : Remembered(d) => Remembered(d)'
    BY Zenon DEF Remembered, Fresh
  <2>2. \A d \in Datagrams : Outdated(d) => Outdated(d)'
    BY <1>8, Zenon DEF Outdated
  <2>3. ASSUME NEW d \in Datagrams, d = <<s, i>> PROVE Outdated(d)'
    <3>1. Stamp[d] < now - Tolerance
      BY <1>2, <1>3, <1>5, <2>3 DEF ValidateTimestamp, Expired, Setting
    <3> QED
      BY <1>8, <3>1, Zenon DEF Outdated
  <2> QED
    BY <1>7, <2>1, <2>2, <2>3, Zenon DEF DeliveredIsKept
<1>12. WindowIsDelivered'
  <2>1. \A d \in Datagrams : delivered[d] > 0 => delivered'[d] > 0
    BY <1>7, <1>9, Zenon
  <2> QED
    BY <2>1, Zenon DEF WindowIsDelivered
<1> QED
  BY <1>8, <1>10, <1>11, <1>12, Whole, Zenon

\* Filter.
LEMMA FilterStep ==
  ASSUME Setting, ReplayInv, NEW r \in Readers, Filter(r)
  PROVE  ReplayInv'
<1> USE DEF ReplayInv
<1> DEFINE s == reader[r].s
<1>1. /\ Working(r) /\ reader[r].pc = "filter" /\ reader' = [reader EXCEPT ![r] = Idle]
      /\ UNCHANGED <<now, gen, count, misses, sweeps>>
  BY DEF Filter, Working
<1>2. table[s] # None => table[s].gen = reader[r].gen
  BY <1>1, Zenon DEF ReaderKnows
<1>3. CASE table[s] = None
  BY <1>1, <1>3, LostStep, Zenon DEF Filter
<1>4. CASE table[s] # None /\ Fresh(table[s].filter, reader[r].id)
  BY <1>1, <1>2, <1>4, TakeStep, Zenon DEF Filter
<1>5. CASE table[s] # None /\ ~Fresh(table[s].filter, reader[r].id)
  BY <1>1, <1>2, <1>5, RejectStep, Zenon DEF Filter
<1> QED
  BY <1>3, <1>4, <1>5, Zenon

-----------------------------------------------------------------------------
(* The sweeps                                                              *)

\* A function changes in one place.
LEMMA Puts ==
  ASSUME NEW A, NEW B, NEW F \in [A -> B], NEW a \in A, NEW y \in B
  PROVE  /\ [F EXCEPT ![a] = y] \in [A -> B] /\ [F EXCEPT ![a] = y][a] = y
         /\ \A j \in A : j # a => [F EXCEPT ![a] = y][j] = F[j]
OBVIOUS

\* The fields of a sweep change.
LEMMA SweepFields ==
  ASSUME Setting, sweeps \in [Slots -> Sweeps \cup {None}], NEW k \in Slots, sweeps[k] # None,
         NEW D \in SUBSET Sessions, NEW a \in Sessions \cup {None}, NEW b \in Nat,
         sweeps' = [sweeps EXCEPT ![k].todo = D, ![k].s = a, ![k].gen = b]
  PROVE  /\ sweeps' \in [Slots -> Sweeps \cup {None}] /\ sweeps'[k] # None
         /\ sweeps'[k].now = sweeps[k].now /\ sweeps'[k].s = a /\ sweeps'[k].gen = b
         /\ \A j \in Slots : j # k => sweeps'[j] = sweeps[j]
<1> DEFINE x == [sweeps[k] EXCEPT !.todo = D]
           y == [x EXCEPT !.s = a]
           z == [y EXCEPT !.gen = b]
           u == [sweeps EXCEPT ![k] = x]
           v == [u EXCEPT ![k] = y]
<1>1. x \in Sweeps /\ x.now = sweeps[k].now
  BY DEF Sweeps
<1>2. u \in [Slots -> Sweeps \cup {None}] /\ u[k] = x /\ \A j \in Slots : j # k => u[j] = sweeps[j]
  BY <1>1
<1>3. sweeps' = [[u EXCEPT ![k].s = a] EXCEPT ![k].gen = b]
  BY Zenon
<1> HIDE DEF x, u
<1>4. y \in Sweeps /\ y.now = sweeps[k].now /\ y.s = a
  BY <1>1 DEF Sweeps
<1>5. sweeps' = [v EXCEPT ![k].gen = b]
  BY <1>2, <1>3, Zenon
<1> HIDE DEF y
<1>6. v \in [Slots -> Sweeps \cup {None}] /\ v[k] = y /\ \A j \in Slots : j # k => v[j] = sweeps[j]
  <2>1. y \in Sweeps \cup {None}
    BY <1>4
  <2>2. v \in [Slots -> Sweeps \cup {None}] /\ v[k] = y /\ \A j \in Slots : j # k => v[j] = u[j]
    BY <1>2, <2>1, Puts, Zenon
  <2> QED
    BY <1>2, <2>2, Zenon
<1> HIDE DEF v
<1>7. z \in Sweeps /\ z.now = sweeps[k].now /\ z.s = a /\ z.gen = b /\ z # None
  BY <1>4 DEF Sweeps, Setting
<1>8. sweeps' = [v EXCEPT ![k] = z]
  BY <1>5, <1>6, Zenon
<1> HIDE DEF z
<1>9. /\ sweeps' \in [Slots -> Sweeps \cup {None}] /\ sweeps'[k] = z
      /\ \A j \in Slots : j # k => sweeps'[j] = sweeps[j]
  <2>1. z \in Sweeps \cup {None}
    BY <1>7
  <2> DEFINE w == [v EXCEPT ![k] = z]
  <2>2. w \in [Slots -> Sweeps \cup {None}] /\ w[k] = z /\ \A j \in Slots : j # k => w[j] = v[j]
    BY <1>6, <2>1, Puts, Zenon
  <2>3. sweeps' = w
    BY <1>8, Zenon
  <2> HIDE DEF w
  <2> QED
    BY <1>6, <2>2, <2>3, Zenon
<1> QED
  BY <1>7, <1>9, Zenon

\* A sweep's step keeps the rest, when the sweeps keep their times and their entries.
LEMMA SweepsGo ==
  ASSUME Setting, ReplayInv, UNCHANGED <<now, table, gen, count, misses, reader, delivered, rejected>>,
         sweeps' \in [Slots -> Sweeps \cup {None}],
         \A k \in Slots : sweeps'[k] # None =>
           sweeps[k] # None /\ sweeps'[k].now = sweeps[k].now /\ sweeps'[k].gen <= gen,
         SweepFound'
  PROVE  ReplayInv'
<1> USE DEF ReplayInv
<1>1. ReplayTyped'
  BY Zenon DEF ReplayTyped
<1>2. SweptEarlier'
  BY Zenon DEF SweptEarlier, Working
<1>3. TasksStay
  BY Zenon DEF TasksStay, ReplayTyped, Working
<1>4. ReaderKnows'
  BY Zenon DEF ReaderKnows
<1> QED
  BY <1>1, <1>2, <1>3, <1>4, TableStays, Whole, Zenon

\* SweepLook: what is noted is the entry found expired at the sweep's time.
LEMMA LookStep ==
  ASSUME Setting, ReplayInv, NEW k \in Slots, SweepLook(k)
  PROVE  ReplayInv'
<1> USE DEF ReplayInv
<1>1. /\ sweeps[k] # None /\ sweeps \in [Slots -> Sweeps \cup {None}]
      /\ UNCHANGED <<now, table, gen, count, misses, reader, delivered, rejected>>
  BY Zenon DEF SweepLook, ReplayTyped
<1>2. sweeps[k].todo \in SUBSET Sessions
  BY <1>1 DEF Sweeps
<1>3. PICK s \in sweeps[k].todo :
        sweeps' = [sweeps EXCEPT ![k].todo = @ \ {s},
                     ![k].s = IF table[s] # None /\ Expired(sweeps[k].now, table[s].seen) THEN s ELSE None,
                     ![k].gen = IF table[s] # None THEN table[s].gen ELSE 0]
  BY Zenon DEF SweepLook
<1> DEFINE D == sweeps[k].todo \ {s}
           a == IF table[s] # None /\ Expired(sweeps[k].now, table[s].seen) THEN s ELSE None
           b == IF table[s] # None THEN table[s].gen ELSE 0
<1>4. s \in Sessions /\ D \in SUBSET Sessions /\ a \in Sessions \cup {None}
  BY <1>2, <1>3
<1>5. b \in Nat /\ b <= gen
  <2>1. CASE table[s] = None
    BY <2>1 DEF ReplayTyped
  <2>2. CASE table[s] # None
    BY <1>4, <2>2, EntryFields DEF ReplayTyped
  <2> QED
    BY <2>1, <2>2
<1>6. sweeps' = [sweeps EXCEPT ![k].todo = D, ![k].s = a, ![k].gen = b]
  BY <1>3, Zenon
<1>7. a # None => a = s /\ b = table[s].gen /\ table[s] # None /\ Expired(sweeps[k].now, table[s].seen)
  BY <1>4, Zenon DEF Setting
<1> HIDE DEF D, a, b
<1>8. /\ sweeps' \in [Slots -> Sweeps \cup {None}] /\ sweeps'[k] # None
      /\ sweeps'[k].now = sweeps[k].now /\ sweeps'[k].s = a /\ sweeps'[k].gen = b
      /\ \A j \in Slots : j # k => sweeps'[j] = sweeps[j]
  BY <1>1, <1>4, <1>5, <1>6, SweepFields, Zenon
<1>9. SweepFound'
  BY <1>1, <1>7, <1>8, Zenon DEF SweepFound
<1>10. \A j \in Slots : sweeps'[j] # None =>
         sweeps[j] # None /\ sweeps'[j].now = sweeps[j].now /\ sweeps'[j].gen <= gen
  BY <1>1, <1>5, <1>8, Zenon DEF ReplayTyped
<1> QED
  BY <1>1, <1>8, <1>9, <1>10, SweepsGo, Zenon

\* SweepEnds.
LEMMA SweepEndsStep ==
  ASSUME Setting, ReplayInv, NEW k \in Slots, SweepEnds(k)
  PROVE  ReplayInv'
<1> USE DEF ReplayInv
<1>1. /\ sweeps' = [sweeps EXCEPT ![k] = None] /\ sweeps \in [Slots -> Sweeps \cup {None}]
      /\ UNCHANGED <<now, table, gen, count, misses, reader, delivered, rejected>>
  BY Zenon DEF SweepEnds, ReplayTyped
<1>2. /\ sweeps' \in [Slots -> Sweeps \cup {None}]
      /\ \A j \in Slots : sweeps'[j] # None => sweeps'[j] = sweeps[j] /\ sweeps[j] # None
  BY <1>1
<1>3. SweepFound'
  BY <1>1, <1>2, Zenon DEF SweepFound
<1>4. \A j \in Slots : sweeps'[j] # None =>
        sweeps[j] # None /\ sweeps'[j].now = sweeps[j].now /\ sweeps'[j].gen <= gen
  BY <1>2, Zenon DEF ReplayTyped
<1> QED
  BY <1>1, <1>2, <1>3, <1>4, SweepsGo, Zenon

\* SweepDelete: a receiver that is past the table has just refreshed or stored its entry.
LEMMA SweepDeleteStep ==
  ASSUME Setting, ReplayInv, NEW k \in Slots, SweepDelete(k)
  PROVE  ReplayInv'
<1> USE DEF ReplayInv
<1> DEFINE w == sweeps[k]
           x == [w EXCEPT !.s = None]
<1>1. /\ w # None /\ w.s # None /\ sweeps' = [sweeps EXCEPT ![k] = x]
      /\ UNCHANGED <<now, gen, misses, reader, delivered, rejected>>
  BY Zenon DEF SweepDelete
<1>2. sweeps \in [Slots -> Sweeps \cup {None}]
  BY Zenon DEF ReplayTyped
<1>3. /\ w \in Sweeps /\ w.now \in Nat /\ w.s \in Sessions /\ w.gen \in Nat
      /\ x \in Sweeps \cup {None} /\ x.s = None /\ x.now = w.now /\ x.gen = w.gen
  BY <1>1, <1>2 DEF Sweeps
<1> HIDE DEF w, x
<1>4. /\ sweeps' \in [Slots -> Sweeps \cup {None}] /\ sweeps'[k] = x
      /\ \A j \in Slots : j # k => sweeps'[j] = sweeps[j]
  BY <1>1, <1>2, <1>3, Puts, Zenon
<1>5. w.now <= now /\ \A r \in Readers : Working(r) => w.now <= reader[r].now
  BY <1>1, Zenon DEF SweptEarlier, w
<1>6. TasksStay
  BY <1>1, Zenon DEF TasksStay, ReplayTyped, Working
<1>7. \A j \in Slots : sweeps'[j] # None =>
        sweeps[j] # None /\ sweeps'[j].now = sweeps[j].now /\ sweeps'[j].gen = sweeps[j].gen /\
        (sweeps'[j].s # None => sweeps'[j].s = sweeps[j].s)
  BY <1>1, <1>3, <1>4, Zenon DEF w
<1>8. SweptEarlier'
  BY <1>1, <1>7, Zenon DEF SweptEarlier, Working
<1>9. CASE table[w.s] # None /\ table[w.s].gen = w.gen
  <2>1. Expired(w.now, table[w.s].seen)
    BY <1>1, <1>9, Zenon DEF SweepFound, w
  <2>2. table' = [table EXCEPT ![w.s] = None] /\ count' = count - 1
    BY <1>9, Zenon DEF SweepDelete, Delete, w
  <2>3. /\ TaskIsValid' /\ SeenEarlier' /\ DeliveredIsKept' /\ WindowIsDelivered'
        /\ DeliveredOnce' /\ RejectedIsOld' /\ CountIsSize' /\ Gone(w.s)
    BY <1>1, <1>3, <1>5, <1>6, <1>9, <2>1, <2>2, ForgetStep, Zenon
  <2>4. \A q \in Sessions : table'[q] # None => table[q] # None /\ table'[q] = table[q]
    BY <2>3, Zenon DEF Gone
  <2>5. ReplayTyped'
    <3>1. count' \in Int
      BY <2>2 DEF ReplayTyped
    <3> QED
      BY <1>1, <1>4, <1>7, <2>3, <2>4, <3>1, Zenon DEF ReplayTyped, Gone
  <2>6. SweepFound'
    <3>1. \A j \in Slots : sweeps[j] # None /\ sweeps[j].s # None => sweeps[j].s \in Sessions
      BY DEF ReplayTyped, Sweeps
    <3> SUFFICES ASSUME NEW j \in Slots, sweeps'[j] # None, sweeps'[j].s # None, table'[sweeps'[j].s] # None,
                       table'[sweeps'[j].s].gen = sweeps'[j].gen
                PROVE  Expired(sweeps'[j].now, table'[sweeps'[j].s].seen)
      BY Zenon DEF SweepFound
    <3>2. /\ sweeps[j] # None /\ sweeps'[j].s = sweeps[j].s /\ sweeps'[j].now = sweeps[j].now
          /\ sweeps'[j].gen = sweeps[j].gen
      BY <1>7, Zenon
    <3>3. table[sweeps[j].s] # None /\ table'[sweeps[j].s] = table[sweeps[j].s]
      BY <2>4, <3>1, <3>2, Zenon
    <3> QED
      BY <3>2, <3>3, Zenon DEF SweepFound
  <2>7. ReaderKnows'
    <3>1. ASSUME NEW r \in Readers, reader[r].pc \in {"evict", "filter"} PROVE reader[r].s # w.s
      <4>1. Working(r)
        BY <3>1 DEF Working
      <4>2. reader[r].now \in Nat /\ w.now <= reader[r].now
        BY <1>5, <4>1, TaskFields, Zenon
      <4>3. ~Expired(w.now, reader[r].now)
        BY <1>3, <4>2 DEF Expired, Setting
      <4>4. table[reader[r].s] # None => table[reader[r].s].seen = reader[r].now
        BY <3>1, Zenon DEF ReaderKnows
      <4>5. reader[r].s = w.s => FALSE
        BY <1>9, <2>1, <4>3, <4>4, Zenon
      <4> QED
        BY <4>5, Zenon
    <3>2. \A r \in Readers : reader[r].pc \in {"drop", "store", "evict", "filter"} => reader[r].s \in Sessions
      <4>1. \A r \in Readers : reader[r].pc \in {"drop", "store", "evict", "filter"} => Working(r)
        BY DEF Working
      <4> QED
        BY <4>1, TaskFields, Zenon
    <3>3. \A r \in Readers : reader[r].pc \in {"evict", "filter"} => table'[reader[r].s] = table[reader[r].s]
      BY <2>3, <3>1, <3>2, Zenon DEF Gone
    <3>4. \A r \in Readers : reader[r].pc = "store" => table'[reader[r].s] = None
      BY <2>4, <3>2, Zenon DEF ReaderKnows
    <3>5. \A r \in Readers : reader[r].pc = "drop" /\ table'[reader[r].s] # None =>
            table'[reader[r].s].gen = reader[r].gen /\ Expired(reader[r].now, table'[reader[r].s].seen)
      BY <2>4, <3>2, Zenon DEF ReaderKnows
    <3> QED
      BY <1>1, <3>3, <3>4, <3>5, Zenon DEF ReaderKnows
  <2> QED
    BY <1>8, <2>3, <2>5, <2>6, <2>7, Whole, Zenon
<1>10. CASE ~(table[w.s] # None /\ table[w.s].gen = w.gen)
  <2>1. UNCHANGED <<table, count>>
    BY <1>10, Zenon DEF SweepDelete, Delete, w
  <2>2. SweepFound'
    BY <1>7, <2>1, Zenon DEF SweepFound
  <2>3. \A j \in Slots : sweeps'[j] # None =>
          sweeps[j] # None /\ sweeps'[j].now = sweeps[j].now /\ sweeps'[j].gen <= gen
    BY <1>7, Zenon DEF ReplayTyped
  <2> QED
    BY <1>1, <1>4, <2>1, <2>2, <2>3, SweepsGo, Zenon
<1> QED
  BY <1>9, <1>10, Zenon

-----------------------------------------------------------------------------
(* The theorems                                                            *)

\* Nothing is in the table at first.
LEMMA ReplayInit ==
  ASSUME Setting, Init
  PROVE  ReplayInv
<1> USE DEF Init
<1>1. /\ \A s \in Sessions : table[s] = None
      /\ \A k \in Slots : sweeps[k] = None
      /\ \A d \in Datagrams : delivered[d] = 0
      /\ rejected = None
  BY Zenon
<1>2. \A r \in Readers : reader[r].pc = "idle"
  BY DEF Idle
<1>3. ReplayTyped
  BY <1>1 DEF ReplayTyped, Setting
<1>4. TaskIsValid /\ SeenEarlier /\ SweptEarlier /\ SweepFound
  BY <1>1, <1>2, Zenon DEF TaskIsValid, SeenEarlier, SweptEarlier, SweepFound, Working
<1>5. ReaderKnows
  BY <1>2 DEF ReaderKnows
<1>6. DeliveredIsKept /\ WindowIsDelivered /\ DeliveredOnce /\ RejectedIsOld
  <2>1. ~(0 > 0) /\ 0 <= 1
    OBVIOUS
  <2> QED
    BY <1>1, <2>1, Zenon DEF DeliveredIsKept, WindowIsDelivered, DeliveredOnce, RejectedIsOld
<1>7. CountIsSize
  <2>1. {s \in Sessions : table[s] # None} = {}
    BY <1>1, Zenon
  <2> QED
    BY <2>1, FS_EmptySet, Zenon DEF CountIsSize
<1> QED
  BY <1>3, <1>4, <1>5, <1>6, <1>7, Zenon DEF ReplayInv

\* Every step keeps the invariant.
LEMMA ReplayStep ==
  ASSUME Setting, ReplayInv, [Next]_vars
  PROVE  ReplayInv'
<1>1. CASE Next
  <2>1. CASE \E r \in Readers : \/ Receive(r) \/ Load(r) \/ DropExpired(r) \/ Store(r)
                                \/ Evict(r) \/ EvictEnds(r) \/ Filter(r)
    BY <2>1, ReceiveStep, LoadStep, DropStep, StoreStep, EvictStep, EvictEndsStep, FilterStep, Zenon
  <2>2. CASE \E k \in Slots : SweepLook(k) \/ SweepDelete(k) \/ SweepEnds(k)
    BY <2>2, LookStep, SweepDeleteStep, SweepEndsStep, Zenon
  <2> QED
    BY <1>1, <2>1, <2>2, TickStep, Zenon DEF Next
<1>2. CASE UNCHANGED vars
  <2>1. SweepFound'
    BY <1>2, Zenon DEF vars, SweepFound, ReplayInv
  <2>2. \A k \in Slots : sweeps'[k] # None =>
          sweeps[k] # None /\ sweeps'[k].now = sweeps[k].now /\ sweeps'[k].gen <= gen
    BY <1>2, Zenon DEF vars, ReplayTyped, ReplayInv
  <2>3. sweeps' \in [Slots -> Sweeps \cup {None}]
    BY <1>2, Zenon DEF vars, ReplayTyped, ReplayInv
  <2> QED
    BY <1>2, <2>1, <2>2, <2>3, SweepsGo, Zenon DEF vars
<1> QED
  BY <1>1, <1>2, Zenon

\* The invariant of checkReplay, cleanupExpiredSessions and evictOldestIfNeeded: what was delivered is in
\* its session's window, or too old to pass the check of its timestamp.
THEOREM ReplayInvariant == ASSUME Setting PROVE Spec => []ReplayInv
BY ReplayInit, ReplayStep, PTL DEF Spec

\* No datagram is delivered twice, one is rejected only as delivered or as passed by its window, and the
\* counter is the number of windows: for any sessions, datagrams, window, cap and interval, and any
\* retention of at least twice the tolerance.
THEOREM WindowsHold == ASSUME Setting PROVE Spec => [](DeliveredOnce /\ RejectedIsOld /\ CountIsSize)
<1>1. ReplayInv => DeliveredOnce /\ RejectedIsOld /\ CountIsSize
  BY Zenon DEF ReplayInv
<1> QED
  BY <1>1, ReplayInvariant, PTL
=============================================================================
