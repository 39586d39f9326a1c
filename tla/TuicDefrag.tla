------------------------------ MODULE TuicDefrag ------------------------------
(***************************************************************************)
(* Reassembly of fragmented UDP packets in a TUIC association              *)
(* (protocol/tuic/frag.go and the defragger buckets of packet.go): a map   *)
(* from packet IDs to buckets, a bucket of defraggers under its own lock,  *)
(* and consumers (a ReadFrom, a registered receiver) that load a bucket,   *)
(* feed it, feed it again with a buffer that is large enough, and retire   *)
(* it, each in a step of its own.                                          *)
(*                                                                         *)
(* Packet s has the fragments <<s, 0>> .. <<s, Total[s] - 1>>, each of one *)
(* unit of payload; only the first carries the address.  QUIC delivers a   *)
(* fragment once or loses it.  Packet IDs may collide: they are 16 bit.    *)
(***************************************************************************)
EXTENDS Integers, Sequences, FiniteSets

CONSTANTS
  Consumers,
  Room,        \* Room[c]: the payload a consumer's own buffer holds; 0 for a receiver
  Id, Addr, Total,  \* packet ID, source and fragment count of each packet sent
  InOrder,     \* the fragments of a packet arrive in order and complete
  MaxPrunes,   \* bound: times the idle timeout expires defraggers
  CanClose,    \* the association may be closed
  None

Sends == 1..Len(Id)
Frags == UNION {{s} \X (0..Total[s] - 1) : s \in Sends}

VARIABLES
  pending,   \* fragments not delivered
  map,       \* q.deFraggers: the bucket of a packet ID, None if absent
  buckets,   \* the defraggers of every bucket made so far
  pc,        \* consumers: "idle", "load", "sweep", "feed", "again", "retire", "delete"
  msg, bkt,  \* the fragment and the bucket a consumer works on
  need,      \* the length feed asked for
  got,       \* the packet a consumer assembled
  releases,  \* how often the buffer of each fragment was released
  prunes,
  closed

vars == <<pending, map, buckets, pc, msg, bkt, need, got, releases, prunes, closed>>

Ids == {Id[s] : s \in Sends}

TypeOK ==
  /\ pending \subseteq Frags
  /\ map \in [Ids -> 1..Len(buckets) \cup {None}]
  /\ \A b \in 1..Len(buckets) : \A i \in 1..Len(buckets[b]) :
       LET d == buckets[b][i] IN d.count = Cardinality({j \in 1..Len(d.frags) : d.frags[j] # None})
  /\ pc \in [Consumers -> {"idle", "load", "sweep", "feed", "again", "retire", "delete"}]
  /\ msg \in [Consumers -> Frags \cup {None}]
  /\ bkt \in [Consumers -> 1..Len(buckets) \cup {None}]
  /\ releases \in [Frags -> Nat]

Init ==
  /\ pending = Frags
  /\ map = [i \in Ids |-> None]
  /\ buckets = <<>>
  /\ pc = [c \in Consumers |-> "idle"]
  /\ msg = [c \in Consumers |-> None]
  /\ bkt = [c \in Consumers |-> None]
  /\ need = [c \in Consumers |-> 0]
  /\ got = [c \in Consumers |-> None]
  /\ releases = [f \in Frags |-> 0]
  /\ prunes = 0
  /\ closed = FALSE

ReleaseAll(fs) == releases' = [f \in Frags |-> releases[f] + IF f \in fs THEN 1 ELSE 0]

-----------------------------------------------------------------------------
(* A defragger                                                             *)

NewDeFragger == [id |-> 0, frags |-> <<>>, count |-> 0, first |-> None]

Held(d) == {d.frags[i] : i \in 1..Len(d.frags)} \ {None}

HeldIn(ds) == UNION {Held(ds[i]) : i \in 1..Len(ds)}

\* Mutant of Matches: a first fragment is not compared by its source.
MatchesAnySource(d, m) ==
  \/ d.count = 0
  \/ /\ d.id = Id[m[1]] /\ Len(d.frags) = Total[m[1]]
     /\ m[2] = 0 \/ d.frags[m[2] + 1] = None

Matches(d, m) ==
  \/ d.count = 0
  \/ /\ d.id = Id[m[1]] /\ Len(d.frags) = Total[m[1]]
     /\ IF m[2] = 0 THEN d.first \in {None, Addr[m[1]]} ELSE d.frags[m[2] + 1] = None

Ready(d) == d.count = Len(d.frags) /\ d.first # None

\* Feed up to the test for completeness.
Absorb(d, m) ==
  LET e == IF d.count = 0
           THEN [NewDeFragger EXCEPT !.id = Id[m[1]], !.frags = [i \in 1..Total[m[1]] |-> None]]
           ELSE d
      f == IF m[2] = 0 THEN [e EXCEPT !.first = Addr[m[1]]] ELSE e
  IN  IF f.frags[m[2] + 1] = None
      THEN [f EXCEPT !.frags[m[2] + 1] = m, !.count = @ + 1]
      ELSE f

-----------------------------------------------------------------------------
(* A bucket                                                                *)

Lowest(S) == CHOOSE i \in S : \A j \in S : i <= j

\* The defragger a fragment goes to: Len(ds) + 1 is a new one, 0 drops it.
Select(ds, m) ==
  LET cand  == {i \in 1..Len(ds) : Matches(ds[i], m)}
      same  == {i \in cand : ds[i].first = Addr[m[1]]}
      open  == {i \in cand : ds[i].first = None}
      known == cand \ open
  IN  CASE cand = {} -> Len(ds) + 1
        [] Cardinality(cand) = 1 -> Lowest(cand)
        [] Cardinality(cand) > 1 /\ m[2] = 0 ->
             IF same # {} THEN Lowest(same) ELSE IF open # {} THEN Lowest(open) ELSE Len(ds) + 1
        [] OTHER -> IF Cardinality(known) = 1 THEN Lowest(known) ELSE 0

\* The last defragger takes the place of the one removed.
RemoveAt(ds, i) == SubSeq([ds EXCEPT ![i] = ds[Len(ds)]], 1, Len(ds) - 1)

\* feed(packet, p): the bucket after it, what is released, what is assembled
\* and the length of a packet that is ready and does not fit.
FeedPacket(ds, m, room) ==
  LET k == Select(ds, m)
      es == IF k > Len(ds) THEN Append(ds, NewDeFragger) ELSE ds
      d == Absorb(es[k], m)
      fits == Ready(d) /\ d.count <= room
  IN  CASE k = 0 -> [ds |-> ds, rel |-> {m}, out |-> None, need |-> 0]
        [] k > 0 /\ Ready(es[k]) /\ room < es[k].count ->
             [ds |-> es, rel |-> {}, out |-> None, need |-> es[k].count]
        [] OTHER ->
             [ds |-> IF fits THEN RemoveAt(es, k) ELSE [es EXCEPT ![k] = d],
              rel |-> (IF fits THEN Held(d) ELSE {}) \cup (IF m \in Held(d) THEN {} ELSE {m}),
              out |-> IF fits THEN [data |-> d.frags, from |-> d.first] ELSE None,
              need |-> IF Ready(d) THEN d.count ELSE 0]

\* feed(nil, buffer): the first packet that is ready and fits.
FeedNil(ds, room) ==
  LET fit == {i \in 1..Len(ds) : Ready(ds[i]) /\ ds[i].count <= room}
      d == ds[Lowest(fit)]
  IN  IF fit = {}
      THEN [ds |-> ds, rel |-> {}, out |-> None, need |-> 0]
      ELSE [ds |-> RemoveAt(ds, Lowest(fit)), rel |-> Held(d),
            out |-> [data |-> d.frags, from |-> d.first], need |-> d.count]

-----------------------------------------------------------------------------
(* ReadFrom and deliverPacket                                              *)

Step(c, to) == pc' = [pc EXCEPT ![c] = to]

\* A fragment reaches a consumer.
Take(c, f) ==
  /\ pc[c] = "idle"
  /\ f \in pending
  /\ InOrder => \A i \in 0..f[2] - 1 : <<f[1], i>> \notin pending
  /\ pending' = pending \ {f}
  /\ got' = [got EXCEPT ![c] = None]
  /\ IF closed
     THEN ReleaseAll({f}) /\ UNCHANGED <<pc, msg>>
     ELSE Step(c, "load") /\ msg' = [msg EXCEPT ![c] = f] /\ UNCHANGED releases
  /\ UNCHANGED <<map, buckets, bkt, need, prunes, closed>>

\* maybeCleanupDeFraggers on one bucket: the defraggers in S are idle too long.
Prune(c, i) ==
  /\ pc[c] = "load"
  /\ prunes < MaxPrunes
  /\ map[i] # None
  /\ LET ds == buckets[map[i]]
     IN  \E S \in SUBSET (1..Len(ds)) :
           LET live(d) == \E j \in (1..Len(ds)) \ S : ds[j] = d
               rest == SelectSeq(ds, live)
           IN  /\ ReleaseAll(HeldIn(ds) \ HeldIn(rest))
               /\ buckets' = [buckets EXCEPT ![map[i]] = rest]
               /\ IF rest = <<>>
                  THEN Step(c, "sweep") /\ bkt' = [bkt EXCEPT ![c] = map[i]]
                  ELSE UNCHANGED <<pc, bkt>>
  /\ prunes' = prunes + 1
  /\ UNCHANGED <<pending, map, msg, need, got, closed>>

Unmap(b) == [i \in Ids |-> IF map[i] = b THEN None ELSE map[i]]

\* CompareAndDelete of the bucket found empty.
Sweep(c) ==
  /\ pc[c] = "sweep"
  /\ map' = Unmap(bkt[c])
  /\ Step(c, "load")
  /\ bkt' = [bkt EXCEPT ![c] = None]
  /\ UNCHANGED <<pending, buckets, msg, need, got, releases, prunes, closed>>

\* Load, or LoadOrStore of an empty bucket.
Load(c) ==
  /\ pc[c] = "load"
  /\ Step(c, "feed")
  /\ LET i == Id[msg[c][1]]
     IN  IF map[i] # None
         THEN bkt' = [bkt EXCEPT ![c] = map[i]] /\ UNCHANGED <<map, buckets>>
         ELSE /\ buckets' = Append(buckets, <<>>)
              /\ map' = [map EXCEPT ![i] = Len(buckets) + 1]
              /\ bkt' = [bkt EXCEPT ![c] = Len(buckets) + 1]
  /\ UNCHANGED <<pending, msg, need, got, releases, prunes, closed>>

\* What the result of a feed means to its consumer.
Fed(c, r, short) ==
  /\ buckets' = [buckets EXCEPT ![bkt[c]] = r.ds]
  /\ ReleaseAll(r.rel)
  /\ got' = [got EXCEPT ![c] = r.out]
  /\ need' = [need EXCEPT ![c] = IF short THEN r.need ELSE 0]
  /\ msg' = [msg EXCEPT ![c] = None]
  /\ Step(c, IF r.out # None THEN "retire" ELSE IF short THEN "again" ELSE "idle")
  /\ bkt' = IF r.out = None /\ ~short THEN [bkt EXCEPT ![c] = None] ELSE bkt
  /\ UNCHANGED <<pending, map, prunes, closed>>

Feed(c) ==
  /\ pc[c] = "feed"
  /\ LET r == FeedPacket(buckets[bkt[c]], msg[c], Room[c])
     IN  Fed(c, r, r.out = None /\ r.need > Room[c])

\* The packet is ready: again, with a buffer of the length asked for.
FeedAgain(c) ==
  /\ pc[c] = "again"
  /\ Fed(c, FeedNil(buckets[bkt[c]], need[c]), FALSE)

\* bucket.len() is read; the deletion follows in a step of its own.
Retire(c) ==
  /\ pc[c] = "retire"
  /\ IF buckets[bkt[c]] = <<>>
     THEN Step(c, "delete") /\ UNCHANGED bkt
     ELSE Step(c, "idle") /\ bkt' = [bkt EXCEPT ![c] = None]
  /\ UNCHANGED <<pending, map, buckets, msg, need, got, releases, prunes, closed>>

Delete(c) ==
  /\ pc[c] = "delete"
  /\ map' = Unmap(bkt[c])
  /\ Step(c, "idle")
  /\ bkt' = [bkt EXCEPT ![c] = None]
  /\ UNCHANGED <<pending, buckets, msg, need, got, releases, prunes, closed>>

\* close: clearDeFraggers.
Close ==
  /\ CanClose /\ ~closed
  /\ closed' = TRUE
  /\ LET mapped == {map[i] : i \in Ids} \ {None}
     IN  /\ ReleaseAll(UNION {HeldIn(buckets[b]) : b \in mapped})
         /\ buckets' = [b \in 1..Len(buckets) |-> IF b \in mapped THEN <<>> ELSE buckets[b]]
  /\ map' = [i \in Ids |-> None]
  /\ UNCHANGED <<pending, pc, msg, bkt, need, got, prunes>>

Next ==
  \/ \E c \in Consumers :
       \/ \E f \in Frags : Take(c, f)
       \/ \E i \in Ids : Prune(c, i)
       \/ Sweep(c) \/ Load(c) \/ Feed(c) \/ FeedAgain(c) \/ Retire(c) \/ Delete(c)
  \/ Close

Spec == Init /\ [][Next]_vars

-----------------------------------------------------------------------------
(* What a consumer gets is one packet, whole, in order and with its own    *)
(* source (deFragger.Feed; deFraggerBucket.feed drops what it cannot       *)
(* place).                                                                 *)
AssembledIsPacket ==
  \A c \in Consumers : got[c] # None =>
    \E s \in Sends : got[c] = [data |-> [i \in 1..Total[s] |-> <<s, i - 1>>], from |-> Addr[s]]

(* The buffer of a fragment is released at most once, and never while a    *)
(* defragger holds it, whichever consumer, timeout or Close is about.      *)
BufferReleasedOnce ==
  \A f \in Frags :
    releases[f] + Cardinality({<<b, i>> \in (1..Len(buckets)) \X (1..Cardinality(Frags)) :
                                 i <= Len(buckets[b]) /\ f \in Held(buckets[b][i])}) <= 1

(* A bucket that holds fragments is found under its packet ID: the missing *)
(* fragments can still reach it and the idle timeout releases it (what the *)
(* comment in deliverPacket says of retiring a bucket).                    *)
FragmentsReachable ==
  \A b \in 1..Len(buckets) : buckets[b] # <<>> => \E i \in Ids : map[i] = b

(* When no consumer is at work, no packet that is complete is left behind. *)
CompleteIsDelivered ==
  (\A c \in Consumers : pc[c] = "idle") =>
    \A b \in 1..Len(buckets) : \A i \in 1..Len(buckets[b]) : ~Ready(buckets[b][i])
=============================================================================
