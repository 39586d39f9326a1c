-------------------------- MODULE ClientRing_proofs -------------------------
(***************************************************************************)
(* Proofs that the failover ring keeps its cursors on live list elements,  *)
(* loses no client, stays empty once closed, tries every client of a       *)
(* failing walk, and treats each client as RingClient allows, for any      *)
(* number of clients, callers and closers; and that a JuicityClient, for   *)
(* any number of connections and any capacity of its authentication        *)
(* channel, is a client the ring can rely on and holds nothing once it is  *)
(* retired.                                                                *)
(***************************************************************************)
EXTENDS ClientRing, TLAPS

CONSTANTS MaxConns, AuthCap
VARIABLES done, hook, quic, state, sock, holding, stage, auth, my, result, chan, writer, user, timer, late
Juicity == INSTANCE JuicityClient WITH pc <- stage

-----------------------------------------------------------------------------
(* The list operations                                                     *)

\* What a sequence holds.
LEMMA SeqHolds ==
  ASSUME NEW S, NEW s \in Seq(S)
  PROVE  Len(s) \in Nat /\ \A i \in 1..Len(s) : s[i] \in S
OBVIOUS

\* What a concatenation holds.
LEMMA ConcatShape ==
  ASSUME NEW S, NEW s \in Seq(S), NEW t \in Seq(S)
  PROVE  /\ s \o t \in Seq(S)
         /\ Len(s \o t) = Len(s) + Len(t)
         /\ \A j \in 1..Len(s) : (s \o t)[j] = s[j]
         /\ \A j \in (Len(s) + 1)..(Len(s) + Len(t)) : (s \o t)[j] = t[j - Len(s)]
OBVIOUS

\* InsertAt shifts the tail by one and puts the element in the gap.
LEMMA InsertAtShape ==
  ASSUME NEW S, NEW s \in Seq(S), NEW i \in 1..(Len(s) + 1), NEW e \in S
  PROVE  /\ InsertAt(s, i, e) \in Seq(S)
         /\ Len(InsertAt(s, i, e)) = Len(s) + 1
         /\ \A j \in 1..(i - 1) : InsertAt(s, i, e)[j] = s[j]
         /\ InsertAt(s, i, e)[i] = e
         /\ \A j \in i..Len(s) : InsertAt(s, i, e)[j + 1] = s[j]
<1> DEFINE l == SubSeq(s, 1, i - 1)
           r == SubSeq(s, i, Len(s))
           m == l \o <<e>>
<1>1. /\ l \in Seq(S)
      /\ Len(l) = i - 1
      /\ \A j \in 1..(i - 1) : l[j] = s[j]
  OBVIOUS
<1>2. /\ r \in Seq(S)
      /\ Len(r) = Len(s) - i + 1
      /\ \A j \in 1..(Len(s) - i + 1) : r[j] = s[i + j - 1]
  OBVIOUS
<1> HIDE DEF l, r
<1>3. /\ m \in Seq(S)
      /\ Len(m) = i
      /\ \A j \in 1..(i - 1) : m[j] = s[j]
      /\ m[i] = e
  BY <1>1
<1> HIDE DEF m
<1>4. InsertAt(s, i, e) = m \o r
  BY Zenon DEF InsertAt, l, r, m
<1>5. /\ m \o r \in Seq(S)
      /\ Len(m \o r) = Len(s) + 1
      /\ \A j \in 1..i : (m \o r)[j] = m[j]
  <2>1. /\ m \o r \in Seq(S)
        /\ Len(m \o r) = Len(m) + Len(r)
        /\ \A j \in 1..Len(m) : (m \o r)[j] = m[j]
    BY <1>2, <1>3, ConcatShape, ZenonT(30)
  <2> QED
    BY <1>2, <1>3, <2>1
<1>6. ASSUME NEW j \in i..Len(s)
      PROVE  (m \o r)[j + 1] = s[j]
  <2>1. /\ j + 1 - i \in 1..(Len(s) - i + 1)
        /\ (m \o r)[j + 1] = r[j + 1 - i]
    BY <1>2, <1>3
  <2>2. r[j + 1 - i] = s[i + (j + 1 - i) - 1]
    BY <1>2, <2>1, Zenon
  <2>3. i + (j + 1 - i) - 1 = j
    OBVIOUS
  <2> QED
    BY <2>1, <2>2, <2>3, Zenon
<1> QED
  BY <1>3, <1>4, <1>5, <1>6

\* RemoveAt closes the gap.
LEMMA RemoveAtShape ==
  ASSUME NEW S, NEW s \in Seq(S), NEW i \in 1..Len(s)
  PROVE  /\ RemoveAt(s, i) \in Seq(S)
         /\ Len(RemoveAt(s, i)) = Len(s) - 1
         /\ \A j \in 1..(i - 1) : RemoveAt(s, i)[j] = s[j]
         /\ \A j \in i..(Len(s) - 1) : RemoveAt(s, i)[j] = s[j + 1]
<1> DEFINE l == SubSeq(s, 1, i - 1)
           r == SubSeq(s, i + 1, Len(s))
<1>1. /\ l \in Seq(S)
      /\ Len(l) = i - 1
      /\ \A j \in 1..(i - 1) : l[j] = s[j]
  OBVIOUS
<1>2. /\ r \in Seq(S)
      /\ Len(r) = Len(s) - i
      /\ \A j \in 1..(Len(s) - i) : r[j] = s[i + j]
  OBVIOUS
<1> HIDE DEF l, r
<1>3. RemoveAt(s, i) = l \o r
  BY Zenon DEF RemoveAt, l, r
<1>4. /\ l \o r \in Seq(S)
      /\ Len(l \o r) = Len(s) - 1
      /\ \A j \in 1..(i - 1) : (l \o r)[j] = s[j]
  <2>0. l \o r \in Seq(S) /\ Len(l \o r) = Len(l) + Len(r)
    BY Zenon, <1>1, <1>2, ConcatShape
  <2>1. Len(l \o r) = Len(s) - 1
    BY <1>1, <1>2, <2>0
  <2>2. ASSUME NEW j \in 1..(i - 1) PROVE (l \o r)[j] = s[j]
    BY <1>1, <1>2
  <2> QED
    BY <2>0, <2>1, <2>2, Zenon
<1>5. ASSUME NEW j \in i..(Len(s) - 1)
      PROVE  (l \o r)[j] = s[j + 1]
  <2>1. /\ j - (i - 1) \in 1..(Len(s) - i)
        /\ (l \o r)[j] = r[j - (i - 1)]
    BY <1>1, <1>2
  <2>2. r[j - (i - 1)] = s[i + (j - (i - 1))]
    BY <1>2, <2>1, Zenon
  <2>3. i + (j - (i - 1)) = j + 1
    OBVIOUS
  <2> QED
    BY <2>1, <2>2, <2>3, Zenon
<1> QED
  BY <1>3, <1>4, <1>5, Zenon

-----------------------------------------------------------------------------
(* The inductive invariant                                                 *)

\* No client is in the list twice.
NoDuplicates ==
  \A i, j \in 1..Len(ring) : ring[i] = ring[j] => i = j

\* A process past Acquire holds the permit, any other has no cursor; a walk
\* that has tried a client, or has inserted one, stands on it.
PermitProtocol ==
  \A p \in Procs :
    /\ pc[p] \in {"try", "failed", "new", "first"} => permit = p
    /\ pc[p] \in {"idle", "acquire"} => cursor[p] = Nil
    /\ pc[p] \in {"failed", "first"} => cursor[p] # Nil

\* Only constructed clients are in the list or in a snapshot of Close, and
\* only a closed client's hook is waiting.
OnlyBuiltClients ==
  /\ \A c \in Clients :
       InRing(c) \/ (\E k \in Closers : c \in closing[k]) => client[c] # "none"
  /\ \A c \in removals : client[c] = "closed"

RingInv ==
  /\ TypeOK
  /\ NoDuplicates
  /\ PermitProtocol
  /\ OnlyBuiltClients
  /\ CursorsInRing
  /\ NoClientLost
  /\ ClosedIsEmpty

USE SetsAssumption

\* An element of the list is at its position.
LEMMA PositionOf ==
  ASSUME TypeOK, NEW c \in Clients, InRing(c)
  PROVE  Position(c) \in 1..Len(ring) /\ ring[Position(c)] = c
BY Zenon DEF InRing, Contains, Position

\* Next stays in the list.
LEMMA NextInRing ==
  ASSUME TypeOK, NEW c \in Clients, InRing(c)
  PROVE  NextOf(c) = Nil \/ (NextOf(c) \in Clients /\ InRing(NextOf(c)))
<1>0. ring \in Seq(Clients) /\ current \in Clients \cup {Nil}
  BY Zenon DEF TypeOK
<1>1. CASE Position(c) = Len(ring)
  BY <1>1, Zenon DEF NextOf
<1>2. CASE Position(c) # Len(ring)
  <2>1. Position(c) + 1 \in 1..Len(ring)
    BY <1>0, <1>2, PositionOf
  <2>2. NextOf(c) = ring[Position(c) + 1]
    BY <1>2, Zenon DEF NextOf
  <2> QED
    BY <1>0, <2>1, <2>2 DEF InRing, Contains
<1> QED
  BY <1>1, <1>2, Zenon

\* The walk's next element is in the list.
LEMMA FollowingInRing ==
  ASSUME TypeOK, NEW c \in Clients, InRing(c)
  PROVE  Following(c) \in Clients /\ InRing(Following(c))
<1>0. ring \in Seq(Clients) /\ current \in Clients \cup {Nil}
  BY Zenon DEF TypeOK
<1>1. CASE NextOf(c) # Nil
  BY <1>1, NextInRing, Zenon DEF Following
<1>2. CASE NextOf(c) = Nil
  <2>1. Len(ring) # 0 /\ ring # <<>>
    BY <1>0, PositionOf
  <2>2. Following(c) = ring[1] /\ 1 \in 1..Len(ring)
    BY <1>0, <1>2, <2>1 DEF Following, FrontElem
  <2> QED
    BY <1>0, <2>2 DEF InRing, Contains
<1> QED
  BY <1>1, <1>2, Zenon

\* Inserting a client that is not in the list adds exactly that client.
LEMMA InsertedRing ==
  ASSUME TypeOK, NoDuplicates, CursorsInRing,
         NEW c \in Clients, ~InRing(c)
  PROVE  /\ Inserted(c) \in Seq(Clients)
         /\ \A d \in Clients : Contains(Inserted(c), d) <=> (InRing(d) \/ d = c)
         /\ \A i, j \in 1..Len(Inserted(c)) : Inserted(c)[i] = Inserted(c)[j] => i = j
<1>0. ring \in Seq(Clients) /\ current \in Clients \cup {Nil}
  BY Zenon DEF TypeOK
<1> DEFINE i == IF current = Nil THEN Len(ring) + 1 ELSE Position(current) + 1
<1>1. i \in 1..(Len(ring) + 1)
  BY <1>0, PositionOf DEF CursorsInRing
<1>3. /\ Inserted(c) \in Seq(Clients)
      /\ Len(Inserted(c)) = Len(ring) + 1
      /\ \A j \in 1..(i - 1) : Inserted(c)[j] = ring[j]
      /\ Inserted(c)[i] = c
      /\ \A j \in i..Len(ring) : Inserted(c)[j + 1] = ring[j]
  <2>1. CASE current = Nil
    BY <1>0, <2>1 DEF Inserted
  <2>2. CASE current # Nil
    BY SMTT(30), <1>0, <1>1, <2>2, InsertAtShape DEF Inserted
  <2> QED
    BY <2>1, <2>2, Zenon
<1> HIDE DEF i
<1>4. ASSUME NEW d \in Clients
      PROVE  Contains(Inserted(c), d) <=> (InRing(d) \/ d = c)
  <2>1. ASSUME Contains(Inserted(c), d) PROVE InRing(d) \/ d = c
    <3>1. PICK j \in 1..(Len(ring) + 1) : Inserted(c)[j] = d
      BY <1>3, <2>1, Zenon DEF Contains
    <3>2. CASE j \in 1..(i - 1)
      BY SMTT(30), <1>0, <1>1, <1>3, <3>1, <3>2, Zenon DEF InRing, Contains
    <3>3. CASE j = i
      BY <1>3, <3>1, <3>3, Zenon
    <3>4. CASE j \in (i + 1)..(Len(ring) + 1)
      <4>1. j - 1 \in i..Len(ring) /\ (j - 1) + 1 = j
        BY <1>0, <1>1, <3>4
      <4>2. ring[j - 1] = d
        BY <1>3, <3>1, <4>1, Zenon
      <4> QED
        BY SMTT(30), <1>0, <1>1, <4>1, <4>2, Zenon DEF InRing, Contains
    <3> QED
      BY <1>0, <3>2, <3>3, <3>4, <1>1
  <2>2. ASSUME InRing(d) PROVE Contains(Inserted(c), d)
    <3>1. PICK j \in 1..Len(ring) : ring[j] = d
      BY <2>2, Zenon DEF InRing, Contains
    <3>2. CASE j < i
      <4>1. j \in 1..(i - 1) /\ j \in 1..Len(Inserted(c))
        BY SMTT(30), <1>0, <1>1, <1>3, <3>2, Zenon
      <4> QED
        BY <1>3, <3>1, <4>1, Zenon DEF Contains
    <3>3. CASE j >= i
      <4>1. j + 1 \in 1..(Len(ring) + 1) /\ Inserted(c)[j + 1] = d
        BY SMTT(30), <1>0, <1>1, <1>3, <3>1, <3>3, Zenon
      <4> QED
        BY <4>1, <1>3, Zenon DEF Contains
    <3> QED
      BY SMTT(30), <1>0, <3>2, <3>3, <1>1, Zenon
  <2>3. Contains(Inserted(c), c)
    BY <1>0, <1>1, <1>3, Zenon DEF Contains
  <2> QED
    BY <2>1, <2>2, <2>3, Zenon
<1>5. ASSUME NEW a \in 1..Len(Inserted(c)), NEW b \in 1..Len(Inserted(c)),
             Inserted(c)[a] = Inserted(c)[b]
      PROVE  a = b
  <2> DEFINE old(n) == IF n < i THEN n ELSE n - 1
  <2>1. ASSUME NEW n \in 1..(Len(ring) + 1), n # i
        PROVE  old(n) \in 1..Len(ring) /\ ring[old(n)] = Inserted(c)[n]
    <3>1. CASE n < i
      BY SMTT(30), <1>0, <1>1, <1>3, <3>1, Zenon
    <3>2. CASE n > i
      <4>1. n - 1 \in i..Len(ring) /\ (n - 1) + 1 = n
        BY <1>0, <1>1, <3>2
      <4> QED
        BY SMTT(30), <1>0, <1>1, <1>3, <3>2, <4>1
    <3> QED
      BY SMTT(30), <1>0, <2>1, <3>1, <3>2, <1>1, Zenon
  <2>2. ASSUME NEW n \in 1..(Len(ring) + 1), n # i
        PROVE  Inserted(c)[n] # c
    BY <2>1, <2>2, Zenon DEF InRing, Contains
  <2>3. CASE a = i \/ b = i
    BY <1>3, <1>5, <2>2, <2>3, Zenon
  <2>4. CASE a # i /\ b # i
    <3>1. old(a) = old(b)
      BY SMTT(30), <1>3, <1>5, <2>1, <2>4, Zenon DEF NoDuplicates
    <3> QED
      BY SMTT(30), <1>0, <1>1, <1>3, <2>4, <3>1, Zenon
  <2> QED
    BY <2>3, <2>4, Zenon
<1> QED
  BY <1>3, <1>4, <1>5, Zenon

\* Removing an element removes exactly that client.
LEMMA RemovedRing ==
  ASSUME TypeOK, NoDuplicates, NEW c \in Clients, InRing(c)
  PROVE  LET r == RemoveAt(ring, Position(c)) IN
         /\ r \in Seq(Clients)
         /\ \A d \in Clients : Contains(r, d) <=> (InRing(d) /\ d # c)
         /\ \A i, j \in 1..Len(r) : r[i] = r[j] => i = j
<1>0. ring \in Seq(Clients) /\ current \in Clients \cup {Nil}
  BY Zenon DEF TypeOK
<1> DEFINE i == Position(c)
           r == RemoveAt(ring, i)
<1>1. i \in 1..Len(ring) /\ ring[i] = c
  BY PositionOf, Zenon
<1> HIDE DEF i
<1>2. /\ r \in Seq(Clients)
      /\ Len(r) = Len(ring) - 1
      /\ \A j \in 1..(i - 1) : r[j] = ring[j]
      /\ \A j \in i..(Len(ring) - 1) : r[j] = ring[j + 1]
  BY <1>0, <1>1, RemoveAtShape, Zenon
<1> HIDE DEF r
<1>3. ASSUME NEW d \in Clients
      PROVE  Contains(r, d) <=> (InRing(d) /\ d # c)
  <2>1. ASSUME Contains(r, d) PROVE InRing(d) /\ d # c
    <3>1. PICK j \in 1..(Len(ring) - 1) : r[j] = d
      BY <1>2, <2>1, Zenon DEF Contains
    <3> DEFINE n == IF j < i THEN j ELSE j + 1
    <3>2. n \in 1..Len(ring) /\ ring[n] = d /\ n # i
      BY SMTT(30), <1>0, <1>1, <1>2, <3>1, Zenon
    <3> QED
      BY <1>1, <3>2, Zenon DEF InRing, Contains, NoDuplicates
  <2>2. ASSUME InRing(d), d # c PROVE Contains(r, d)
    <3>1. PICK j \in 1..Len(ring) : ring[j] = d
      BY <2>2, Zenon DEF InRing, Contains
    <3>2. CASE j < i
      <4>1. j \in 1..(i - 1) /\ j \in 1..Len(r)
        BY <1>0, <1>1, <1>2, <3>2
      <4> QED
        BY <1>2, <3>1, <4>1, Zenon DEF Contains
    <3>3. CASE j > i
      <4>1. j - 1 \in 1..(Len(ring) - 1) /\ r[j - 1] = d
        BY SMTT(30), <1>0, <1>1, <1>2, <3>1, <3>3, Zenon
      <4> QED
        BY <4>1, <1>2, Zenon DEF Contains
    <3>4. j # i
      BY <1>1, <3>1, <2>2, Zenon
    <3> QED
      BY SMTT(30), <1>0, <3>2, <3>3, <3>4, <1>1, Zenon
  <2> QED
    BY <2>1, <2>2, Zenon
<1>4. ASSUME NEW a \in 1..Len(r), NEW b \in 1..Len(r), r[a] = r[b]
      PROVE  a = b
  BY <1>0, <1>1, <1>2, <1>4 DEF NoDuplicates
<1> QED
  BY SMTT(30), <1>2, <1>3, <1>4, Zenon DEF r, i

-----------------------------------------------------------------------------
(* One lemma per group of actions: the invariant is preserved.             *)

LEMMA InitRingInv == Init => RingInv
<1> SUFFICES ASSUME Init PROVE RingInv
  OBVIOUS
<1>1. TypeOK
  <2>1. ring \in Seq(Clients) /\ closing \in [Closers -> SUBSET Clients]
    BY DEF Init
  <2>2. tried \in [Procs -> SUBSET Clients] /\ capability \in [Clients -> Reports \cup {Unknown}]
    BY Zenon DEF Init
  <2> QED
    BY Zenon, <2>1, <2>2 DEF Init, TypeOK
<1>2. \A c \in Clients : ~InRing(c)
  BY DEF Init, InRing, Contains
<1>3. NoDuplicates /\ PermitProtocol /\ CursorsInRing /\ ClosedIsEmpty
  BY DEF Init, NoDuplicates, PermitProtocol, CursorsInRing, ClosedIsEmpty
<1>4. OnlyBuiltClients /\ NoClientLost
  BY <1>2, Zenon DEF Init, OnlyBuiltClients, NoClientLost
<1> QED
  BY <1>1, <1>2, <1>3, <1>4, Zenon DEF RingInv

\* A step that leaves the list, the cursors and the permit alone and takes a
\* client forward only from "up" or out of a snapshot keeps the invariant.
LEMMA ClientSteps ==
  ASSUME RingInv,
         \/ \E c \in Clients : TunnelDies(c)
         \/ \E c \in Clients, n \in Reports : Report(c, n)
         \/ \E k \in Closers, c \in Clients : CloseClient(k, c)
  PROVE  RingInv'
<1> USE DEF RingInv, NoDuplicates, PermitProtocol, CursorsInRing, ClosedIsEmpty,
            InRing, ringVars, callVars
<1>1. ASSUME NEW c \in Clients, TunnelDies(c) PROVE RingInv'
  <2>1. TypeOK'
    BY SMTT(30), <1>1 DEF TunnelDies, Shut, TypeOK
  <2>2. OnlyBuiltClients'
    BY <1>1 DEF TunnelDies, Shut, TypeOK, OnlyBuiltClients
  <2>3. NoClientLost'
    BY <1>1 DEF TunnelDies, Shut, TypeOK, NoClientLost
  <2> QED
    BY SMTT(30), <1>1, <2>1, <2>2, <2>3, Zenon DEF TunnelDies
<1>2. ASSUME NEW c \in Clients, NEW n \in Reports, Report(c, n) PROVE RingInv'
  BY SMTT(30), <1>2, Zenon DEF Report, TypeOK, OnlyBuiltClients, NoClientLost
<1>3. ASSUME NEW k \in Closers, NEW c \in Clients, CloseClient(k, c) PROVE RingInv'
  <2>1. TypeOK'
    BY <1>3 DEF CloseClient, Shut, TypeOK
  <2>2. OnlyBuiltClients'
    BY <1>3 DEF CloseClient, Shut, TypeOK, OnlyBuiltClients
  <2>3. NoClientLost'
    BY SMTT(30), <1>3, Zenon DEF CloseClient, Shut, TypeOK, NoClientLost
  <2> QED
    BY SMTT(30), <1>3, <2>1, <2>2, <2>3, Zenon DEF CloseClient
<1> QED
  BY <1>1, <1>2, <1>3, Zenon

\* Entering and leaving the semaphore's queue.
LEMMA EntrySteps ==
  ASSUME RingInv, NEW p \in Procs,
         Call(p) \/ Cancel(p) \/ AbandonWait(p) \/ Acquire(p)
  PROVE  RingInv'
<1> USE DEF RingInv, NoDuplicates, PermitProtocol, CursorsInRing, ClosedIsEmpty,
            InRing, ringVars, cliVars, OnlyBuiltClients, NoClientLost
<1>1. CASE Call(p)
  BY <1>1 DEF Call, TypeOK
<1>2. CASE Cancel(p)
  BY <1>2 DEF Cancel, TypeOK
<1>3. CASE AbandonWait(p)
  BY SMTT(30), <1>3, Zenon DEF AbandonWait, Leave, TypeOK
<1>4. CASE Acquire(p)
  <2>1. CASE closed
    <3>1. UNCHANGED <<ringVars, cliVars>> /\ Leave(p)
      BY Zenon, <1>4, <2>1 DEF Acquire
    <3>2. TypeOK'
      BY <3>1, Zenon DEF Leave, TypeOK
    <3>3. PermitProtocol' /\ CursorsInRing' /\ NoDuplicates'
      BY SMTT(30), <3>1, Zenon DEF Leave, TypeOK
    <3>4. OnlyBuiltClients' /\ NoClientLost' /\ ClosedIsEmpty'
      BY <3>1, Zenon DEF TypeOK
    <3> QED
      BY SMTT(30), <3>2, <3>3, <3>4, Zenon
  <2>2. CASE ~closed
    <3>1. /\ pc' = [pc EXCEPT ![p] = "try"]
          /\ permit' = p
          /\ permit = Free
          /\ cursor' = [cursor EXCEPT ![p] = current]
          /\ UNCHANGED <<err, cancelled, tried, closed, ring, current, cliVars>>
      BY <1>4, <2>2, Zenon DEF Acquire
    <3>2. TypeOK'
      BY <3>1, Zenon DEF TypeOK
    <3>3. PermitProtocol' /\ CursorsInRing' /\ NoDuplicates'
      BY SMTT(30), <2>2, <3>1, Zenon DEF TypeOK
    <3>4. OnlyBuiltClients' /\ NoClientLost' /\ ClosedIsEmpty'
      BY <2>2, <3>1, Zenon DEF TypeOK
    <3> QED
      BY SMTT(30), <3>2, <3>3, <3>4, Zenon
  <2> QED
    BY SMTT(30), <2>1, <2>2, Zenon
<1> QED
  BY SMTT(30), <1>1, <1>2, <1>3, <1>4, Zenon

\* A dial attempt leaves its client in the list, constructed and accounted for.
LEMMA DialKeeps ==
  ASSUME RingInv, NEW c \in Clients, InRing(c),
         NEW out \in Outcomes(c), AfterDial(c, out),
         ring' = ring, closing' = closing, removals' = removals
  PROVE  /\ client' \in [Clients -> {"none", "fresh", "up", "closed"}]
         /\ OnlyBuiltClients'
         /\ NoClientLost'
<1>1. CASE UNCHANGED client
  BY <1>1, Zenon DEF RingInv, TypeOK, OnlyBuiltClients, NoClientLost, InRing
<1>2. CASE client[c] # "closed" /\ client' = [client EXCEPT ![c] = "up"]
  BY <1>2 DEF RingInv, TypeOK, OnlyBuiltClients, NoClientLost, InRing
<1> QED
  BY <1>1, <1>2, Zenon DEF AfterDial, Outcomes

\* Returning from TryNextContext hands the cursor to the ring.
LEMMA ReturnKeeps ==
  ASSUME RingInv, NEW p \in Procs, Return(p),
         UNCHANGED <<ring, closed, removals, closing, capability>>,
         client' \in [Clients -> {"none", "fresh", "up", "closed"}],
         OnlyBuiltClients', NoClientLost', ~closed, permit = p
  PROVE  RingInv'
<1>1. TypeOK'
  BY Zenon DEF RingInv, Return, Leave, TypeOK
<1>2. PermitProtocol'
  BY Zenon DEF RingInv, Return, Leave, TypeOK, PermitProtocol
<1>3. CursorsInRing'
  BY Zenon DEF RingInv, Return, Leave, TypeOK, CursorsInRing, InRing
<1>4. NoDuplicates' /\ ClosedIsEmpty'
  BY Zenon DEF RingInv, NoDuplicates, ClosedIsEmpty
<1> QED
  BY SMTT(30), <1>1, <1>2, <1>3, <1>4, Zenon DEF RingInv

\* A walk: it moves its cursor along the list and gives up the permit.
LEMMA WalkSteps ==
  ASSUME RingInv, NEW p \in Procs, Try(p) \/ Step(p) \/ FirstDial(p)
  PROVE  RingInv'
<1> SUFFICES ASSUME pc[p] \in {"try", "failed", "first"},
                    UNCHANGED <<ring, closed, removals, closing, capability>>
             PROVE  RingInv'
  BY Zenon DEF Try, Step, FirstDial, cliVars
<1>0. permit = p /\ ~closed
  BY SMTT(30), Zenon DEF RingInv, PermitProtocol, ClosedIsEmpty, TypeOK
<1>1. UNCHANGED client => OnlyBuiltClients' /\ NoClientLost'
  BY Zenon DEF RingInv, OnlyBuiltClients, NoClientLost, InRing
<1>2. cursor[p] # Nil => cursor[p] \in Clients /\ InRing(cursor[p])
  BY Zenon DEF RingInv, TypeOK, CursorsInRing
<1>3. CASE Try(p)
  <2>1. CASE cancelled[p]
    BY SMTT(30), <1>0, <1>1, <1>3, <2>1, ReturnKeeps, Zenon DEF Try, RingInv, TypeOK
  <2>2. CASE ~cancelled[p] /\ cursor[p] = Nil
    BY SMTT(30), <1>0, <1>1, <1>3, <2>2, Zenon
    DEF Try, RingInv, TypeOK, NoDuplicates, PermitProtocol, CursorsInRing, ClosedIsEmpty, InRing
  <2>3. CASE ~cancelled[p] /\ cursor[p] # Nil
    <3>1. PICK out \in Outcomes(cursor[p]) :
            /\ AfterDial(cursor[p], out)
            /\ IF out = "ok"
               THEN Return(p)
               ELSE /\ pc' = [pc EXCEPT ![p] = "failed"]
                    /\ err' = [err EXCEPT ![p] = out]
                    /\ tried' = [tried EXCEPT ![p] = @ \cup {cursor[p]}]
                    /\ UNCHANGED <<permit, current, cursor, cancelled>>
      BY SMTT(30), <1>3, <2>3, Zenon DEF Try
    <3>2. /\ client' \in [Clients -> {"none", "fresh", "up", "closed"}]
          /\ OnlyBuiltClients'
          /\ NoClientLost'
      BY SMTT(30), <1>2, <2>3, <3>1, DialKeeps, Zenon
    <3>3. CASE out = "ok"
      BY SMTT(30), <1>0, <3>1, <3>2, <3>3, ReturnKeeps, Zenon
    <3>4. CASE out # "ok"
      <4>1. out \in Errors
        BY SMTT(30), <3>1, <3>4, Zenon DEF Outcomes, Errors, Failover
      <4> QED
        BY SMTT(30), <1>0, <1>2, <2>3, <3>1, <3>2, <3>4, <4>1
        DEF RingInv, TypeOK, NoDuplicates, PermitProtocol, CursorsInRing, ClosedIsEmpty, InRing
    <3> QED
      BY SMTT(30), <3>3, <3>4, Zenon
  <2> QED
    BY SMTT(30), <2>1, <2>2, <2>3, Zenon
<1>4. CASE Step(p)
  <2>0. cursor[p] # Nil /\ UNCHANGED client
    BY SMTT(30), <1>4, Zenon DEF Step, RingInv, PermitProtocol, cliVars
  <2>1. Following(cursor[p]) \in Clients /\ InRing(Following(cursor[p]))
    BY SMTT(30), <1>2, <2>0, FollowingInRing, Zenon DEF RingInv
  <2>2. CASE Return(p)
    BY SMTT(30), <1>0, <1>1, <2>0, <2>2, ReturnKeeps, Zenon DEF RingInv, TypeOK
  <2>3. CASE permit' = Free /\ UNCHANGED current /\ Leave(p)
    BY SMTT(30), <1>0, <1>1, <2>0, <2>3, Zenon
    DEF Leave, RingInv, TypeOK, NoDuplicates, PermitProtocol, CursorsInRing, ClosedIsEmpty, InRing
  <2>4. ASSUME NEW to \in {"new", "try"},
               pc' = [pc EXCEPT ![p] = to],
               cursor' = [cursor EXCEPT ![p] = Following(cursor[p])],
               UNCHANGED <<permit, current, err, cancelled, tried>>
        PROVE  RingInv'
    BY SMTT(30), <1>0, <1>1, <2>0, <2>1, <2>4, Zenon
    DEF RingInv, TypeOK, NoDuplicates, PermitProtocol, CursorsInRing, ClosedIsEmpty, InRing
  <2> QED
    BY Zenon, <1>4, <2>2, <2>3, <2>4 DEF Step
<1>5. CASE FirstDial(p)
  <2>1. cursor[p] # Nil
    BY Zenon, <1>5 DEF FirstDial, RingInv, PermitProtocol
  <2>2. PICK out \in Outcomes(cursor[p]) : AfterDial(cursor[p], out)
    BY <1>5, Zenon DEF FirstDial
  <2> QED
    BY SMTT(30), <1>0, <1>2, <1>5, <2>1, <2>2, DialKeeps, ReturnKeeps, Zenon DEF FirstDial
<1> QED
  BY SMTT(30), <1>3, <1>4, <1>5, Zenon

\* Constructing a client: it is in the list before anybody can lose it.
LEMMA GetNewStep ==
  ASSUME RingInv, NEW p \in Procs, GetNew(p)
  PROVE  RingInv'
<1>0. permit = p /\ ~closed /\ UNCHANGED <<closed, capability, removals, closing>>
  BY SMTT(30), Zenon DEF GetNew, RingInv, PermitProtocol, ClosedIsEmpty, TypeOK
<1>1. CASE cancelled[p]
  <2>1. UNCHANGED <<ring, client>> /\ Return(p)
    BY <1>1, Zenon DEF GetNew
  <2>2. OnlyBuiltClients' /\ NoClientLost'
    BY <1>0, <2>1, Zenon DEF RingInv, OnlyBuiltClients, NoClientLost, InRing
  <2> QED
    BY SMTT(30), <1>0, <2>1, <2>2, ReturnKeeps, Zenon DEF RingInv, TypeOK
<1>2. CASE ~cancelled[p]
  <2>1. PICK c \in Unused :
          /\ client' = [client EXCEPT ![c] = "fresh"]
          /\ ring' = Inserted(c)
          /\ current' = c
          /\ cursor' = [cursor EXCEPT ![p] = c]
    BY <1>2, Zenon DEF GetNew
  <2>2. /\ pc' = [pc EXCEPT ![p] = "first"]
        /\ UNCHANGED <<permit, err, cancelled, tried>>
    BY <1>2, Zenon DEF GetNew
  <2>3. c \in Clients /\ client[c] = "none" /\ ~InRing(c)
    BY Zenon DEF Unused, RingInv, OnlyBuiltClients
  <2>4. /\ ring' \in Seq(Clients)
        /\ \A d \in Clients : InRing(d)' <=> (InRing(d) \/ d = c)
        /\ NoDuplicates'
    BY SMTT(30), <2>1, <2>3, InsertedRing, Zenon DEF RingInv, InRing, NoDuplicates
  <2>5. TypeOK'
    BY SMTT(30), <1>0, <2>1, <2>2, <2>3, <2>4, Zenon DEF RingInv, TypeOK
  <2>6. PermitProtocol'
    BY SMTT(30), <1>0, <2>1, <2>2, <2>3, Zenon DEF RingInv, TypeOK, PermitProtocol
  <2>7. OnlyBuiltClients' /\ NoClientLost'
    BY SMTT(30), <1>0, <2>1, <2>3, <2>4, Zenon DEF RingInv, TypeOK, OnlyBuiltClients, NoClientLost
  <2>8. CursorsInRing'
    BY <2>1, <2>3, <2>4 DEF RingInv, TypeOK, CursorsInRing
  <2> QED
    BY SMTT(30), <1>0, <2>4, <2>5, <2>6, <2>7, <2>8, Zenon DEF RingInv, ClosedIsEmpty
<1> QED
  BY <1>1, <1>2, Zenon

\* passiveRemove and Close run while no walk is under way.
LEMMA DetachSteps ==
  ASSUME RingInv,
         \/ \E c \in Clients : PassiveRemove(c)
         \/ \E k \in Closers : CloseRing(k)
  PROVE  RingInv'
<1>0. permit = Free => \A p \in Procs : cursor[p] = Nil
  BY DEF RingInv, PermitProtocol, TypeOK
<1>1. ASSUME NEW c \in Clients, PassiveRemove(c) PROVE RingInv'
  <2>1. CASE ~InRing(c)
    <3>1. /\ removals' \subseteq removals /\ \A d \in removals : d # c => d \in removals'
          /\ UNCHANGED <<permit, closed, ring, current, pc, cursor, err, cancelled, tried>>
          /\ UNCHANGED <<client, capability, closing>>
      BY <1>1, <2>1, Zenon DEF PassiveRemove, callVars
    <3>2. TypeOK' /\ OnlyBuiltClients'
      BY <3>1, Zenon DEF RingInv, TypeOK, OnlyBuiltClients, InRing
    <3>3. NoDuplicates' /\ PermitProtocol'
      BY <3>1, Zenon DEF RingInv, NoDuplicates, PermitProtocol
    <3>4. CursorsInRing' /\ ClosedIsEmpty'
      BY <3>1, Zenon DEF RingInv, CursorsInRing, ClosedIsEmpty, InRing
    <3>5. NoClientLost'
      BY <2>1, <3>1, Zenon DEF RingInv, NoClientLost, InRing
    <3> QED
      BY <3>2, <3>3, <3>4, <3>5, Zenon DEF RingInv
  <2>2. CASE InRing(c)
    <3> DEFINE r == RemoveAt(ring, Position(c))
    <3>1. /\ r \in Seq(Clients)
          /\ \A d \in Clients : Contains(r, d) <=> (InRing(d) /\ d # c)
          /\ \A i, j \in 1..Len(r) : r[i] = r[j] => i = j
      BY <2>2, RemovedRing, Zenon DEF RingInv
    <3>2. /\ ring' = r
          /\ current' = IF current = c THEN NextOf(c) ELSE current
          /\ removals' = removals \ {c}
          /\ UNCHANGED <<permit, closed, client, capability, closing, callVars>>
          /\ permit = Free
      BY <1>1, <2>2, Zenon DEF PassiveRemove
    <3> HIDE DEF r
    <3>3. \A d \in Clients : InRing(d)' <=> (InRing(d) /\ d # c)
      BY <3>1, <3>2, Zenon DEF InRing
    <3>4. NextOf(c) = Nil \/ (NextOf(c) \in Clients /\ InRing(NextOf(c)) /\ NextOf(c) # c)
      <4>0. TypeOK /\ ring \in Seq(Clients)
        BY Zenon DEF RingInv, TypeOK
      <4>1. CASE Position(c) # Len(ring)
        <5>1. Position(c) \in 1..Len(ring) /\ Position(c) + 1 \in 1..Len(ring) /\ ring[Position(c)] = c
          BY SMTT(30), <2>2, <4>0, <4>1, PositionOf, Zenon
        <5>2. NextOf(c) = ring[Position(c) + 1] /\ NextOf(c) # c
          BY SMTT(30), <4>1, <5>1, Zenon DEF RingInv, NoDuplicates, NextOf
        <5> QED
          BY SMTT(30), <2>2, <4>0, <5>2, NextInRing, Zenon
      <4> QED
        BY <4>1, Zenon DEF NextOf
    <3>5. client[c] = "closed"
      BY SMTT(30), <1>1, Zenon DEF PassiveRemove, RingInv, OnlyBuiltClients
    <3>6. TypeOK'
      BY SMTT(30), <3>1, <3>2, <3>4, Zenon DEF RingInv, TypeOK, callVars
    <3>7. NoDuplicates'
      BY SMTT(30), <3>1, <3>2, Zenon DEF NoDuplicates
    <3>8. PermitProtocol'
      BY <3>2, Zenon DEF RingInv, PermitProtocol, callVars
    <3>9. OnlyBuiltClients' /\ NoClientLost'
      BY SMTT(30), <3>2, <3>3, <3>5, Zenon DEF RingInv, TypeOK, OnlyBuiltClients, NoClientLost
    <3>10. CursorsInRing'
      BY SMTT(30), <1>0, <3>2, <3>3, <3>4, Zenon DEF RingInv, TypeOK, CursorsInRing, callVars
    <3>11. ClosedIsEmpty'
      BY SMTT(30), <2>2, <3>2, PositionOf, Zenon DEF RingInv, TypeOK, ClosedIsEmpty
    <3> QED
      BY SMTT(30), <3>6, <3>7, <3>8, <3>9, <3>10, <3>11, Zenon DEF RingInv
  <2> QED
    BY SMTT(30), <2>1, <2>2, Zenon
<1>2. ASSUME NEW k \in Closers, CloseRing(k) PROVE RingInv'
  <2>1. /\ ToSet(ring) \subseteq Clients
        /\ \A c \in Clients : InRing(c) => c \in ToSet(ring)
    BY SMTT(30), Zenon DEF RingInv, TypeOK, ToSet, InRing, Contains
  <2>2. \A c \in Clients : ~InRing(c)'
    BY SMTT(30), <1>2, Zenon DEF CloseRing, InRing, Contains
  <2>3. TypeOK' /\ NoDuplicates' /\ ClosedIsEmpty'
    BY SMTT(30), <1>2, <2>1, Zenon DEF CloseRing, RingInv, TypeOK, NoDuplicates, ClosedIsEmpty, callVars
  <2>4. PermitProtocol' /\ CursorsInRing'
    BY <1>0, <1>2, Zenon DEF CloseRing, RingInv, TypeOK, PermitProtocol, CursorsInRing, callVars
  <2>5. \A c \in Clients :
          (\E l \in Closers : c \in closing'[l])
            <=> (c \in ToSet(ring) \/ \E l \in Closers : c \in closing[l])
    <3>1. closing \in [Closers -> SUBSET Clients]
      BY Zenon DEF RingInv, TypeOK
    <3>2. closing' = [closing EXCEPT ![k] = ToSet(ring)] /\ closing[k] = {}
      BY SMTT(30), <1>2, Zenon DEF CloseRing
    <3> QED
      BY <3>1, <3>2, Zenon
  <2>6. \A c \in Clients : c \in ToSet(ring) <=> InRing(c)
    BY SMTT(30), Zenon DEF RingInv, TypeOK, ToSet, InRing, Contains
  <2>7. OnlyBuiltClients'
    BY SMTT(30), <1>2, <2>2, <2>5, <2>6, Zenon DEF CloseRing, RingInv, OnlyBuiltClients
  <2>8. NoClientLost'
    BY SMTT(30), <1>2, <2>5, <2>6, Zenon DEF CloseRing, RingInv, NoClientLost
  <2> QED
    BY SMTT(30), <2>3, <2>4, <2>7, <2>8, Zenon DEF RingInv
<1> QED
  BY <1>1, <1>2, Zenon

LEMMA StutterKeeps ==
  ASSUME RingInv, UNCHANGED vars
  PROVE  RingInv'
BY DEF vars, ringVars, callVars, cliVars, RingInv, TypeOK, NoDuplicates, PermitProtocol,
       OnlyBuiltClients, CursorsInRing, NoClientLost, ClosedIsEmpty, InRing

-----------------------------------------------------------------------------
(* The results                                                             *)

\* RingInv is inductive: it holds of the empty ring and every step of a
\* dialer, a hook, a tunnel or a closer keeps it.
THEOREM RingInvariant == Spec => []RingInv
<1>1. RingInv /\ [Next]_vars => RingInv'
  <2> SUFFICES ASSUME RingInv, [Next]_vars PROVE RingInv'
    OBVIOUS
  <2>1. CASE UNCHANGED vars
    BY <2>1, StutterKeeps, Zenon
  <2>2. ASSUME NEW p \in Procs, Call(p) \/ Cancel(p) \/ AbandonWait(p) \/ Acquire(p)
        PROVE  RingInv'
    BY <2>2, EntrySteps, Zenon
  <2>3. ASSUME NEW p \in Procs, Try(p) \/ Step(p) \/ FirstDial(p)
        PROVE  RingInv'
    BY <2>3, WalkSteps, Zenon
  <2>4. ASSUME NEW p \in Procs, GetNew(p)
        PROVE  RingInv'
    BY <2>4, GetNewStep, Zenon
  <2>5. ASSUME \/ \E c \in Clients : TunnelDies(c)
               \/ \E c \in Clients, n \in Reports : Report(c, n)
               \/ \E k \in Closers, c \in Clients : CloseClient(k, c)
        PROVE  RingInv'
    BY <2>5, ClientSteps, Zenon
  <2>6. ASSUME \/ \E c \in Clients : PassiveRemove(c)
               \/ \E k \in Closers : CloseRing(k)
        PROVE  RingInv'
    BY <2>6, DetachSteps, Zenon
  <2> QED
    BY SMTT(30), <2>1, <2>2, <2>3, <2>4, <2>5, <2>6, Zenon DEF Next
<1> QED
  BY <1>1, InitRingInv, PTL DEF Spec

\* The state keeps its types.
THEOREM TypeCorrect == Spec => []TypeOK
<1>1. RingInv => TypeOK
  BY Zenon DEF RingInv
<1> QED
  BY <1>1, RingInvariant, PTL

\* A walk never stands on an element that passiveRemove or Close detached.
THEOREM CursorsStayInRing == Spec => []CursorsInRing
<1>1. RingInv => CursorsInRing
  BY Zenon DEF RingInv
<1> QED
  BY <1>1, RingInvariant, PTL

\* A live client is always reachable: from the list, or from the snapshot of
\* a Close that is about to close it.
THEOREM ClientsAccountedFor == Spec => []NoClientLost
<1>1. RingInv => NoClientLost
  BY Zenon DEF RingInv
<1> QED
  BY <1>1, RingInvariant, PTL

\* Once Close has run its critical section the ring stays empty and unheld.
THEOREM ClosedStaysEmpty == Spec => []ClosedIsEmpty
<1>1. RingInv => ClosedIsEmpty
  BY Zenon DEF RingInv
<1> QED
  BY <1>1, RingInvariant, PTL

\* No dial, hook or closer constructs a client in a closed ring: GetNew needs
\* the permit, which a closed ring hands to nobody.
THEOREM CloseIsTerminal == Spec => NoClientAfterClose
<1> DEFINE Keeps == closed => \A c \in Clients : client[c] = "none" => client'[c] = "none"
<1>1. RingInv /\ [Next]_vars => [Keeps]_vars
  <2> SUFFICES ASSUME RingInv, Next, closed, NEW c \in Clients, client[c] = "none"
               PROVE  client'[c] = "none"
    BY Zenon DEF vars
  <2>1. \A p \in Procs : pc[p] \notin {"try", "failed", "new", "first"}
    BY Zenon DEF RingInv, TypeOK, PermitProtocol, ClosedIsEmpty
  <2>2. \A k \in Closers : c \notin closing[k]
    BY Zenon DEF RingInv, OnlyBuiltClients
  <2>3. CASE UNCHANGED client
    BY <2>3, Zenon
  <2>4. ASSUME NEW d \in Clients, TunnelDies(d) \/ \E k \in Closers : CloseClient(k, d)
        PROVE  client'[c] = "none"
    BY <2>2, <2>4 DEF TunnelDies, CloseClient, Shut, RingInv, TypeOK
  <2> QED
    BY Zenon, <2>1, <2>3, <2>4
    DEF Next, Call, Cancel, AbandonWait, Acquire, Try, Step, GetNew, FirstDial, PassiveRemove,
        Report, CloseRing, cliVars
<1> QED
  BY <1>1, RingInvariant, PTL DEF Spec, NoClientAfterClose

\* A dial brings the tunnel of a client that had none up, or changes nothing.
LEMMA DialChangesClient ==
  ASSUME RingInv, NEW d \in Clients, client[d] # "none", NEW out \in Outcomes(d), AfterDial(d, out),
         NEW c \in Clients
  PROVE  client'[c] = client[c] \/ (client[c] = "fresh" /\ client'[c] = "up")
BY SMTT(30), Zenon DEF RingInv, TypeOK, Outcomes, AfterDial

\* The ring uses each client as the abstract client that TuicClient and
\* JuicityClient implement: no dial, hook or Close revives a retired client or
\* runs its hook twice.
THEOREM ClientsStayRingClients == Spec => ClientsAreRingClients
<1> DEFINE View(c) == [ClientView(c)!Next]_<<ClientLife(c), ClientHook(c)>>
<1>1. ASSUME RingInv, Next, NEW c \in Clients PROVE View(c)
  <2> USE DEF ClientView!Next, ClientView!Connect, ClientView!Retire, ClientView!RunHook,
              ClientLife, ClientHook
  <2>1. CASE UNCHANGED removals /\ (client'[c] = client[c] \/ (client[c] = "fresh" /\ client'[c] = "up"))
    BY <2>1, Zenon
  <2>2. CASE UNCHANGED removals /\ client[c] = "none" /\ client'[c] = "fresh"
    BY <2>2, Zenon
  <2>3. CASE \E d \in Clients : Shut(d)
    BY <1>1, <2>3 DEF Shut, RingInv, TypeOK, OnlyBuiltClients
  <2>4. CASE \E d \in Clients : PassiveRemove(d)
    BY <1>1, <2>4, Zenon DEF PassiveRemove, RingInv, TypeOK, OnlyBuiltClients
  <2> HIDE DEF View
  <2>5. ASSUME NEW p \in Procs, Try(p) \/ FirstDial(p) PROVE View(c)
    <3>1. cursor[p] # Nil /\ ~(client' = client) => cursor[p] \in Clients /\ client[cursor[p]] # "none"
      BY <1>1 DEF RingInv, TypeOK, CursorsInRing, OnlyBuiltClients
    <3>2. \/ client' = client
          \/ cursor[p] # Nil /\ \E out \in Outcomes(cursor[p]) : AfterDial(cursor[p], out)
      BY <1>1, <2>5, Zenon DEF Try, FirstDial, RingInv, PermitProtocol
    <3> QED
      BY <1>1, <2>1, <2>5, <3>1, <3>2, DialChangesClient, Zenon DEF Try, FirstDial
  <2>6. ASSUME NEW p \in Procs, GetNew(p) PROVE View(c)
    BY <1>1, <2>1, <2>2, <2>6 DEF GetNew, Unused, RingInv, TypeOK
  <2>7. CASE UNCHANGED <<client, removals>>
    BY <2>1, <2>7, Zenon
  <2> QED
    BY <1>1, <2>3, <2>4, <2>5, <2>6, <2>7, Zenon
    DEF Next, Call, Cancel, AbandonWait, Acquire, Step, TunnelDies, Report, CloseRing, CloseClient, cliVars
<1>2. RingInv /\ [Next]_vars => [\A c \in Clients : View(c)]_vars
  BY <1>1, Zenon
<1> QED
  BY <1>2, RingInvariant, PTL DEF Spec, ClientsAreRingClients

-----------------------------------------------------------------------------
(* The walk                                                                *)

\* The positions a walk from a to b has left behind.
Walked(a, b) ==
  IF a <= b THEN a..(b - 1) ELSE (a..Len(ring)) \cup (1..(b - 1))

\* A walk has tried what lies between the ring's current element and its own,
\* and, when it is about to step on, its own element too.
WalkTried(p) ==
  /\ pc[p] \in {"try", "failed"} =>
       \A a, b \in 1..Len(ring) :
         ring[a] = current /\ ring[b] = cursor[p] =>
           \A i \in Walked(a, b) : ring[i] \in tried[p]
  /\ pc[p] = "failed" => cursor[p] \in tried[p]
  /\ pc[p] = "new" /\ cursor[p] # Nil =>
       \A c \in Clients : InRing(c) => c \in tried[p]

\* While a walk is under way only its own steps touch what it depends on.
LEMMA WalkIsAlone ==
  ASSUME RingInv, [Next]_vars, NEW p \in Procs, pc[p] \in {"try", "failed", "new", "first"}
  PROVE  \/ Try(p) \/ Step(p) \/ GetNew(p) \/ FirstDial(p)
         \/ UNCHANGED <<ring, current>> /\ pc'[p] = pc[p] /\ cursor'[p] = cursor[p] /\ tried'[p] = tried[p]
<1>1. permit = p /\ permit # Free
  BY Zenon DEF RingInv, PermitProtocol
<1>2. ASSUME NEW q \in Procs, q # p PROVE pc[q] \in {"idle", "acquire"}
  BY <1>1, <1>2, Zenon DEF RingInv, TypeOK, PermitProtocol
<1>3. ASSUME NEW q \in Procs, Call(q) \/ Cancel(q) \/ AbandonWait(q)
      PROVE  UNCHANGED <<ring, current>> /\ pc'[p] = pc[p] /\ cursor'[p] = cursor[p] /\ tried'[p] = tried[p]
  BY <1>3 DEF Call, Cancel, AbandonWait, Leave, RingInv, TypeOK, ringVars
<1>4. ASSUME NEW c \in Clients, TunnelDies(c) \/ (\E n \in Reports : Report(c, n))
                                \/ (\E k \in Closers : CloseClient(k, c))
      PROVE  UNCHANGED <<ring, current, pc, cursor, tried>>
  BY <1>4, Zenon DEF TunnelDies, Report, CloseClient, ringVars, callVars
<1>5. ASSUME NEW q \in Procs, q # p, Acquire(q) \/ Try(q) \/ Step(q) \/ GetNew(q) \/ FirstDial(q)
      PROVE  FALSE
  BY <1>1, <1>2, <1>5, Zenon DEF Acquire, Try, Step, GetNew, FirstDial
<1>6. ~Acquire(p)
  BY <1>1, Zenon DEF Acquire
<1>7. /\ \A c \in Clients : ~PassiveRemove(c)
      /\ \A k \in Closers : ~CloseRing(k)
  BY <1>1, Zenon DEF PassiveRemove, CloseRing
<1>8. CASE UNCHANGED vars
  BY <1>8, Zenon DEF vars, ringVars, callVars
<1>9. CASE \E q \in Procs : \/ Call(q) \/ Cancel(q) \/ AbandonWait(q) \/ Acquire(q)
                            \/ Try(q) \/ Step(q) \/ GetNew(q) \/ FirstDial(q)
  BY <1>3, <1>5, <1>6, <1>9, Zenon
<1> QED
  BY <1>4, <1>7, <1>8, <1>9, Zenon DEF Next

\* Following steps to the next position, and from the last one to the first.
LEMMA FollowingPosition ==
  ASSUME RingInv, NEW b \in 1..Len(ring), NEW e \in 1..Len(ring), ring[e] = Following(ring[b])
  PROVE  e = IF b = Len(ring) THEN 1 ELSE b + 1
<1>0. ring \in Seq(Clients) /\ Len(ring) \in Nat /\ ring[b] \in Clients
  BY SeqHolds, Zenon DEF RingInv, TypeOK
<1>1. Position(ring[b]) = b
  BY <1>0, PositionOf, ZenonT(40) DEF RingInv, NoDuplicates, InRing, Contains
<1>2. CASE b = Len(ring)
  <2>1. ring[e] = ring[1] /\ 1 \in 1..Len(ring)
    BY <1>0, <1>1, <1>2 DEF Following, NextOf, FrontElem
  <2> QED
    BY <1>2, <2>1, Zenon DEF RingInv, NoDuplicates
<1>3. CASE b # Len(ring)
  <2>1. b + 1 \in 1..Len(ring) /\ ring[b + 1] \in Clients
    BY <1>0, <1>3
  <2>2. ring[e] = ring[b + 1]
    BY <1>1, <1>3, <2>1, Zenon DEF Following, NextOf
  <2> QED
    BY <1>3, <2>1, <2>2, Zenon DEF RingInv, NoDuplicates
<1> QED
  BY <1>2, <1>3, Zenon

\* A step of the walk leaves its element behind; back at the start it has left
\* every position behind.
LEMMA WalkedGrows ==
  ASSUME RingInv, NEW a \in 1..Len(ring), NEW b \in 1..Len(ring), NEW e \in 1..Len(ring),
         e = IF b = Len(ring) THEN 1 ELSE b + 1
  PROVE  /\ e = a => Walked(a, b) \cup {b} = 1..Len(ring)
         /\ e # a => Walked(a, e) = Walked(a, b) \cup {b}
<1>0. Len(ring) \in Nat
  BY DEF RingInv, TypeOK
<1> QED
  BY <1>0 DEF Walked

\* Every step keeps what a walk knows.
LEMMA WalkStep ==
  ASSUME RingInv, RingInv', [Next]_vars, NEW p \in Procs, WalkTried(p)
  PROVE  WalkTried(p)'
<1>0. /\ ring \in Seq(Clients) /\ Len(ring) \in Nat
      /\ pc \in [Procs -> {"idle", "acquire", "try", "failed", "new", "first"}]
      /\ cursor \in [Procs -> Clients \cup {Nil}]
      /\ tried \in [Procs -> SUBSET Clients]
  BY DEF RingInv, TypeOK
<1>1. CASE pc'[p] \in {"idle", "acquire", "first"}
  BY <1>1, Zenon DEF WalkTried
<1>2. CASE Acquire(p) /\ pc'[p] = "try"
  <2>1. cursor'[p] = current' /\ UNCHANGED ring
    BY <1>0, <1>2, Zenon DEF Acquire, Leave
  <2>2. \A a \in 1..Len(ring) : Walked(a, a)' = {}
    BY <1>0, <2>1 DEF Walked
  <2>3. ASSUME NEW a \in 1..Len(ring), NEW b \in 1..Len(ring), ring[a] = current', ring[b] = current'
        PROVE  Walked(a, b)' = {}
    <3>1. a = b
      BY <2>3, Zenon DEF RingInv, NoDuplicates
    <3> QED
      BY <2>2, <3>1, Zenon
  <2> QED
    BY <1>2, <2>1, <2>3, Zenon DEF WalkTried
<1>3. CASE UNCHANGED <<ring, current>> /\ pc'[p] = pc[p] /\ cursor'[p] = cursor[p] /\ tried'[p] = tried[p]
  BY <1>3 DEF WalkTried, Walked, InRing
<1>4. CASE Try(p) /\ pc'[p] \in {"failed", "new"}
  <2>1. CASE pc'[p] = "new"
    BY <1>0, <1>4, <2>1, Zenon DEF WalkTried, Try, Return, Leave
  <2>2. CASE pc'[p] = "failed"
    <3>1. /\ UNCHANGED <<ring, current, cursor>>
          /\ tried'[p] = tried[p] \cup {cursor[p]}
          /\ pc[p] = "try"
      BY <1>0, <1>4, <2>2, Zenon DEF Try, Return, Leave
    <3> QED
      BY <2>2, <3>1 DEF WalkTried, Walked
  <2> QED
    BY <1>4, <2>1, <2>2, Zenon
<1>5. CASE Step(p) /\ pc'[p] \in {"try", "new"}
  <2>1. /\ UNCHANGED <<ring, current, tried>>
        /\ pc[p] = "failed"
        /\ cursor'[p] = Following(cursor[p])
        /\ pc'[p] = "new" <=> Following(cursor[p]) = current
    BY <1>0, <1>5, Zenon DEF Step, Return, Leave
  <2>2. cursor[p] \in Clients /\ InRing(cursor[p])
    BY <1>0, <2>1, Zenon DEF RingInv, CursorsInRing, PermitProtocol
  <2>3. PICK b \in 1..Len(ring) : ring[b] = cursor[p]
    BY <2>2, Zenon DEF InRing, Contains
  <2>4. PICK e \in 1..Len(ring) : ring[e] = Following(cursor[p])
    BY <2>2, FollowingInRing, Zenon DEF RingInv, InRing, Contains
  <2>5. e = IF b = Len(ring) THEN 1 ELSE b + 1
    BY <2>3, <2>4, FollowingPosition, Zenon
  <2>6. CASE pc'[p] = "new"
    <3>1. ring[e] = current
      BY <2>1, <2>4, <2>6, Zenon
    <3>2. Walked(e, b) \cup {b} = 1..Len(ring)
      BY <2>5, WalkedGrows, Zenon
    <3>3. \A i \in Walked(e, b) : ring[i] \in tried[p]
      BY <2>1, <2>3, <3>1, Zenon DEF WalkTried
    <3>4. ring[b] \in tried[p]
      BY <2>1, <2>3, Zenon DEF WalkTried
    <3>5. \A i \in 1..Len(ring) : ring[i] \in tried[p]
      BY <3>2, <3>3, <3>4, Zenon
    <3> QED
      BY <2>1, <2>6, <3>5, Zenon DEF WalkTried, InRing, Contains
  <2>7. CASE pc'[p] = "try"
    <3>1. ASSUME NEW a \in 1..Len(ring), ring[a] = current, NEW i \in Walked(a, e)
          PROVE  ring[i] \in tried[p]
      <4>1. e # a
        BY <2>1, <2>4, <2>7, <3>1, Zenon
      <4>2. i \in Walked(a, b) \cup {b}
        BY <2>5, <3>1, <4>1, WalkedGrows
      <4> QED
        BY <2>1, <2>3, <3>1, <4>2, Zenon DEF WalkTried
    <3>2. ASSUME NEW c \in 1..Len(ring), ring[c] = cursor'[p] PROVE c = e
      BY <2>1, <2>4, <3>2, ZenonT(40) DEF RingInv, NoDuplicates
    <3>3. \A a \in 1..Len(ring) : Walked(a, e)' = Walked(a, e)
      BY <2>1, Zenon DEF Walked
    <3>4. ASSUME NEW a \in 1..Len(ring), NEW c \in 1..Len(ring), ring[a] = current, ring[c] = cursor'[p],
                 NEW i \in Walked(a, c)'
          PROVE  ring[i] \in tried[p]
      BY <3>1, <3>2, <3>3, <3>4, Zenon
    <3> QED
      BY <2>1, <2>7, <3>4, Zenon DEF WalkTried
  <2> QED
    BY <1>5, <2>6, <2>7, Zenon
<1>6. CASE pc[p] \in {"try", "failed", "new", "first"}
  <2>1. Try(p) => pc'[p] \in {"idle", "failed", "new"}
    BY <1>0, Zenon DEF Try, Return, Leave
  <2>2. Step(p) => pc'[p] \in {"idle", "try", "new"}
    BY <1>0, Zenon DEF Step, Return, Leave
  <2>3. GetNew(p) \/ FirstDial(p) => pc'[p] \in {"idle", "first"}
    BY <1>0, Zenon DEF GetNew, FirstDial, Return, Leave
  <2> QED
    BY <1>1, <1>3, <1>4, <1>5, <1>6, <2>1, <2>2, <2>3, WalkIsAlone
<1>7. CASE pc[p] \in {"idle", "acquire"}
  <2>1. ASSUME NEW q \in Procs,
               \/ Call(q) \/ Cancel(q) \/ AbandonWait(q) \/ Acquire(q)
               \/ Try(q) \/ Step(q) \/ GetNew(q) \/ FirstDial(q)
        PROVE  pc'[p] \in {"idle", "acquire"} \/ (Acquire(p) /\ pc'[p] = "try")
    <3>1. CASE q # p
      <4>1. CASE Call(q) \/ Cancel(q) \/ AbandonWait(q) \/ Acquire(q)
        BY <1>0, <1>7, <3>1, <4>1 DEF Call, Cancel, AbandonWait, Acquire, Leave
      <4>2. CASE Try(q)
        BY <1>0, <1>7, <3>1, <4>2, Zenon DEF Try, Return, Leave
      <4>3. CASE Step(q)
        BY <1>0, <1>7, <3>1, <4>3, Zenon DEF Step, Return, Leave
      <4>4. CASE GetNew(q) \/ FirstDial(q)
        BY <1>0, <1>7, <3>1, <4>4, Zenon DEF GetNew, FirstDial, Return, Leave
      <4> QED
        BY <2>1, <4>1, <4>2, <4>3, <4>4, Zenon
    <3>2. CASE q = p
      <4>1. ~Try(p) /\ ~Step(p) /\ ~GetNew(p) /\ ~FirstDial(p)
        BY <1>7, Zenon DEF Try, Step, GetNew, FirstDial
      <4>2. CASE Call(p) \/ Cancel(p) \/ AbandonWait(p)
        BY <1>0, <1>7, <4>2, Zenon DEF Call, Cancel, AbandonWait, Leave
      <4>3. CASE Acquire(p)
        BY <1>0, <4>3, Zenon DEF Acquire, Leave
      <4> QED
        BY <2>1, <3>2, <4>1, <4>2, <4>3, Zenon
    <3> QED
      BY <3>1, <3>2, Zenon
  <2>2. UNCHANGED pc => pc'[p] \in {"idle", "acquire"}
    BY <1>7, Zenon
  <2>3. pc'[p] \in {"idle", "acquire"} \/ (Acquire(p) /\ pc'[p] = "try")
    BY <2>1, <2>2, Zenon DEF Next, TunnelDies, Report, PassiveRemove, CloseRing, CloseClient, vars, callVars
  <2> QED
    BY <1>1, <1>2, <2>3, Zenon
<1> QED
  BY <1>0, <1>6, <1>7, Zenon

\* A dial constructs a client only after its walk has tried every client of the
\* list, whatever retires, reports or closes beside it.
THEOREM WalksCoverTheRing == Spec => []WalkCoversRing
<1> DEFINE WalkInv == \A p \in Procs : WalkTried(p)
<1>1. Init => WalkInv
  BY Zenon DEF Init, WalkTried
<1>2. RingInv /\ RingInv' /\ WalkInv /\ [Next]_vars => WalkInv'
  BY WalkStep, Zenon
<1>3. WalkInv => WalkCoversRing
  BY Zenon DEF WalkTried, WalkCoversRing
<1> HIDE DEF WalkInv
<1> QED
  BY <1>1, <1>2, <1>3, RingInvariant, PTL DEF Spec

-----------------------------------------------------------------------------
(* JuicityClient: the inductive invariant                                  *)

\* UnderlayAuth channels.
ChanType ==
  /\ chan \in [Juicity!Conns -> Seq(Juicity!Requests)]
  /\ \A k \in Juicity!Conns : Len(chan[k]) <= AuthCap

\* connMutex is held across a dial, and a dial starts without a connection.
DialHoldsMutex ==
  /\ holding <=> stage = "dial"
  /\ holding => quic = Juicity!NoConn

\* A dial that has got past getQuicConn has a connection.
DialHasConn == stage \in {"open", "compare", "send", "wait", "retire"} => my \in Juicity!Conns

\* A packet conn goes with its connection.
SocketFollowsConn ==
  /\ \A k \in Juicity!Conns : sock[k] = "open" => quic = k
  /\ \A k \in Juicity!Conns : state[k] = "none" <=> sock[k] = "none"
  /\ quic # Juicity!NoConn => state[quic] # "none"

HookFollowsDone == done <=> hook # "set"

\* Retirement without the timer happens at the end of a dial, and leaves nothing
\* behind; the timer leaves nothing behind unless a dial was on its way to the
\* mutex.
RetirementStages ==
  /\ timer # "off" => done
  /\ done /\ timer = "off" => quic = Juicity!NoConn /\ stage = "idle"
  /\ timer = "done" /\ ~late => quic = Juicity!NoConn /\ stage \notin {"lock", "compare", "dial"}

JuicityInv ==
  /\ Juicity!TypeOK
  /\ ChanType
  /\ DialHoldsMutex
  /\ DialHasConn
  /\ SocketFollowsConn
  /\ HookFollowsDone
  /\ RetirementStages

-----------------------------------------------------------------------------
(* JuicityClient: lemmas about the operators                               *)

\* What a returning dial leaves in the channels has the length it had.
LEMMA ReturnKeepsChans ==
  ASSUME Juicity!Setting, JuicityInv, Juicity!Return
  PROVE  ChanType'
<1>1. ASSUME NEW k \in Juicity!Conns
      PROVE  chan'[k] \in Seq(Juicity!Requests) /\ Len(chan'[k]) <= AuthCap
  <2>1. chan[k] \in Seq(Juicity!Requests) /\ Len(chan[k]) \in Nat /\ Len(chan[k]) <= AuthCap
    BY DEF JuicityInv, ChanType
  <2>2. chan'[k] = [i \in 1..Len(chan[k]) |-> "stale"]
    BY Zenon DEF Juicity!Return
  <2>3. chan'[k] \in [1..Len(chan[k]) -> Juicity!Requests]
    BY <2>2, Zenon DEF Juicity!Requests
  <2> QED
    BY <2>1, <2>2, <2>3
<1>2. chan' = [k \in Juicity!Conns |-> chan'[k]]
  BY Zenon DEF Juicity!Return
<1> QED
  BY <1>1, <1>2, Zenon DEF ChanType

\* What a returning dial leaves in the dialer and the writers has its type.
LEMMA ReturnKeepsTypes ==
  ASSUME JuicityInv, Juicity!Return
  PROVE  /\ stage' = "idle" /\ my' = Juicity!NoConn /\ auth' \in BOOLEAN /\ result' = "none"
         /\ writer' \in [Juicity!Conns -> {"off", "run", "done", "close", "mine", "stale"}]
BY Zenon DEF JuicityInv, Juicity!TypeOK, Juicity!Return

\* closeConnectionLocked keeps the types of what it closes.
LEMMA CloseConnectionKeepsTypes ==
  ASSUME JuicityInv, Juicity!CloseConnection
  PROVE  /\ done' \in BOOLEAN /\ hook' \in {"set", "due", "ran"}
         /\ quic' = Juicity!NoConn
         /\ state' \in [Juicity!Conns -> {"none", "live", "dead"}]
         /\ sock' \in [Juicity!Conns -> {"none", "open", "closed"}]
BY Zenon DEF JuicityInv, Juicity!TypeOK, Juicity!CloseConnection, Juicity!Release

\* A step of the peer, of a writer or of a caller of Close keeps the types.
LEMMA PeerTypes ==
  ASSUME Juicity!TypeOK, ChanType',
         UNCHANGED <<done, hook, quic, sock, holding, stage, auth, my, timer, late>>,
         user' \in {"no", "lock", "done"},
         state' \in [Juicity!Conns -> {"none", "live", "dead"}],
         result' \in {"none", "ok", "err"},
         writer' \in [Juicity!Conns -> {"off", "run", "done", "close", "mine", "stale"}]
  PROVE  Juicity!TypeOK'
<1>1. \A k \in Juicity!Conns : chan'[k] \in Seq(Juicity!Requests) /\ Len(chan'[k]) <= AuthCap
  BY Zenon DEF ChanType
<1>2. done' \in BOOLEAN /\ holding' \in BOOLEAN /\ auth' \in BOOLEAN /\ late' \in BOOLEAN
  BY Zenon DEF Juicity!TypeOK
<1>3. /\ hook' \in {"set", "due", "ran"}
      /\ quic' \in Juicity!Conns \cup {Juicity!NoConn} /\ my' \in Juicity!Conns \cup {Juicity!NoConn}
  BY Zenon DEF Juicity!TypeOK
<1>4. sock' \in [Juicity!Conns -> {"none", "open", "closed"}]
  BY Zenon DEF Juicity!TypeOK
<1>5. stage' \in {"idle", "lock", "dial", "open", "compare", "send", "wait", "retire"}
  BY Zenon DEF Juicity!TypeOK
<1>6. timer' \in {"off", "armed", "done"}
  BY Zenon DEF Juicity!TypeOK
<1> QED
  BY <1>1, <1>2, <1>3, <1>4, <1>5, <1>6, Zenon DEF Juicity!TypeOK

\* No step overfills a channel or puts anything but a request into it.
LEMMA ChansStay ==
  ASSUME Juicity!Setting, JuicityInv, [Juicity!Next]_Juicity!vars
  PROVE  ChanType'
<1>1. CASE Juicity!Send
  <2>1. CASE Len(chan[my]) < AuthCap /\ chan' = [chan EXCEPT ![my] = Append(@, "mine")]
    <3>1. my \in Juicity!Conns
      BY <1>1, Zenon DEF JuicityInv, DialHasConn, Juicity!Send
    <3>2. /\ Append(chan[my], "mine") \in Seq(Juicity!Requests)
          /\ Len(Append(chan[my], "mine")) = Len(chan[my]) + 1
          /\ Len(chan[my]) \in Nat
      BY <3>1 DEF JuicityInv, ChanType, Juicity!Requests
    <3> QED
      BY <2>1, <3>1, <3>2 DEF Juicity!Setting, JuicityInv, ChanType
  <2>2. CASE UNCHANGED chan
    BY <2>2, Zenon DEF JuicityInv, ChanType
  <2>3. CASE Juicity!Return
    BY <2>3, ReturnKeepsChans, Zenon
  <2> QED
    BY <1>1, <2>1, <2>2, <2>3, Zenon DEF Juicity!Send
<1>2. CASE \E k \in Juicity!Conns : Juicity!WriterStep(k)
  <2> PICK k \in Juicity!Conns : Juicity!WriterStep(k)
    BY <1>2, Zenon
  <2>1. CASE chan[k] # <<>> /\ chan' = [chan EXCEPT ![k] = Tail(@)]
    <3>1. /\ Tail(chan[k]) \in Seq(Juicity!Requests)
          /\ Len(Tail(chan[k])) = Len(chan[k]) - 1
          /\ Len(chan[k]) \in Nat
      BY <2>1 DEF JuicityInv, ChanType
    <3> QED
      BY <2>1, <3>1 DEF Juicity!Setting, JuicityInv, ChanType
  <2>2. CASE UNCHANGED chan
    BY <2>2, Zenon DEF JuicityInv, ChanType
  <2> QED
    BY <2>1, <2>2, Zenon DEF Juicity!WriterStep
<1>3. CASE Juicity!Return
  BY <1>3, ReturnKeepsChans, Zenon
<1>4. CASE UNCHANGED chan
  BY <1>4, Zenon DEF JuicityInv, ChanType
<1> QED
  BY <1>1, <1>2, <1>3, <1>4, Zenon
  DEF Juicity!Next, Juicity!vars, Juicity!dialVars, Juicity!Call, Juicity!DialStep, Juicity!GetConn,
      Juicity!DialFails, Juicity!DialSucceeds, Juicity!Open, Juicity!RetireOrigin, Juicity!Compare,
      Juicity!Wait, Juicity!Abandon, Juicity!CloseCalled, Juicity!CloseClient, Juicity!TimerFires,
      Juicity!RunHook, Juicity!ConnDies, Juicity!WriterWork, Juicity!WriterAnswers,
      Juicity!WriterCloses

-----------------------------------------------------------------------------
(* JuicityClient: every step preserves the invariant                       *)

\* The steps of a dial.
LEMMA CallerSteps ==
  ASSUME Juicity!Setting, JuicityInv, ChanType',
         \/ Juicity!Call \/ Juicity!GetConn \/ Juicity!DialFails \/ Juicity!DialSucceeds \/ Juicity!Open
         \/ Juicity!RetireOrigin \/ Juicity!Compare \/ Juicity!Send \/ Juicity!Wait \/ Juicity!Abandon
  PROVE  JuicityInv'
<1> USE DEF JuicityInv, DialHoldsMutex, DialHasConn, SocketFollowsConn, HookFollowsDone, RetirementStages,
            Juicity!Conns, Juicity!NoConn, Juicity!lifeVars, Juicity!dialVars
<1>1. CASE Juicity!Call
  <2>1. Juicity!TypeOK'
    BY <1>1, Zenon DEF Juicity!Setting, Juicity!TypeOK, ChanType, Juicity!Call
  <2>2. DialHoldsMutex' /\ DialHasConn' /\ SocketFollowsConn' /\ HookFollowsDone' /\ RetirementStages'
    BY <1>1, SMTT(30), Zenon DEF Juicity!Setting, Juicity!TypeOK, Juicity!Call
  <2> QED
    BY <2>1, <2>2, Zenon
<1>2. CASE Juicity!GetConn
  <2>1. Juicity!TypeOK'
    BY <1>2, ReturnKeepsTypes, CloseConnectionKeepsTypes, ZenonT(40)
    DEF Juicity!TypeOK, ChanType, Juicity!GetConn, Juicity!Given
  <2>2. stage = "lock" /\ ~holding /\ timer' = timer /\ late' = late
    BY <1>2, Zenon DEF Juicity!GetConn
  <2>3. CASE quic # Juicity!NoConn /\ Juicity!CloseConnection /\ Juicity!Return /\ UNCHANGED holding
    <3>1. quic \in Juicity!Conns /\ quic' = Juicity!NoConn /\ done' /\ hook' # "set" /\ stage' = "idle"
      BY <2>3, Zenon DEF Juicity!TypeOK, Juicity!CloseConnection, Juicity!Release, Juicity!Return
    <3>2. SocketFollowsConn'
      BY <2>3, <3>1, Zenon DEF Juicity!TypeOK, Juicity!CloseConnection, Juicity!Release
    <3>3. DialHoldsMutex' /\ DialHasConn' /\ HookFollowsDone' /\ RetirementStages'
      BY <2>2, <2>3, <3>1, Zenon
    <3> QED
      BY <2>1, <3>2, <3>3, Zenon
  <2>4. CASE quic # Juicity!NoConn /\ Juicity!Given(quic) /\ UNCHANGED <<Juicity!lifeVars, holding>>
    BY <2>1, <2>2, <2>4, SMTT(30), Zenon DEF Juicity!TypeOK, Juicity!Given
  <2>5. CASE quic = Juicity!NoConn /\ holding' = TRUE /\ stage' = "dial" /\ UNCHANGED Juicity!lifeVars
    BY <2>1, <2>2, <2>5, SMTT(30), Zenon DEF Juicity!TypeOK
  <2> QED
    BY <1>2, <2>3, <2>4, <2>5, Zenon DEF Juicity!GetConn
<1>3. CASE Juicity!DialFails
  <2>1. Juicity!TypeOK'
    BY <1>3, ReturnKeepsTypes, Zenon DEF Juicity!TypeOK, ChanType, Juicity!DialFails
  <2>2. DialHoldsMutex' /\ DialHasConn' /\ SocketFollowsConn' /\ HookFollowsDone' /\ RetirementStages'
    BY <1>3, SMTT(30), Zenon DEF Juicity!Setting, Juicity!TypeOK, Juicity!DialFails, Juicity!Return
  <2> QED
    BY <2>1, <2>2, Zenon
<1>4. CASE Juicity!DialSucceeds
  <2>1. Juicity!TypeOK'
    <3>1. done' \in BOOLEAN /\ holding' \in BOOLEAN /\ auth' \in BOOLEAN /\ late' \in BOOLEAN
      BY <1>4, Zenon DEF Juicity!TypeOK, Juicity!DialSucceeds, Juicity!Given
    <3>2. PICK k \in Juicity!Conns :
            /\ state' = [state EXCEPT ![k] = "live"] /\ sock' = [sock EXCEPT ![k] = "open"] /\ quic' = k
            /\ writer' = [writer EXCEPT ![k] = "run"] /\ Juicity!Given(k)
      BY <1>4, Zenon DEF Juicity!DialSucceeds
    <3>3. /\ state' \in [Juicity!Conns -> {"none", "live", "dead"}]
          /\ sock' \in [Juicity!Conns -> {"none", "open", "closed"}]
          /\ writer' \in [Juicity!Conns -> {"off", "run", "done", "close", "mine", "stale"}]
      BY <3>2, Zenon DEF Juicity!TypeOK
    <3>4. quic' \in Juicity!Conns /\ my' \in Juicity!Conns /\ stage' \in {"compare", "open"} /\ result' = result
      BY <3>2, Zenon DEF Juicity!Given
    <3>5. UNCHANGED <<hook, user, timer>>
      BY <1>4, Zenon DEF Juicity!DialSucceeds
    <3> QED
      BY <3>1, <3>3, <3>4, <3>5, Zenon DEF Juicity!TypeOK, ChanType
  <2>2. PICK k \in Juicity!Conns :
          /\ state[k] = "none" /\ state' = [state EXCEPT ![k] = "live"]
          /\ sock' = [sock EXCEPT ![k] = "open"] /\ quic' = k /\ Juicity!Given(k)
    BY <1>4, Zenon DEF Juicity!DialSucceeds
  <2>3. stage = "dial" /\ holding' = FALSE /\ UNCHANGED <<done, hook, timer, late>>
    BY <1>4, Zenon DEF Juicity!DialSucceeds
  <2>4. quic = Juicity!NoConn /\ k # Juicity!NoConn /\ my' = k /\ stage' \in {"compare", "open"}
    BY <2>2, <2>3 DEF Juicity!Given
  <2>5. DialHoldsMutex' /\ DialHasConn' /\ HookFollowsDone' /\ RetirementStages'
    BY <2>2, <2>3, <2>4, Zenon DEF Juicity!TypeOK
  <2>6. SocketFollowsConn'
    BY <2>2, <2>4, SMTT(30), Zenon DEF Juicity!TypeOK
  <2> QED
    BY <2>1, <2>5, <2>6, Zenon
<1>5. CASE Juicity!Open
  <2>1. Juicity!TypeOK'
    <3>1. CASE Juicity!Return
      BY <1>5, <3>1, ReturnKeepsTypes, Zenon DEF Juicity!TypeOK, ChanType, Juicity!Open
    <3>2. CASE ~Juicity!Return
      BY <1>5, <3>2 DEF Juicity!TypeOK, ChanType, Juicity!Open
    <3> QED
      BY <3>1, <3>2, Zenon
  <2>2. DialHoldsMutex' /\ DialHasConn' /\ SocketFollowsConn' /\ HookFollowsDone' /\ RetirementStages'
    BY <1>5, SMTT(30), Zenon DEF Juicity!Setting, Juicity!TypeOK, Juicity!Open, Juicity!Return
  <2> QED
    BY <2>1, <2>2, Zenon
<1>6. CASE Juicity!RetireOrigin
  <2>1. Juicity!TypeOK'
    BY <1>6, ReturnKeepsTypes, CloseConnectionKeepsTypes, Zenon DEF Juicity!TypeOK, ChanType, Juicity!RetireOrigin
  <2>2. /\ stage = "retire" /\ ~holding /\ UNCHANGED <<holding, timer, late>>
        /\ stage' = "idle"
    BY <1>6, Zenon DEF Juicity!RetireOrigin, Juicity!Return
  <2>3. CASE quic = my /\ Juicity!CloseConnection
    <3>1. quic \in Juicity!Conns /\ quic' = Juicity!NoConn /\ done' /\ hook' # "set"
      BY <2>2, <2>3, Zenon DEF Juicity!TypeOK, Juicity!CloseConnection, Juicity!Release
    <3>2. SocketFollowsConn'
      BY <2>3, <3>1, Zenon DEF Juicity!TypeOK, Juicity!CloseConnection, Juicity!Release
    <3>3. DialHoldsMutex' /\ DialHasConn' /\ HookFollowsDone' /\ RetirementStages'
      BY <2>2, <3>1, Zenon
    <3> QED
      BY <2>1, <3>2, <3>3, Zenon
  <2>4. CASE UNCHANGED Juicity!lifeVars
    BY <2>1, <2>2, <2>4, SMTT(30), Zenon DEF Juicity!TypeOK
  <2> QED
    BY <1>6, <2>3, <2>4, Zenon DEF Juicity!RetireOrigin
<1>7. CASE Juicity!Compare
  <2>1. Juicity!TypeOK'
    BY <1>7 DEF Juicity!Setting, Juicity!TypeOK, ChanType, Juicity!Compare
  <2>2. DialHoldsMutex' /\ DialHasConn' /\ SocketFollowsConn' /\ HookFollowsDone' /\ RetirementStages'
    BY <1>7, SMTT(30), Zenon DEF Juicity!Setting, Juicity!TypeOK, Juicity!Compare
  <2> QED
    BY <2>1, <2>2, Zenon
<1>8. CASE Juicity!Send
  <2>1. Juicity!TypeOK'
    <3>1. CASE Juicity!Return
      BY <1>8, <3>1, ReturnKeepsTypes, Zenon DEF Juicity!TypeOK, ChanType, Juicity!Send
    <3>2. CASE ~Juicity!Return
      BY <1>8, <3>2, ZenonT(40) DEF Juicity!TypeOK, ChanType, Juicity!Send
    <3> QED
      BY <3>1, <3>2, Zenon
  <2>2. DialHoldsMutex' /\ DialHasConn' /\ SocketFollowsConn' /\ HookFollowsDone' /\ RetirementStages'
    BY <1>8, SMTT(30), Zenon DEF Juicity!Setting, Juicity!TypeOK, Juicity!Send, Juicity!Return
  <2> QED
    BY <2>1, <2>2, Zenon
<1>9. CASE Juicity!Wait
  <2>1. Juicity!TypeOK'
    BY <1>9, ReturnKeepsTypes, Zenon DEF Juicity!TypeOK, ChanType, Juicity!Wait
  <2>2. DialHoldsMutex' /\ DialHasConn' /\ SocketFollowsConn' /\ HookFollowsDone' /\ RetirementStages'
    BY <1>9, SMTT(30), Zenon DEF Juicity!Setting, Juicity!TypeOK, Juicity!Wait, Juicity!Return
  <2> QED
    BY <2>1, <2>2, Zenon
<1>10. CASE Juicity!Abandon
  <2>1. Juicity!TypeOK'
    BY <1>10, ReturnKeepsTypes, Zenon DEF Juicity!TypeOK, ChanType, Juicity!Abandon
  <2>2. DialHoldsMutex' /\ DialHasConn' /\ SocketFollowsConn' /\ HookFollowsDone' /\ RetirementStages'
    BY <1>10, SMTT(30), Zenon DEF Juicity!Setting, Juicity!TypeOK, Juicity!Abandon, Juicity!Return
  <2> QED
    BY <2>1, <2>2, Zenon
<1> QED
  BY <1>1, <1>2, <1>3, <1>4, <1>5, <1>6, <1>7, <1>8, <1>9, <1>10, Zenon

\* Close, its timer and the ring's hook.
LEMMA RetireSteps ==
  ASSUME Juicity!Setting, JuicityInv, ChanType',
         Juicity!CloseCalled \/ Juicity!CloseClient \/ Juicity!TimerFires \/ Juicity!RunHook
  PROVE  JuicityInv'
<1> USE DEF JuicityInv, DialHoldsMutex, DialHasConn, SocketFollowsConn, HookFollowsDone, RetirementStages,
            Juicity!Conns, Juicity!NoConn, Juicity!lifeVars, Juicity!dialVars
<1>1. CASE Juicity!CloseCalled
  <2>1. Juicity!TypeOK'
    <3>1. /\ user' = "lock"
          /\ UNCHANGED <<done, hook, quic, state, sock, holding, stage, auth, my, result, writer, timer, late>>
      BY <1>1, Zenon DEF Juicity!CloseCalled
    <3> QED
      BY <3>1, PeerTypes, Zenon DEF Juicity!TypeOK
  <2>2. DialHoldsMutex' /\ DialHasConn' /\ SocketFollowsConn' /\ HookFollowsDone' /\ RetirementStages'
    BY <1>1, SMTT(30), Zenon DEF Juicity!Setting, Juicity!TypeOK, Juicity!CloseCalled
  <2> QED
    BY <2>1, <2>2, Zenon
<1>2. CASE Juicity!CloseClient
  <2>1. Juicity!TypeOK'
    <3>1. done' \in BOOLEAN /\ holding' \in BOOLEAN /\ auth' \in BOOLEAN /\ late' \in BOOLEAN
      BY <1>2, Zenon DEF Juicity!TypeOK, Juicity!CloseClient, Juicity!Cancel
    <3> QED
      BY <1>2, <3>1 DEF Juicity!Setting, Juicity!TypeOK, ChanType, Juicity!CloseClient, Juicity!Cancel
  <2>2. DialHoldsMutex' /\ DialHasConn' /\ SocketFollowsConn' /\ HookFollowsDone' /\ RetirementStages'
    BY <1>2, SMTT(30), Zenon DEF Juicity!Setting, Juicity!TypeOK, Juicity!CloseClient, Juicity!Cancel
  <2> QED
    BY <2>1, <2>2, Zenon
<1>3. CASE Juicity!TimerFires
  <2>1. Juicity!TypeOK'
    BY <1>3 DEF Juicity!Setting, Juicity!TypeOK, ChanType, Juicity!TimerFires, Juicity!Release
  <2>2. DialHoldsMutex' /\ DialHasConn'
    BY <1>3, SMTT(30), Zenon DEF Juicity!Setting, Juicity!TypeOK, Juicity!TimerFires, Juicity!Release
  <2>3. SocketFollowsConn'
    BY <1>3, SMTT(30), Zenon DEF Juicity!Setting, Juicity!TypeOK, Juicity!TimerFires, Juicity!Release
  <2>4. HookFollowsDone'
    BY <1>3, SMTT(30), Zenon DEF Juicity!Setting, Juicity!TypeOK, Juicity!TimerFires, Juicity!Release
  <2>5. RetirementStages'
    <3>1. done' = done /\ stage' = stage /\ timer' = "done" /\ quic' = Juicity!NoConn
      BY <1>3, Zenon DEF Juicity!TimerFires, Juicity!Release
    <3>2. ~late' => stage \notin {"lock", "compare"}
      BY <1>3, Zenon DEF Juicity!TimerFires
    <3>3. done /\ stage # "dial"
      BY <1>3, Zenon DEF Juicity!TypeOK, Juicity!TimerFires
    <3> QED
      BY <3>1, <3>2, <3>3, Zenon
  <2> QED
    BY <2>1, <2>2, <2>3, <2>4, <2>5, Zenon
<1>4. CASE Juicity!RunHook
  <2>1. Juicity!TypeOK'
    BY <1>4, ZenonT(40) DEF Juicity!Setting, Juicity!TypeOK, ChanType, Juicity!RunHook
  <2>2. DialHoldsMutex' /\ DialHasConn' /\ SocketFollowsConn' /\ HookFollowsDone' /\ RetirementStages'
    BY <1>4, SMTT(30), Zenon DEF Juicity!Setting, Juicity!TypeOK, Juicity!RunHook
  <2> QED
    BY <2>1, <2>2, Zenon
<1> QED
  BY <1>1, <1>2, <1>3, <1>4, Zenon

\* The peer's and the authentication writer's steps.
LEMMA ConnSteps ==
  ASSUME Juicity!Setting, JuicityInv, ChanType', NEW k \in Juicity!Conns,
         Juicity!ConnDies(k) \/ Juicity!WriterStep(k) \/ Juicity!WriterAnswers(k) \/ Juicity!WriterCloses(k)
  PROVE  JuicityInv'
<1> USE DEF JuicityInv, DialHoldsMutex, DialHasConn, SocketFollowsConn, HookFollowsDone, RetirementStages,
            Juicity!Conns, Juicity!NoConn, Juicity!lifeVars, Juicity!dialVars
<1>1. CASE Juicity!ConnDies(k)
  <2>1. Juicity!TypeOK'
    <3>1. state' \in [Juicity!Conns -> {"none", "live", "dead"}]
      BY <1>1, Zenon DEF Juicity!TypeOK, Juicity!ConnDies
    <3>2. UNCHANGED <<done, hook, quic, sock, holding, stage, auth, my, result, writer, user, timer, late>>
      BY <1>1, Zenon DEF Juicity!ConnDies
    <3> QED
      BY <3>1, <3>2, PeerTypes, Zenon DEF Juicity!TypeOK
  <2>2. DialHoldsMutex' /\ DialHasConn' /\ SocketFollowsConn' /\ HookFollowsDone' /\ RetirementStages'
    BY <1>1, SMTT(30), Zenon DEF Juicity!Setting, Juicity!TypeOK, Juicity!ConnDies
  <2> QED
    BY <2>1, <2>2, Zenon
<1>2. CASE Juicity!WriterStep(k)
  <2>1. Juicity!TypeOK'
    <3>1. chan[k] # <<>> => Head(chan[k]) \in Juicity!Requests
      BY DEF ChanType
    <3>2. writer' \in [Juicity!Conns -> {"off", "run", "done", "close", "mine", "stale"}]
      BY <1>2, <3>1, Zenon DEF Juicity!TypeOK, Juicity!WriterStep, Juicity!Requests
    <3>3. UNCHANGED <<done, hook, quic, state, sock, holding, stage, auth, my, result, user, timer, late>>
      BY <1>2, Zenon DEF Juicity!WriterStep
    <3> QED
      BY <3>2, <3>3, PeerTypes, Zenon DEF Juicity!TypeOK
  <2>2. DialHoldsMutex' /\ DialHasConn' /\ SocketFollowsConn' /\ HookFollowsDone' /\ RetirementStages'
    BY <1>2, SMTT(30), Zenon DEF Juicity!Setting, Juicity!TypeOK, Juicity!WriterStep, Juicity!Requests
  <2> QED
    BY <2>1, <2>2, Zenon
<1>3. CASE Juicity!WriterAnswers(k)
  <2>1. Juicity!TypeOK'
    <3>1. /\ writer' \in [Juicity!Conns -> {"off", "run", "done", "close", "mine", "stale"}]
          /\ result' \in {"none", "ok", "err"}
      BY <1>3, Zenon DEF Juicity!TypeOK, Juicity!WriterAnswers
    <3>2. UNCHANGED <<done, hook, quic, state, sock, holding, stage, auth, my, user, timer, late>>
      BY <1>3, Zenon DEF Juicity!WriterAnswers
    <3> QED
      BY <3>1, <3>2, PeerTypes, Zenon DEF Juicity!TypeOK
  <2>2. DialHoldsMutex' /\ DialHasConn' /\ SocketFollowsConn' /\ HookFollowsDone' /\ RetirementStages'
    BY <1>3, SMTT(30), Zenon DEF Juicity!Setting, Juicity!TypeOK, Juicity!WriterAnswers, Juicity!Requests
  <2> QED
    BY <2>1, <2>2, Zenon
<1>4. CASE Juicity!WriterCloses(k)
  <2>1. Juicity!TypeOK'
    <3>1. done' \in BOOLEAN /\ holding' \in BOOLEAN /\ auth' \in BOOLEAN /\ late' \in BOOLEAN
      BY <1>4, Zenon DEF Juicity!TypeOK, Juicity!WriterCloses, Juicity!Cancel
    <3> QED
      BY <1>4, <3>1, ZenonT(40) DEF Juicity!Setting, Juicity!TypeOK, ChanType, Juicity!WriterCloses, Juicity!Cancel
  <2>2. DialHoldsMutex' /\ DialHasConn' /\ SocketFollowsConn' /\ HookFollowsDone' /\ RetirementStages'
    BY <1>4, SMTT(30), Zenon DEF Juicity!Setting, Juicity!TypeOK, Juicity!WriterCloses, Juicity!Cancel
  <2> QED
    BY <2>1, <2>2, Zenon
<1> QED
  BY <1>1, <1>2, <1>3, <1>4, Zenon

\* No step leaves the invariant.
LEMMA JuicityStep ==
  ASSUME Juicity!Setting, JuicityInv, [Juicity!Next]_Juicity!vars
  PROVE  JuicityInv'
<1>1. CASE Juicity!Call \/ Juicity!DialStep \/ Juicity!Wait \/ Juicity!Abandon
  BY <1>1, ChansStay, CallerSteps, Zenon DEF Juicity!DialStep
<1>2. CASE Juicity!CloseCalled \/ Juicity!CloseClient \/ Juicity!TimerFires \/ Juicity!RunHook
  BY <1>2, ChansStay, RetireSteps, Zenon
<1>3. CASE \E k \in Juicity!Conns : Juicity!ConnDies(k) \/ Juicity!WriterWork(k)
  BY <1>3, ChansStay, ConnSteps, Zenon DEF Juicity!WriterWork
<1>4. CASE UNCHANGED Juicity!vars
  <2>0. UNCHANGED <<done, hook, quic, state, sock, holding, stage, auth, my, result, chan, writer, user, timer, late>>
    BY <1>4, Zenon DEF Juicity!vars, Juicity!lifeVars, Juicity!dialVars
  <2>1. Juicity!TypeOK' /\ ChanType'
    <3>1. ChanType'
      BY <2>0, Zenon DEF JuicityInv, ChanType
    <3> QED
      BY <2>0, <3>1, PeerTypes, Zenon DEF JuicityInv, Juicity!TypeOK
  <2>2. DialHoldsMutex' /\ DialHasConn' /\ SocketFollowsConn' /\ HookFollowsDone' /\ RetirementStages'
    BY <2>0, Zenon
    DEF JuicityInv, DialHoldsMutex, DialHasConn, SocketFollowsConn, HookFollowsDone, RetirementStages
  <2> QED
    BY <2>1, <2>2, Zenon DEF JuicityInv
<1> QED
  BY <1>1, <1>2, <1>3, <1>4, Zenon DEF Juicity!Next

\* JuicityInv holds in every reachable state, for any number of connections.
THEOREM JuicityInvariant == ASSUME Juicity!Setting PROVE Juicity!Spec => []JuicityInv
<1>1. Juicity!Init => JuicityInv
  <2> SUFFICES ASSUME Juicity!Init PROVE JuicityInv
    OBVIOUS
  <2>1. done \in BOOLEAN /\ holding \in BOOLEAN /\ auth \in BOOLEAN /\ late \in BOOLEAN
    BY Zenon DEF Juicity!Init
  <2>2. Juicity!TypeOK /\ ChanType
    BY <2>1 DEF Juicity!Setting, Juicity!Init, Juicity!TypeOK, ChanType
  <2>3. DialHoldsMutex /\ DialHasConn /\ SocketFollowsConn /\ HookFollowsDone /\ RetirementStages
    BY Zenon DEF Juicity!Init, DialHoldsMutex, DialHasConn, SocketFollowsConn, HookFollowsDone, RetirementStages
  <2> QED
    BY <2>2, <2>3, Zenon DEF JuicityInv
<1>2. JuicityInv /\ [Juicity!Next]_Juicity!vars => JuicityInv'
  BY JuicityStep, Zenon
<1> QED
  BY <1>1, <1>2, PTL DEF Juicity!Spec

-----------------------------------------------------------------------------
(* JuicityClient: what follows                                             *)

\* The three ways a Juicity client retires (a dial that meets the dead tunnel,
\* an error of its own tunnel, Close with its timer) release the socket with the
\* connection, and a retired client at rest holds no tunnel.
THEOREM JuicityRetirementIsSafe == ASSUME Juicity!Setting PROVE Juicity!Spec => []Juicity!JuicityClientSafe
<1>1. JuicityInv => Juicity!JuicityClientSafe
  BY Zenon
  DEF JuicityInv, Juicity!JuicityClientSafe, Juicity!TypeOK, SocketFollowsConn, RetirementStages,
      Juicity!SocketIsAttached,
         Juicity!RetiredHoldsNothing
<1> QED
  BY <1>1, JuicityInvariant, PTL

\* A Juicity client is a client as the ring expects it: it connects at most once
\* before it retires, retires for good, and starts the ring's hook exactly once,
\* although three code paths can retire it.
THEOREM JuicityImplementsRingClient == ASSUME Juicity!Setting PROVE Juicity!Spec => Juicity!ImplementsRingClient
<1>1. Juicity!Init => Juicity!Ring!Init
  BY Zenon DEF Juicity!Init, Juicity!Ring!Init, Juicity!life
<1>2. ASSUME JuicityInv, [Juicity!Next]_Juicity!vars PROVE [Juicity!Ring!Next]_(Juicity!Ring!vars)
  <2> USE DEF JuicityInv, Juicity!Ring!Next, Juicity!Ring!Connect, Juicity!Ring!Retire, Juicity!Ring!RunHook,
              Juicity!Ring!vars, Juicity!life, Juicity!lifeVars
  <2>1. CASE Juicity!CloseConnection
    BY <1>2, <2>1, Zenon DEF Juicity!TypeOK, HookFollowsDone, Juicity!CloseConnection
  <2>2. CASE Juicity!Cancel
    BY <1>2, <2>2, Zenon DEF Juicity!TypeOK, HookFollowsDone, Juicity!Cancel
  <2>3. CASE Juicity!DialSucceeds
    BY <1>2, <2>3, Zenon DEF Juicity!TypeOK, DialHoldsMutex, Juicity!DialSucceeds, Juicity!Conns, Juicity!NoConn
  <2>4. CASE Juicity!TimerFires
    BY <1>2, <2>4, Zenon DEF RetirementStages, Juicity!TimerFires
  <2>5. CASE Juicity!RunHook
    BY <1>2, <2>5, Zenon DEF Juicity!RunHook
  <2>6. CASE UNCHANGED <<done, hook, quic>>
    BY <2>6, Zenon
  <2> QED
    BY <1>2, <2>1, <2>2, <2>3, <2>4, <2>5, <2>6, Zenon
    DEF Juicity!Next, Juicity!vars, Juicity!Call, Juicity!DialStep, Juicity!GetConn, Juicity!DialFails,
        Juicity!Open, Juicity!RetireOrigin, Juicity!Compare, Juicity!Send, Juicity!Wait, Juicity!Abandon,
        Juicity!CloseCalled, Juicity!CloseClient, Juicity!ConnDies, Juicity!WriterWork, Juicity!WriterStep,
        Juicity!WriterAnswers, Juicity!WriterCloses
<1> QED
  BY <1>1, <1>2, JuicityInvariant, PTL DEF Juicity!Spec, Juicity!ImplementsRingClient, Juicity!Ring!Spec
=============================================================================
