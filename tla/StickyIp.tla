------------------------------ MODULE StickyIp ------------------------------
(***************************************************************************)
(* StickyIpDialer (dialer/stickyip): within one health check cycle, dials  *)
(* of a proxy domain reuse the address that worked, kept per protocol and  *)
(* IP version in the entry of a ProxyIpCache.  Several dials run at once;  *)
(* the health checker advances the cycle and then drops the old entry in   *)
(* a second step, and the entry expires on its own.                        *)
(*                                                                         *)
(* One proxy domain, so one entry.  Time is the budget each dial has left; *)
(* the age of the entry is the flag expired.                               *)
(***************************************************************************)
EXTENDS Integers, Sequences

CONSTANTS Dials,      \* concurrent calls of DialContext
          Requests,   \* what they may ask for, records of a protocol and an IP version
          Version,    \* [address -> {"4", "6"}]
          Works,      \* the pairs of a protocol and an address that can be dialled
          Answers,    \* the sequences of addresses a lookup may return
          MaxCycle,   \* bound on the health check cycles
          Expiries,   \* bound on the expiries of the entry
          Budget,     \* time a caller's context leaves to its dial
          Reserve,    \* stickyFallbackReservePerAttempt
          None

Ips == DOMAIN Version
Networks == {"tcp", "udp"}
Keys == Networks \X {"4", "6"}
Empty == [k \in Keys |-> None]

VARIABLES
  entry,    \* None, or [addr, expired, cycle]
  cycle,    \* StickyIpDialer.checkCycle
  checker,  \* the health checker: "idle", or "added" between Add and the invalidation
  expiries,
  dial,     \* the state of each call
  open      \* connections the calls hold, as pairs of a dial and an address

vars == <<entry, cycle, checker, expiries, dial, open>>

\* A call: where it is, its request, the cycle it loaded, the cached address it was given,
\* the addresses it has still to try with the one under way first, and its budget.
Calls == [pc : {"idle", "get", "purge", "cached", "drop4", "drop6", "resolve", "try", "load", "set", "direct"},
          req : Requests, seen : 0..MaxCycle, served : Ips \cup {None},
          todo : {<<>>} \cup UNION {[1..n -> Ips] : n \in 1..2}, left : 0..Budget]
Idle(r) == [pc |-> "idle", req |-> r, seen |-> 0, served |-> None, todo |-> <<>>, left |-> Budget]

TypeOK ==
  /\ entry \in {None} \cup [addr : [Keys -> Ips \cup {None}], expired : BOOLEAN, cycle : 0..MaxCycle]
  /\ cycle \in 0..MaxCycle /\ checker \in {"idle", "added"} /\ expiries \in 0..Expiries
  /\ dial \in [Dials -> Calls] /\ open \subseteq Dials \X Ips

Init ==
  /\ entry = None /\ cycle = 0 /\ checker = "idle" /\ expiries = 0 /\ open = {}
  /\ \E r \in Requests : dial = [d \in Dials |-> Idle(r)]

-----------------------------------------------------------------------------
(* The cache; each operator is one critical section.                       *)

\* The addresses of the entry e for a request, in the order of the lookups: a request for
\* any version asks for "4" first.
Candidates(e, r) ==
  SelectSeq(IF r.ver = "any" THEN <<e.addr[<<r.net, "4">>], e.addr[<<r.net, "6">>]>>
                             ELSE <<e.addr[<<r.net, r.ver>>]>>,
            LAMBDA a : a # None)

\* GetWithCycle(AndIpVersion): None when nothing can be served.
Cached(e, r, c) ==
  IF e = None \/ e.expired \/ e.cycle # c \/ Candidates(e, r) = <<>> THEN None ELSE Candidates(e, r)[1]

\* The field of the entry that keeps address a, dialled for a request.
StoreKeyAsked(r, a) == <<r.net, IF r.ver = "any" THEN "4" ELSE r.ver>>
StoreKey(r, a) == <<r.net, Version[a]>>

\* Set stores one address and refreshes expiry and cycle of the whole entry.  The clean-up
\* before it, due once in a while, removes an expired entry.
Set(a, r, c, cleanup) ==
  LET fresh == entry = None \/ (cleanup /\ entry.expired)
      k == StoreKey(r, a)
  IN  entry' = [addr |-> [IF fresh THEN Empty ELSE entry.addr EXCEPT ![k] = a],
                expired |-> FALSE, cycle |-> c]

\* InvalidateProtocolAndIpVersion: the entry goes with its last address.
Invalidate(k) ==
  entry' = IF entry = None \/ [entry.addr EXCEPT ![k] = None] = Empty THEN None
           ELSE [entry EXCEPT !.addr[k] = None]

\* deleteIfExpired looks again under the write lock.
DropExpiredAnyway == entry' = None
DropExpired == entry' = IF entry # None /\ entry.expired THEN None ELSE entry

\* CacheTTL passes.
Expire ==
  /\ entry # None /\ ~entry.expired /\ expiries < Expiries
  /\ entry' = [entry EXCEPT !.expired = TRUE] /\ expiries' = expiries + 1
  /\ UNCHANGED <<cycle, checker, dial, open>>

\* IncrementCheckCycle: Add, and then the entry of the old cycle is dropped.
AddCycle ==
  /\ checker = "idle" /\ cycle < MaxCycle
  /\ cycle' = cycle + 1 /\ checker' = "added"
  /\ UNCHANGED <<entry, expiries, dial, open>>

InvalidateCycle ==
  /\ checker = "added" /\ checker' = "idle"
  /\ entry' = IF entry # None /\ entry.cycle = cycle - 1 THEN None ELSE entry
  /\ UNCHANGED <<cycle, expiries, dial, open>>

-----------------------------------------------------------------------------
(* DialContext.  The clauses below describe dial'[d], the rest of the step *)
(* of call d being its effect on the entry and on open.                    *)

At(d, where) == dial[d].pc = where
Becomes(d, call) == dial' = [dial EXCEPT ![d] = call]
Goto(d, where) == Becomes(d, [dial[d] EXCEPT !.pc = where])
Return(d) == \E r \in Requests : Becomes(d, Idle(r))
Same == UNCHANGED <<cycle, checker, expiries>>

\* getCachedProxyAddr loads the cycle before it takes the lock.  A dial of an address other
\* than the proxy's passes through.
Start(d) ==
  /\ At(d, "idle")
  /\ Becomes(d, [dial[d] EXCEPT !.pc = "get", !.seen = cycle]) \/ Goto(d, "direct")
  /\ Same /\ UNCHANGED <<entry, open>>

Get(d) ==
  LET a == Cached(entry, dial[d].req, dial[d].seen)
  IN  /\ At(d, "get")
      /\ Becomes(d, [dial[d] EXCEPT !.served = a,
                       !.pc = IF a # None THEN "cached"
                              ELSE IF entry # None /\ entry.expired THEN "purge" ELSE "resolve"])
      /\ Same /\ UNCHANGED <<entry, open>>

Purge(d) == At(d, "purge") /\ DropExpired /\ Goto(d, "resolve") /\ Same /\ UNCHANGED open

\* The share of the budget that dialAttemptContext gives an attempt when n remain.
Slice(budget, n) ==
  LET wish == (n - 1) * Reserve
      reserve == IF wish > budget \div 2 THEN budget \div 2 ELSE wish
  IN  IF n = 1 \/ budget = 0 THEN budget ELSE budget - reserve

\* The attempt on the cached address works, is cancelled, or fails in time or out of time.
CachedWorks(d) ==
  /\ At(d, "cached") /\ <<dial[d].req.net, dial[d].served>> \in Works
  /\ Return(d) /\ Same /\ UNCHANGED <<entry, open>>
CachedCancelled(d) == At(d, "cached") /\ Return(d) /\ Same /\ UNCHANGED <<entry, open>>
CachedFails(d) ==
  /\ At(d, "cached")
  /\ \E used \in {0, Slice(dial[d].left, 2)} : Becomes(d, [dial[d] EXCEPT !.pc = "drop4", !.left = @ - used])
  /\ Same /\ UNCHANGED <<entry, open>>

\* InvalidateProtocol takes the lock once for each version.
Drop(d) ==
  /\ \/ At(d, "drop4") /\ Invalidate(<<dial[d].req.net, "4">>) /\ Goto(d, "drop6")
     \/ At(d, "drop6") /\ Invalidate(<<dial[d].req.net, "6">>) /\ Goto(d, "resolve")
  /\ Same /\ UNCHANGED open

\* dialWithIpResolution: the lookup fails or is cancelled, or its answer is filtered.
OfVersion(ips, ver) == SelectSeq(ips, LAMBDA a : ver = "any" \/ Version[a] = ver)
Resolve(d) ==
  /\ At(d, "resolve")
  /\ \/ Goto(d, "direct") \/ Return(d)
     \/ \E ips \in Answers :
          LET rest == OfVersion(ips, dial[d].req.ver)
          IN  IF rest = <<>> THEN Return(d) ELSE Becomes(d, [dial[d] EXCEPT !.pc = "try", !.todo = rest])
  /\ Same /\ UNCHANGED <<entry, open>>

TryWorks(d) ==
  /\ At(d, "try") /\ dial[d].left > 0 /\ <<dial[d].req.net, Head(dial[d].todo)>> \in Works
  /\ Goto(d, "load") /\ open' = open \cup {<<d, Head(dial[d].todo)>>}
  /\ Same /\ UNCHANGED entry
TryCancelled(d) == At(d, "try") /\ Return(d) /\ Same /\ UNCHANGED <<entry, open>>

\* The address is given up after some of its time, and the next one is tried if there is one.
NextAddress(d, used) ==
  IF Len(dial[d].todo) = 1 THEN Return(d)
  ELSE Becomes(d, [dial[d] EXCEPT !.todo = Tail(@), !.left = @ - used])
TryFails(d) ==
  /\ At(d, "try")
  /\ \E used \in {0, Slice(dial[d].left, Len(dial[d].todo))} : NextAddress(d, used)
  /\ Same /\ UNCHANGED <<entry, open>>

\* A UDP dial opened a connection that is no PacketConn, and closes it again.
NotPacket(d) ==
  /\ At(d, "try") /\ dial[d].req.net = "udp" /\ dial[d].left > 0
  /\ NextAddress(d, 0) /\ Same /\ UNCHANGED <<entry, open>>

\* The cycle is loaded, then the address is stored under it and the connection returned.
LoadCycle(d) ==
  /\ At(d, "load") /\ Becomes(d, [dial[d] EXCEPT !.pc = "set", !.seen = cycle])
  /\ Same /\ UNCHANGED <<entry, open>>
Store(d) ==
  /\ At(d, "set")
  /\ \E cleanup \in BOOLEAN : Set(Head(dial[d].todo), dial[d].req, dial[d].seen, cleanup)
  /\ Return(d) /\ open' = open \ {<<d, Head(dial[d].todo)>>} /\ Same

\* The name itself is handed to the inner dialer, whose result the call returns.
Direct(d) == At(d, "direct") /\ Return(d) /\ Same /\ UNCHANGED <<entry, open>>

Step(d) ==
  \/ Get(d) \/ Purge(d) \/ CachedWorks(d) \/ CachedCancelled(d) \/ CachedFails(d) \/ Drop(d) \/ Resolve(d)
  \/ TryWorks(d) \/ TryCancelled(d) \/ TryFails(d) \/ NotPacket(d) \/ LoadCycle(d) \/ Store(d) \/ Direct(d)

Next == Expire \/ AddCycle \/ InvalidateCycle \/ \E d \in Dials : Start(d) \/ Step(d)

Spec == Init /\ [][Next]_vars

-----------------------------------------------------------------------------
(* Properties.                                                             *)

\* An address is kept only under a protocol it can be dialled with and the IP version it
\* has, and an entry does not outlive its last address.
CacheHoldsProven ==
  entry # None =>
    /\ entry.addr # Empty
    /\ \A k \in Keys : entry.addr[k] # None => Version[entry.addr[k]] = k[2] /\ <<k[1], entry.addr[k]>> \in Works

\* A call dials only addresses of the IP version it was asked for, and the only connection
\* it holds is the one it stores and returns next.
ConnsAreReturned ==
  /\ \A o \in open : dial[o[1]].pc \in {"load", "set"} /\ Head(dial[o[1]].todo) = o[2]
  /\ \A d \in Dials : LET ver == dial[d].req.ver IN
       /\ dial[d].pc = "cached" => ver \in {"any", Version[dial[d].served]}
       /\ dial[d].pc \in {"try", "load", "set"} => ver \in {"any", Version[Head(dial[d].todo)]}

\* dialAttemptContext leaves time to the candidates that follow: no address is tried with
\* an exhausted budget, however long the attempts before it took.
EveryCandidateGetsTime == \A d \in Dials : dial[d].pc \in {"cached", "try"} => dial[d].left > 0

\* An entry that has not expired is removed only because its cycle ended or its last
\* address was invalidated, not by a dial that found an older entry expired.
FreshEntryStays ==
  [][entry # None /\ ~entry.expired /\ entry' = None =>
       checker' # checker \/ \E d \in Dials : dial[d].pc \in {"drop4", "drop6"} /\ dial'[d] # dial[d]]_vars

=============================================================================
