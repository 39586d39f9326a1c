----------------------------- MODULE ClientRing -----------------------------
(***************************************************************************)
(* The failover ring the QUIC protocols share (protocol/infra/clientring): *)
(* a list of clients, a cursor, and a single-permit semaphore under which  *)
(* every operation runs.  A dial attempt tries the client under the        *)
(* cursor, walks the list on an error and constructs a client when the     *)
(* walk comes back to where it started.                                    *)
(*                                                                         *)
(* The permit makes the ring's own state sequential.  What interleaves     *)
(* with a holder is everything outside: a client's tunnel dies at any      *)
(* time, its close hook runs in a goroutine of its own (`go t.onClose()`)  *)
(* and waits for the permit, a caller's context is cancelled, a capability *)
(* report arrives, and Close tears the detached clients down after it has  *)
(* released the permit.                                                    *)
(***************************************************************************)
EXTENDS Integers, Sequences, FiniteSets

CONSTANTS
  Clients,      \* identities of the clients the ring may construct
  Procs,        \* goroutines that dial through the ring
  Closers,      \* goroutines that call Ring.Close
  Free, Nil,    \* "no holder", "no list element"
  Reports,      \* values a capability report may carry
  Reserved      \* Ring.reserved: capability at or below it holds dials back

ASSUME SetsAssumption == Nil \notin Clients /\ Free \notin Procs
ASSUME CapabilityAssumption == Reports \subseteq Nat /\ Reserved \in Nat

VARIABLES
  permit,      \* who holds the semaphore across steps: a process or Free
  closed,      \* Ring.closed
  ring,        \* the list: a sequence of clients
  current,     \* Ring.current
  pc,          \* where each dialing process is
  cursor,      \* tryNext's *current, per process
  err,         \* class of the last attempt's error, per process
  cancelled,   \* the caller's context is done
  tried,       \* clients attempted in this call (history, for the properties)
  client,      \* life cycle of each client
  capability,  \* Node.capability
  removals,    \* close hooks spawned and not run yet
  closing      \* Close's snapshot of the clients still to be closed

ringVars == <<permit, closed, ring, current>>
callVars == <<pc, cursor, err, cancelled, tried>>
cliVars  == <<client, capability, removals, closing>>
vars     == <<ringVars, callVars, cliVars>>

Unknown == -1

\* What a dial attempt returns, as far as IsFailoverError tells it apart.
Failover == {"exhausted", "closed", "hold"}
Errors   == Failover \cup {"other"}

TypeOK ==
  /\ permit \in Procs \cup {Free}
  /\ closed \in BOOLEAN
  /\ ring \in Seq(Clients)
  /\ current \in Clients \cup {Nil}
  /\ pc \in [Procs -> {"idle", "acquire", "try", "failed", "new", "first"}]
  /\ cursor \in [Procs -> Clients \cup {Nil}]
  /\ err \in [Procs -> Errors \cup {"none"}]
  /\ cancelled \in [Procs -> BOOLEAN]
  /\ tried \in [Procs -> SUBSET Clients]
  /\ client \in [Clients -> {"none", "fresh", "up", "closed"}]
  /\ capability \in [Clients -> Reports \cup {Unknown}]
  /\ removals \in SUBSET Clients
  /\ closing \in [Closers -> SUBSET Clients]

Init ==
  /\ permit = Free
  /\ closed = FALSE
  /\ ring = <<>>
  /\ current = Nil
  /\ pc = [p \in Procs |-> "idle"]
  /\ cursor = [p \in Procs |-> Nil]
  /\ err = [p \in Procs |-> "none"]
  /\ cancelled = [p \in Procs |-> FALSE]
  /\ tried = [p \in Procs |-> {}]
  /\ client = [c \in Clients |-> "none"]
  /\ capability = [c \in Clients |-> Unknown]
  /\ removals = {}
  /\ closing = [k \in Closers |-> {}]

-----------------------------------------------------------------------------
(* The list: container/list's Next, Front, InsertAfter, PushBack, Remove.  *)

Contains(s, e) == \E i \in 1..Len(s) : s[i] = e
ToSet(s) == {s[i] : i \in 1..Len(s)}
InsertAt(s, i, e) == SubSeq(s, 1, i - 1) \o <<e>> \o SubSeq(s, i, Len(s))
RemoveAt(s, i) == SubSeq(s, 1, i - 1) \o SubSeq(s, i + 1, Len(s))

InRing(c) == Contains(ring, c)
Position(c) == CHOOSE i \in 1..Len(ring) : ring[i] = c
NextOf(c) == IF Position(c) = Len(ring) THEN Nil ELSE ring[Position(c) + 1]
FrontElem == IF ring = <<>> THEN Nil ELSE ring[1]
\* `*current = (*current).Next()`, or the front element behind the last one.
Following(c) == IF NextOf(c) = Nil THEN FrontElem ELSE NextOf(c)
Unused == {c \in Clients : client[c] = "none"}

-----------------------------------------------------------------------------
(* TryNextContext                                                          *)

\* Bound: a call starts only while every call in flight could still
\* construct a client.  A closed ring constructs none.
Call(p) ==
  /\ pc[p] = "idle"
  /\ \/ closed
     \/ Cardinality(Unused) > Cardinality({q \in Procs : pc[q] # "idle"})
  /\ pc' = [pc EXCEPT ![p] = "acquire"]
  /\ UNCHANGED <<cursor, err, cancelled, tried, ringVars, cliVars>>

\* The caller's context ends; the code looks at it between attempts.
Cancel(p) ==
  /\ pc[p] # "idle"
  /\ cancelled' = [cancelled EXCEPT ![p] = TRUE]
  /\ UNCHANGED <<pc, cursor, err, tried, ringVars, cliVars>>

\* The call is over: its local variables are gone.
Leave(p) ==
  /\ pc' = [pc EXCEPT ![p] = "idle"]
  /\ cursor' = [cursor EXCEPT ![p] = Nil]
  /\ err' = [err EXCEPT ![p] = "none"]
  /\ cancelled' = [cancelled EXCEPT ![p] = FALSE]
  /\ tried' = [tried EXCEPT ![p] = {}]

\* sem.Acquire(ctx, 1) returned ctx's error.
AbandonWait(p) ==
  /\ pc[p] = "acquire"
  /\ cancelled[p]
  /\ Leave(p)
  /\ UNCHANGED <<ringVars, cliVars>>

\* Mutant of Acquire: TryNextContext without its look at r.closed.
AcquireUnchecked(p) ==
  /\ pc[p] = "acquire"
  /\ permit = Free
  /\ pc' = [pc EXCEPT ![p] = "try"]
  /\ permit' = p
  /\ cursor' = [cursor EXCEPT ![p] = current]
  /\ UNCHANGED <<err, cancelled, tried, closed, ring, current, cliVars>>

\* Permit acquired: a closed ring answers ErrClientClosed and releases it.
Acquire(p) ==
  /\ pc[p] = "acquire"
  /\ permit = Free
  /\ IF closed
     THEN Leave(p) /\ UNCHANGED permit
     ELSE /\ pc' = [pc EXCEPT ![p] = "try"]
          /\ permit' = p
          /\ cursor' = [cursor EXCEPT ![p] = current]
          /\ UNCHANGED <<err, cancelled, tried>>
  /\ UNCHANGED <<closed, ring, current, cliVars>>

\* TryNextContext's return: the walk's position becomes the ring's, and the
\* permit is released.
Return(p) ==
  /\ current' = cursor[p]
  /\ permit' = Free
  /\ Leave(p)

\* What one run of the dial callback may return for client c.  The
\* capability gate answers before the client is asked, and a closed client
\* answers ErrClientClosed.
Outcomes(c) ==
  IF capability[c] # Unknown /\ capability[c] <= Reserved
  THEN {"hold"}
  ELSE IF client[c] = "closed" THEN {"closed"}
  ELSE {"ok", "exhausted", "other"}

\* A dial that got an answer from the tunnel has one; any other dial error
\* may have come before or after the tunnel was up.
AfterDial(c, out) ==
  \/ /\ out \in {"ok", "exhausted"}
     /\ client' = [client EXCEPT ![c] = "up"]
  \/ /\ out = "other"
     /\ client' \in {client, [client EXCEPT ![c] = "up"]}
  \/ /\ out \in {"hold", "closed"}
     /\ UNCHANGED client

\* One iteration of tryNext up to the callback's result.
Try(p) ==
  /\ pc[p] = "try"
  /\ \/ /\ cancelled[p]
        /\ Return(p)
        /\ UNCHANGED client
     \/ /\ ~cancelled[p]
        /\ cursor[p] = Nil
        /\ pc' = [pc EXCEPT ![p] = "new"]
        /\ UNCHANGED <<permit, current, cursor, err, cancelled, tried, client>>
     \/ /\ ~cancelled[p]
        /\ cursor[p] # Nil
        /\ \E out \in Outcomes(cursor[p]) :
             /\ AfterDial(cursor[p], out)
             /\ IF out = "ok"
                THEN Return(p)
                ELSE /\ pc' = [pc EXCEPT ![p] = "failed"]
                     /\ err' = [err EXCEPT ![p] = out]
                     /\ tried' = [tried EXCEPT ![p] = @ \cup {cursor[p]}]
                     /\ UNCHANGED <<permit, current, cursor, cancelled>>
  /\ UNCHANGED <<closed, ring, capability, removals, closing>>

\* Mutant of Step: a failover-class error asks for a new client at once.
StepEager(p) ==
  LET next == Following(cursor[p]) IN
  /\ pc[p] = "failed"
  /\ pc' = [pc EXCEPT ![p] = IF err[p] \in Failover THEN "new" ELSE "try"]
  /\ cursor' = [cursor EXCEPT ![p] = next]
  /\ UNCHANGED <<permit, current, err, cancelled, tried, closed, ring, cliVars>>

\* Mutant of Step: the error return forgets to release the permit.
StepKeepsPermit(p) ==
  LET next == Following(cursor[p]) IN
  /\ pc[p] = "failed"
  /\ \/ /\ next = current
        /\ err[p] \notin Failover
        /\ UNCHANGED <<permit, current>>
        /\ Leave(p)
     \/ /\ next # current \/ err[p] \in Failover
        /\ pc' = [pc EXCEPT ![p] = IF next = current THEN "new" ELSE "try"]
        /\ cursor' = [cursor EXCEPT ![p] = next]
        /\ UNCHANGED <<permit, current, err, cancelled, tried>>
  /\ UNCHANGED <<closed, ring, cliVars>>

\* The rest of the iteration: stop if the caller gave up, else step to the
\* next element, wrapping at the end, until the walk is back at the start.
\* There a failover-class error asks for a new client and any other error
\* is the call's result.
Step(p) ==
  LET next == Following(cursor[p]) IN
  /\ pc[p] = "failed"
  /\ \/ /\ cancelled[p]
        /\ Return(p)
     \/ /\ ~cancelled[p]
        /\ next = current
        /\ err[p] \notin Failover
        /\ permit' = Free
        /\ UNCHANGED current
        /\ Leave(p)
     \/ /\ ~cancelled[p]
        /\ next # current \/ err[p] \in Failover
        /\ pc' = [pc EXCEPT ![p] = IF next = current THEN "new" ELSE "try"]
        /\ cursor' = [cursor EXCEPT ![p] = next]
        /\ UNCHANGED <<permit, current, err, cancelled, tried>>
  /\ UNCHANGED <<closed, ring, cliVars>>

\* insertAfterCurrent: the list with c behind the ring's current element.
Inserted(c) ==
  IF current = Nil THEN Append(ring, c) ELSE InsertAt(ring, Position(current) + 1, c)

\* The getNew label: construct a client, register its close hook, insert it.
\* (The code's second look at r.closed cannot fire: closed only changes
\* under the permit.)
GetNew(p) ==
  /\ pc[p] = "new"
  /\ \/ /\ cancelled[p]
        /\ Return(p)
        /\ UNCHANGED <<ring, client>>
     \/ /\ ~cancelled[p]
        /\ \E c \in Unused :
             /\ client' = [client EXCEPT ![c] = "fresh"]
             /\ ring' = Inserted(c)
             /\ current' = c
             /\ cursor' = [cursor EXCEPT ![p] = c]
        /\ pc' = [pc EXCEPT ![p] = "first"]
        /\ UNCHANGED <<permit, err, cancelled, tried>>
  /\ UNCHANGED <<closed, capability, removals, closing>>

\* `return f(newNode)`: the new client's first dial decides the call.
FirstDial(p) ==
  /\ pc[p] = "first"
  /\ \E out \in Outcomes(cursor[p]) : AfterDial(cursor[p], out)
  /\ Return(p)
  /\ UNCHANGED <<closed, ring, capability, removals, closing>>

-----------------------------------------------------------------------------
(* What happens to clients outside the permit                              *)

\* Mutant of Shut: the client closes and its hook is never started.
ShutSilently(c) ==
  /\ client' = [client EXCEPT ![c] = "closed"]
  /\ UNCHANGED removals

\* forceClose of a client: terminal, and the close hook runs exactly once in
\* a goroutine of its own.
Shut(c) ==
  IF client[c] = "closed"
  THEN UNCHANGED <<client, removals>>
  ELSE /\ client' = [client EXCEPT ![c] = "closed"]
       /\ removals' = removals \cup {c}

\* A client's tunnel fails.  Only a client that has a tunnel can lose it.
TunnelDies(c) ==
  /\ client[c] = "up"
  /\ Shut(c)
  /\ UNCHANGED <<capability, closing, ringVars, callVars>>

\* quic-go reports how many more streams the tunnel may open.
Report(c, n) ==
  /\ client[c] = "up"
  /\ capability' = [capability EXCEPT ![c] = n]
  /\ UNCHANGED <<client, removals, closing, ringVars, callVars>>

\* Mutant of PassiveRemove: the ring's cursor is not moved off the element.
PassiveRemoveKeepsCurrent(c) ==
  /\ c \in removals
  /\ permit = Free
  /\ removals' = removals \ {c}
  /\ ring' = IF InRing(c) THEN RemoveAt(ring, Position(c)) ELSE ring
  /\ UNCHANGED <<permit, closed, current, client, capability, closing, callVars>>

\* The hook: passiveRemove under the permit.  An element that is already
\* detached is left alone.
PassiveRemove(c) ==
  /\ c \in removals
  /\ permit = Free
  /\ removals' = removals \ {c}
  /\ IF InRing(c)
     THEN /\ current' = IF current = c THEN NextOf(c) ELSE current
          /\ ring' = RemoveAt(ring, Position(c))
     ELSE UNCHANGED <<current, ring>>
  /\ UNCHANGED <<permit, closed, client, capability, closing, callVars>>

\* Mutant of CloseRing: the list is emptied and no client is kept to close.
CloseRingDrops(k) ==
  /\ closing[k] = {}
  /\ permit = Free
  /\ closed' = TRUE
  /\ ring' = <<>>
  /\ current' = Nil
  /\ UNCHANGED <<permit, client, capability, removals, closing, callVars>>

\* Close's critical section: refuse later dials and detach every element.
CloseRing(k) ==
  /\ closing[k] = {}
  /\ permit = Free
  /\ closed' = TRUE
  /\ closing' = [closing EXCEPT ![k] = ToSet(ring)]
  /\ ring' = <<>>
  /\ current' = Nil
  /\ UNCHANGED <<permit, client, capability, removals, callVars>>

\* Close's loop over the snapshot, after the permit is released.
CloseClient(k, c) ==
  /\ c \in closing[k]
  /\ closing' = [closing EXCEPT ![k] = @ \ {c}]
  /\ Shut(c)
  /\ UNCHANGED <<capability, ringVars, callVars>>

-----------------------------------------------------------------------------
Next ==
  \/ \E p \in Procs :
       \/ Call(p) \/ Cancel(p) \/ AbandonWait(p) \/ Acquire(p)
       \/ Try(p) \/ Step(p) \/ GetNew(p) \/ FirstDial(p)
  \/ \E c \in Clients : TunnelDies(c) \/ PassiveRemove(c)
  \/ \E c \in Clients, n \in Reports : Report(c, n)
  \/ \E k \in Closers : CloseRing(k)
  \/ \E k \in Closers, c \in Clients : CloseClient(k, c)

Spec == Init /\ [][Next]_vars

(* The steps a goroutine takes by itself happen (a dial returns: the QUIC  *)
(* handshake and idle timeouts bound it).  The permit is strongly fair:    *)
(* semaphore.Weighted serves its waiters in arrival order.  Nobody has to  *)
(* call, cancel, close or lose a tunnel.                                   *)
Fairness ==
  /\ \A p \in Procs : WF_vars(Try(p) \/ Step(p) \/ GetNew(p) \/ FirstDial(p)) /\ SF_vars(Acquire(p))
  /\ \A c \in Clients : SF_vars(PassiveRemove(c))
  /\ \A k \in Closers : WF_vars(\E c \in Clients : CloseClient(k, c))

FairSpec == Spec /\ Fairness

-----------------------------------------------------------------------------
(* Properties                                                              *)

\* The ring's cursor, and the cursor of a walk in progress, point at an
\* element of the list: the walk's type assertion on the element's value
\* never meets the nil that passiveRemove and Close leave behind.
CursorsInRing ==
  /\ current # Nil => InRing(current)
  /\ \A p \in Procs : cursor[p] # Nil => InRing(cursor[p])

\* Every client that is not closed is in the list or in the snapshot of a
\* Close that still has to close it: none is dropped while its tunnel, its
\* sockets and its goroutines live on.
NoClientLost ==
  \A c \in Clients :
    client[c] \in {"fresh", "up"} =>
      InRing(c) \/ \E k \in Closers : c \in closing[k]

\* A closed ring is empty, and no dial is under way in it.
ClosedIsEmpty ==
  closed => /\ ring = <<>>
            /\ current = Nil
            /\ permit = Free

\* Close is terminal: no step of a closed ring constructs a client.
NoClientAfterClose ==
  [][closed => \A c \in Clients : client[c] = "none" => client'[c] = "none"]_vars

\* The ring's view of a client: a close hook that has started and has not
\* removed its client yet is "due".
ClientHook(c) ==
  IF client[c] # "closed" THEN "set" ELSE IF c \in removals THEN "due" ELSE "ran"
ClientLife(c) == IF client[c] = "none" THEN "fresh" ELSE client[c]
ClientView(c) == INSTANCE RingClient WITH life <- ClientLife(c), hook <- ClientHook(c)

\* The ring treats each of its clients as the abstract client that the protocol
\* clients implement: it never revives one and its hook runs once.
ClientsAreRingClients ==
  [][\A c \in Clients : [ClientView(c)!Next]_<<ClientLife(c), ClientHook(c)>>]_vars

\* A walk that started at an element constructs a client only after it has
\* tried every client of the list.
WalkCoversRing ==
  \A p \in Procs :
    pc[p] = "new" /\ cursor[p] # Nil =>
      \A c \in Clients : InRing(c) => c \in tried[p]

\* Every dial gets an answer, whatever the clients, the hooks and Close do.
DialReturns == \A p \in Procs : pc[p] = "acquire" ~> pc[p] = "idle"

\* A dead client leaves the list: its hook gets the permit in the end.
DeadClientLeaves == \A c \in Clients : client[c] = "closed" ~> ~InRing(c)
=============================================================================
