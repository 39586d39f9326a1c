-------------------------------- MODULE H2Pool --------------------------------
(***************************************************************************)
(* The pools of HTTP/2 sessions of protocol/http (h2ConnsPool) and of      *)
(* dialer/naive (naiveH2ConnPool).  Each keeps one list of sessions per    *)
(* key under its own lock, and the map of lists under another; the         *)
(* transport reports a dead session from its own goroutine.  The http pool *)
(* counts the users of a list, drops an empty one nobody uses, and keeps   *)
(* with every list the dialer binding of its scope.                        *)
(***************************************************************************)
EXTENDS Integers, Sequences, FiniteSets

CONSTANTS Pools, Keys, Getters, Conns, Lists

VARIABLES kind,
          pool,      \* h2ConnsPool / connsByNet: key -> list, 0 for none
          elems,     \* list -> its sessions, newest first
          refs,      \* lockedList.refs
          ident,     \* h2Conn2Ident / connToNet: session -> key, "none"
          bindings,  \* addr2Dialer of the one address: keys, oldest first
          get, mark, \* the calls of GetConn and of MarkDead
          raw        \* session -> "none", "open", "closed", "dead"

vars == <<kind, pool, elems, refs, ident, bindings, get, mark, raw>>

Http == kind = "http"
Idle == [pc |-> "idle", key |-> "none", list |-> 0, conn |-> "none"]

Init ==
  /\ kind \in Pools
  /\ pool = [k \in Keys |-> 0] /\ elems = [l \in Lists |-> <<>>] /\ refs = [l \in Lists |-> 0]
  /\ ident = [c \in Conns |-> "none"] /\ bindings = <<>>
  /\ get = [g \in Getters |-> Idle]
  /\ mark = [c \in Conns |-> [pc |-> "idle", key |-> "none", list |-> 0]]
  /\ raw = [c \in Conns |-> "none"]

InUse(l) == (\E k \in Keys : pool[k] = l) \/ refs[l] > 0 \/ (\E g \in Getters : get[g].list = l) \/ (\E c \in Conns : mark[c].list = l)

RetainAddrDialer(k) == IF \E i \in 1 .. Len(bindings) : bindings[i] = k THEN bindings ELSE Append(bindings, k)
ReleaseAddrDialer(k) == SelectSeq(bindings, LAMBDA b : b # k)

\* GetClientConn picks the latest binding, and asks for its scope after the unlock.
GetClientConn(g) ==
  /\ Http /\ get[g].pc = "idle" /\ bindings # <<>>
  /\ get' = [get EXCEPT ![g] = [Idle EXCEPT !.pc = "acquire", !.key = bindings[Len(bindings)]]]
  /\ UNCHANGED <<kind, pool, elems, refs, ident, bindings, mark, raw>>

GetConn(g, k) ==
  /\ get[g].pc = "idle"
  /\ get' = [get EXCEPT ![g] = [Idle EXCEPT !.pc = "acquire", !.key = k]]
  /\ UNCHANGED <<kind, pool, elems, refs, ident, bindings, mark, raw>>

\* acquireConnListForDialer, getConnList.
AcquireConnList(g) ==
  LET k == get[g].key IN
  /\ get[g].pc = "acquire"
  /\ \E l \in Lists :
       /\ IF pool[k] # 0 THEN l = pool[k] ELSE ~InUse(l) /\ \A f \in Lists : f < l => InUse(f)
       /\ pool' = [pool EXCEPT ![k] = l]
       /\ get' = [get EXCEPT ![g].pc = "scan", ![g].list = l]
       /\ refs' = IF Http THEN [refs EXCEPT ![l] = @ + 1] ELSE refs
  /\ bindings' = IF Http THEN RetainAddrDialer(k) ELSE bindings
  /\ UNCHANGED <<kind, elems, ident, mark, raw>>

\* The first session that takes a request, or a new one.
Scan(g) ==
  LET usable == {i \in 1 .. Len(elems[get[g].list]) : raw[elems[get[g].list][i]] = "open"} IN
  /\ get[g].pc = "scan"
  /\ get' = [get EXCEPT ![g].pc = IF usable # {} THEN "release" ELSE "dial"]
  /\ UNCHANGED <<kind, pool, elems, refs, ident, bindings, mark, raw>>

\* The dial or the handshake fails, or the http proxy speaks HTTP/1.1 only.
DialFails(g) ==
  /\ get[g].pc = "dial"
  /\ get' = [get EXCEPT ![g].pc = "release"]
  /\ UNCHANGED <<kind, pool, elems, refs, ident, bindings, mark, raw>>

\* From here the session's reader runs and may report its end.
Dial(g, c) ==
  /\ get[g].pc = "dial" /\ raw[c] = "none"
  /\ raw' = [raw EXCEPT ![c] = "open"]
  /\ get' = [get EXCEPT ![g].pc = "push", ![g].conn = c]
  /\ UNCHANGED <<kind, pool, elems, refs, ident, bindings, mark>>

\* registerConn, and its counterpart in the http pool: into the list, then known.
Push(g) ==
  /\ get[g].pc = "push"
  /\ elems' = [elems EXCEPT ![get[g].list] = IF Http THEN <<get[g].conn>> \o @ ELSE Append(@, get[g].conn)]
  /\ get' = [get EXCEPT ![g].pc = "ident"]
  /\ UNCHANGED <<kind, pool, refs, ident, bindings, mark, raw>>

Ident(g) ==
  /\ get[g].pc = "ident"
  /\ ident' = [ident EXCEPT ![get[g].conn] = get[g].key]
  /\ get' = [get EXCEPT ![g].pc = "release"]
  /\ UNCHANGED <<kind, pool, elems, refs, bindings, mark, raw>>

\* cleanupConnListLocked: an empty list nobody uses goes, with its binding.
Cleanup(k, l, rs) ==
  IF Http /\ pool[k] = l /\ rs[l] = 0 /\ elems[l] = <<>>
  THEN pool' = [pool EXCEPT ![k] = 0] /\ bindings' = ReleaseAddrDialer(k)
  ELSE UNCHANGED <<pool, bindings>>

\* releaseConnList; the naive pool has nothing to give back.
Release(g) ==
  LET l == get[g].list
      rs == IF Http THEN [refs EXCEPT ![l] = @ - 1] ELSE refs IN
  /\ get[g].pc = "release"
  /\ refs' = rs /\ Cleanup(get[g].key, l, rs)
  /\ get' = [get EXCEPT ![g] = Idle]
  /\ UNCHANGED <<kind, elems, ident, mark, raw>>

\* The session ends: GOAWAY, a read error, the idle timeout.
Dies(c) ==
  /\ raw[c] = "open"
  /\ raw' = [raw EXCEPT ![c] = "dead"] /\ mark' = [mark EXCEPT ![c].pc = "lookup"]
  /\ UNCHANGED <<kind, pool, elems, refs, ident, bindings, get>>

\* MarkDead: one section of each lock at a time.
MarkDead(c) ==
  /\ mark[c].pc = "lookup"
  /\ IF ident[c] = "none" \/ pool[ident[c]] = 0
     THEN mark' = [mark EXCEPT ![c].pc = "done"]
     ELSE mark' = [mark EXCEPT ![c] = [pc |-> "remove", key |-> ident[c], list |-> pool[ident[c]]]]
  /\ ident' = [ident EXCEPT ![c] = "none"]
  /\ UNCHANGED <<kind, pool, elems, refs, bindings, get, raw>>

MarkRemove(c) ==
  /\ mark[c].pc = "remove"
  /\ elems' = [elems EXCEPT ![mark[c].list] = SelectSeq(@, LAMBDA e : e # c)]
  /\ raw' = IF Http THEN raw ELSE [raw EXCEPT ![c] = "closed"]
  /\ mark' = [mark EXCEPT ![c].pc = "cleanup"]
  /\ UNCHANGED <<kind, pool, refs, ident, bindings, get>>

MarkCleanup(c) ==
  /\ mark[c].pc = "cleanup"
  /\ Cleanup(mark[c].key, mark[c].list, refs)
  /\ mark' = [mark EXCEPT ![c] = [pc |-> "done", key |-> "none", list |-> 0]]
  /\ UNCHANGED <<kind, elems, refs, ident, get, raw>>

Next ==
  \/ \E g \in Getters :
       \/ GetClientConn(g) \/ AcquireConnList(g) \/ Scan(g) \/ DialFails(g) \/ Push(g) \/ Ident(g) \/ Release(g)
       \/ \E k \in Keys : GetConn(g, k)
       \/ \E c \in Conns : Dial(g, c)
  \/ \E c \in Conns : Dies(c) \/ MarkDead(c) \/ MarkRemove(c) \/ MarkCleanup(c)

Spec == Init /\ [][Next]_vars

\* A list that a GetConn works on, or that holds a session, is the one the map names
\* for its key: no session is filed in a list that cleanupConnListLocked already dropped.
UsedListIsNamed ==
  /\ \A g \in Getters : get[g].list # 0 => pool[get[g].key] = get[g].list
  /\ \A l \in Lists : elems[l] # <<>> => \E k \in Keys : pool[k] = l
  /\ \A c \in Conns : ident[c] # "none" =>
       \E i \in 1 .. Len(elems[pool[ident[c]]]) : elems[pool[ident[c]]][i] = c

\* A scope has a dialer binding exactly while it has a list, and a list is kept only for
\* sessions or users (or a MarkDead about to clean it up): the pool does not grow with
\* the scopes it once served.
BindingFollowsList ==
  Http => /\ \A k \in Keys : (pool[k] # 0) = (\E i \in 1 .. Len(bindings) : bindings[i] = k)
          /\ \A k \in Keys : pool[k] = 0 \/ refs[pool[k]] > 0 \/ elems[pool[k]] # <<>>
               \/ \E c \in Conns : mark[c].pc = "cleanup" /\ mark[c].list = pool[k]
          /\ \A l \in Lists : refs[l] = Cardinality({g \in Getters : get[g].list = l})

\* A session reported dead after its registration leaves the pool for good; only one
\* that dies between Push and Ident stays listed.
DeadLeaves ==
  \A c \in Conns : (mark[c].pc \in {"cleanup", "done"} /\ ident[c] = "none" /\ \A g \in Getters : get[g].conn # c)
    => \A l \in Lists : \A i \in 1 .. Len(elems[l]) : elems[l][i] # c
=============================================================================
