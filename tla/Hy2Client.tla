------------------------------ MODULE Hy2Client ------------------------------
(***************************************************************************)
(* The Hysteria2 client (protocol/hysteria2/client/client.go): one shared  *)
(* QUIC tunnel that dials replace when it is dead, torn down by the first  *)
(* call that meets a tunnel-fatal error, and drained by Close while UDP    *)
(* sessions use it.  Of the UDP session manager (udp.go) this module keeps *)
(* what the client sees: its sessions, closed, draining and the idle       *)
(* callback.  Hy2Udp is its data path.                                     *)
(***************************************************************************)
EXTENDS Integers, FiniteSets, TLAPS

CONSTANTS
  Callers,    \* goroutines in TCP and UDP
  Sessions,   \* UDP sessions a run may create
  Free,       \* c.m not held
  MaxConns    \* bound: tunnels dialed

Conns == 1..MaxConns
NoConn == 0

VARIABLES
  mutex,     \* c.m: the caller that holds it across connect, or Free
  closed,    \* clientImpl.closed
  conn,      \* c.conn and c.pktConn
  sm,        \* c.udpSM
  state,     \* per tunnel: "none", "live", "dead" (its context is done)
  sock,      \* per tunnel, its packet conn: "none", "open", "closed"
  smClosed,  \* per tunnel, udpSessionManager.closed (and done)
  draining,  \* per tunnel, draining with onIdle set
  sess,      \* per tunnel, the open sessions
  finish,    \* closeExistingWhenDrained goroutines under way
  pc,        \* callers
  snap,      \* connSnapshot
  smSnap,    \* udpSMSnapshot
  user       \* Client.Close: "no", "lock", "done"

smVars  == <<smClosed, draining, sess, finish>>
resVars == <<conn, sm, state, sock, smVars>>
callVars == <<pc, snap, smSnap>>
vars == <<mutex, closed, resVars, callVars, user>>

TypeOK ==
  /\ mutex \in Callers \cup {Free}
  /\ closed \in BOOLEAN
  /\ conn \in Conns \cup {NoConn}
  /\ sm \in Conns \cup {NoConn}
  /\ state \in [Conns -> {"none", "live", "dead"}]
  /\ sock \in [Conns -> {"none", "open", "closed"}]
  /\ smClosed \in [Conns -> BOOLEAN]
  /\ draining \in [Conns -> BOOLEAN]
  /\ sess \in [Conns -> SUBSET Sessions]
  /\ finish \in 0..1
  /\ pc \in [Callers -> {"idle", "tcpLock", "udpLock", "tcpConnect", "udpConnect",
                         "tcp", "udp", "fatal"}]
  /\ snap \in [Callers -> Conns \cup {NoConn}]
  /\ smSnap \in [Callers -> Conns \cup {NoConn}]
  /\ user \in {"no", "lock", "done"}

Init ==
  /\ mutex = Free
  /\ closed = FALSE
  /\ conn = NoConn
  /\ sm = NoConn
  /\ state = [k \in Conns |-> "none"]
  /\ sock = [k \in Conns |-> "none"]
  /\ smClosed = [k \in Conns |-> FALSE]
  /\ draining = [k \in Conns |-> FALSE]
  /\ sess = [k \in Conns |-> {}]
  /\ finish = 0
  /\ pc = [c \in Callers |-> "idle"]
  /\ snap = [c \in Callers |-> NoConn]
  /\ smSnap = [c \in Callers |-> NoConn]
  /\ user = "no"

-----------------------------------------------------------------------------
(* Session manager as the client sees it                                   *)

\* closeCleanup: every session is closed, and done with it.
CleanSessions(k) ==
  IF smClosed[k]
  THEN UNCHANGED <<smClosed, draining, sess>>
  ELSE /\ smClosed' = [smClosed EXCEPT ![k] = TRUE]
       /\ sess' = [sess EXCEPT ![k] = {}]
       /\ draining' = [draining EXCEPT ![k] = FALSE]

\* closeOnce.Do(closeCleanup): a pending idle callback runs.
Cleanup(k) ==
  /\ CleanSessions(k)
  /\ finish' = IF ~smClosed[k] /\ draining[k] THEN finish + 1 ELSE finish

\* The receive loop of a dead tunnel's manager ends.
RouterEnds(k) ==
  /\ state[k] = "dead"
  /\ ~smClosed[k]
  /\ Cleanup(k)
  /\ UNCHANGED <<mutex, closed, conn, sm, state, sock, callVars, user>>

\* The owner closes a session; the last one of a draining manager calls back.
CloseSession(s) ==
  \E k \in Conns :
    /\ s \in sess[k]
    /\ sess' = [sess EXCEPT ![k] = @ \ {s}]
    /\ IF draining[k] /\ sess[k] = {s}
       THEN /\ draining' = [draining EXCEPT ![k] = FALSE]
            /\ finish' = finish + 1
       ELSE UNCHANGED <<draining, finish>>
    /\ UNCHANGED <<mutex, closed, conn, sm, state, sock, smClosed, callVars, user>>

-----------------------------------------------------------------------------
(* closeExistingLocked and its callers                                     *)

\* The tunnel and its packet conn are closed and forgotten.
Detach ==
  /\ state' = [k \in Conns |-> IF k = conn THEN "dead" ELSE state[k]]
  /\ sock' = [k \in Conns |-> IF k = conn THEN "closed" ELSE sock[k]]
  /\ conn' = NoConn
  /\ sm' = NoConn

\* Mutant of CloseExisting: the session manager is dropped, not closed.
CloseExistingDropsSM ==
  /\ UNCHANGED smVars
  /\ Detach

CloseExisting ==
  /\ IF sm = NoConn THEN UNCHANGED smVars ELSE Cleanup(sm)
  /\ Detach

CloseCalled ==
  /\ user = "no"
  /\ user' = "lock"
  /\ UNCHANGED <<mutex, closed, resVars, callVars>>

\* Close: with sessions open the manager drains, otherwise everything goes.
Close ==
  /\ user = "lock"
  /\ mutex = Free
  /\ user' = "done"
  /\ closed' = TRUE
  /\ IF sm # NoConn /\ ~smClosed[sm] /\ sess[sm] # {}
     THEN /\ draining' = [draining EXCEPT ![sm] = TRUE]
          /\ UNCHANGED <<conn, sm, state, sock, smClosed, sess, finish>>
     ELSE CloseExisting
  /\ UNCHANGED <<mutex, callVars>>

\* The goroutine of closeExistingWhenDrained.
Finish ==
  /\ finish > 0
  /\ mutex = Free
  /\ IF sm = NoConn THEN UNCHANGED <<smClosed, draining, sess>> ELSE CleanSessions(sm)
  /\ Detach
  /\ finish' = finish - 1
  /\ UNCHANGED <<mutex, closed, callVars, user>>

\* The peer closes the tunnel, or it times out.
ConnDies(k) ==
  /\ state[k] = "live"
  /\ state' = [state EXCEPT ![k] = "dead"]
  /\ UNCHANGED <<mutex, closed, conn, sm, sock, smVars, callVars, user>>

-----------------------------------------------------------------------------
(* TCP and UDP                                                             *)

Call(c) ==
  /\ pc[c] = "idle"
  /\ \E l \in {"tcpLock", "udpLock"} : pc' = [pc EXCEPT ![c] = l]
  /\ UNCHANGED <<mutex, closed, resVars, snap, smSnap, user>>

Return(c) ==
  /\ pc' = [pc EXCEPT ![c] = "idle"]
  /\ snap' = [snap EXCEPT ![c] = NoConn]
  /\ smSnap' = [smSnap EXCEPT ![c] = NoConn]

Active == conn # NoConn /\ state[conn] = "live"

\* The critical section up to connect: refused, served or about to dial.
Lock(c) ==
  /\ pc[c] \in {"tcpLock", "udpLock"}
  /\ mutex = Free
  /\ \/ /\ Return(c)
        /\ UNCHANGED <<mutex, resVars>>
     \/ /\ ~closed
        /\ Active
        /\ pc' = [pc EXCEPT ![c] = IF pc[c] = "tcpLock" THEN "tcp" ELSE "udp"]
        /\ snap' = [snap EXCEPT ![c] = conn]
        /\ smSnap' = [smSnap EXCEPT ![c] = sm]
        /\ UNCHANGED <<mutex, resVars>>
     \/ /\ ~closed
        /\ ~Active
        /\ mutex' = c
        /\ pc' = [pc EXCEPT ![c] = IF pc[c] = "tcpLock" THEN "tcpConnect" ELSE "udpConnect"]
        /\ CloseExisting
        /\ UNCHANGED <<snap, smSnap>>
  /\ UNCHANGED <<closed, user>>

\* Mutant of ConnectFails: c.m is not released.
ConnectFailsLocked(c) ==
  /\ pc[c] \in {"tcpConnect", "udpConnect"}
  /\ Return(c)
  /\ UNCHANGED <<mutex, closed, resVars, user>>

\* The dial or the authentication failed; its own packet conn is closed.
ConnectFails(c) ==
  /\ pc[c] \in {"tcpConnect", "udpConnect"}
  /\ mutex' = Free
  /\ Return(c)
  /\ UNCHANGED <<closed, resVars, user>>

\* The server may not offer UDP: then there is no manager to close.
ConnectSucceeds(c) ==
  /\ pc[c] \in {"tcpConnect", "udpConnect"}
  /\ mutex' = Free
  /\ \E k \in Conns, udp \in BOOLEAN :
       /\ state[k] = "none"
       /\ \A j \in 1..(k - 1) : state[j] # "none"
       /\ conn' = k
       /\ sm' = IF udp THEN k ELSE NoConn
       /\ smClosed' = [smClosed EXCEPT ![k] = ~udp]
       /\ state' = [state EXCEPT ![k] = "live"]
       /\ sock' = [sock EXCEPT ![k] = "open"]
       /\ snap' = [snap EXCEPT ![c] = k]
       /\ smSnap' = [smSnap EXCEPT ![c] = sm']
  /\ pc' = [pc EXCEPT ![c] = IF pc[c] = "tcpConnect" THEN "tcp" ELSE "udp"]
  /\ UNCHANGED <<closed, draining, sess, finish, user>>

\* OpenStream and WriteTCPRequest; on a dead tunnel the error is fatal.
UseTCP(c) ==
  /\ pc[c] = "tcp"
  /\ \/ Return(c)
     \/ /\ state[snap[c]] = "dead"
        /\ pc' = [pc EXCEPT ![c] = "fatal"]
        /\ UNCHANGED <<snap, smSnap>>
  /\ UNCHANGED <<mutex, closed, resVars, user>>

\* A bad address or no UDP ends the call; NewUDP makes a session or refuses
\* with ClosedError, which counts as fatal.
UseUDP(c) ==
  /\ pc[c] = "udp"
  /\ \/ /\ Return(c)
        /\ UNCHANGED sess
     \/ /\ smSnap[c] # NoConn
        /\ ~smClosed[smSnap[c]]
        /\ ~draining[smSnap[c]]
        /\ \E s \in Sessions \ UNION {sess[k] : k \in Conns} :
             sess' = [sess EXCEPT ![smSnap[c]] = @ \cup {s}]
        /\ Return(c)
     \/ /\ smSnap[c] # NoConn
        /\ smClosed[smSnap[c]] \/ draining[smSnap[c]]
        /\ pc' = [pc EXCEPT ![c] = "fatal"]
        /\ UNCHANGED <<snap, smSnap, sess>>
  /\ UNCHANGED <<mutex, closed, conn, sm, state, sock, smClosed, draining, finish, user>>

\* Mutant of HandleClosed: the origin of the error is not compared.
HandleClosedAnyConn(c) ==
  /\ pc[c] = "fatal"
  /\ mutex = Free
  /\ CloseExisting
  /\ Return(c)
  /\ UNCHANGED <<mutex, closed, user>>

\* handleIfConnectionClosed.
HandleClosed(c) ==
  /\ pc[c] = "fatal"
  /\ mutex = Free
  /\ IF conn = snap[c] THEN CloseExisting ELSE UNCHANGED resVars
  /\ Return(c)
  /\ UNCHANGED <<mutex, closed, user>>

-----------------------------------------------------------------------------
CallStep(c) ==
  Lock(c) \/ ConnectFails(c) \/ ConnectSucceeds(c) \/ UseTCP(c) \/ UseUDP(c) \/ HandleClosed(c)

Next ==
  \/ \E c \in Callers : Call(c) \/ CallStep(c)
  \/ CloseCalled \/ Close \/ Finish
  \/ \E k \in Conns : ConnDies(k) \/ RouterEnds(k)
  \/ \E s \in Sessions : CloseSession(s)

Spec == Init /\ [][Next]_vars

-----------------------------------------------------------------------------
\* An open packet conn is the attached one: a replaced or abandoned tunnel never
\* keeps its socket and its loops.
SocketIsAttached == \A k \in Conns : sock[k] = "open" => conn = k

\* No UDP session outlives the socket it sends on.
SessionsHaveSocket == \A k \in Conns : sess[k] # {} => sock[k] = "open"

\* The client holds its socket through the attached connection only, and no UDP
\* session is left without one, whoever tears the tunnel down.
Hy2ClientSafe == TypeOK /\ SocketIsAttached /\ SessionsHaveSocket

\* A live tunnel is taken away only from a closed client: a stale error of an
\* old tunnel never kills the one that replaced it.
LiveTunnelStays ==
  [][conn # NoConn /\ conn' # conn => state[conn] = "dead" \/ closed']_vars

\* Close lets open UDP sessions finish: the packet conn of a live tunnel is not
\* closed while a session uses it.
CloseWaitsForSessions ==
  [][\A k \in Conns : sock[k] = "open" /\ sock'[k] = "closed" /\ state[k] = "live"
        => sess[k] = {}]_vars

\* Every TCP and UDP call returns.
CallReturns == \A c \in Callers : pc[c] # "idle" ~> pc[c] = "idle"

\* A closed client whose sessions are gone releases its tunnel.
ClosedReleases ==
  (closed /\ \A k \in Conns : sess[k] = {}) ~> \A k \in Conns : sock[k] # "open"

\* The sessions of a dead tunnel end, drained or not.
DeadSessionsEnd == \A k \in Conns : state[k] = "dead" ~> sess[k] = {}

-----------------------------------------------------------------------------
(* Proofs about Hy2Client, for any callers, sessions and number of         *)
(* tunnels: no UDP session outlives its socket, an open socket is the      *)
(* attached one, and a live tunnel is taken away only from a closed        *)
(* client.                                                                 *)

\* What the proofs assume of the constants.
Setting == Free \notin Callers /\ MaxConns \in Nat

-----------------------------------------------------------------------------
(* The inductive invariant                                                 *)

\* c.m: who connects holds it, on a client that is not closed and has given up
\* its old tunnel.
ConnectHoldsMutex ==
  /\ \A c \in Callers : pc[c] \in {"tcpConnect", "udpConnect"} => mutex = c
  /\ mutex # Free => conn = NoConn /\ ~closed

\* Tunnel, packet conn and session manager are attached and detached together.
AttachedTogether ==
  /\ sm # NoConn => sm = conn
  /\ conn # NoConn => sock[conn] = "open" /\ state[conn] # "none"
  /\ \A k \in Conns : sock[k] = "open" => conn = k
  /\ \A k \in Conns : state[k] # "none" /\ ~smClosed[k] => sm = k
  /\ sm # NoConn /\ smClosed[sm] => state[sm] = "dead"

\* A closed manager, or one that does not exist yet, has no sessions.
SessionsNeedManager ==
  \A k \in Conns : smClosed[k] \/ state[k] = "none" => sess[k] = {}

\* Close drains at most one manager, once, and the last session's callback ends
\* the draining.
DrainProtocol ==
  /\ closed <=> user = "done"
  /\ \A k \in Conns : draining[k] => closed /\ finish = 0 /\ sm = k /\ ~smClosed[k]
  /\ finish > 0 => closed

\* What a caller copied under the mutex: a tunnel that was dialed, its manager,
\* and, when the error it met counts as fatal, one that is dead, replaced or of
\* a closed client.
SnapshotsAreOld ==
  \A c \in Callers :
    /\ pc[c] \in {"tcp", "udp", "fatal"} => snap[c] # NoConn
    /\ snap[c] # NoConn => state[snap[c]] # "none"
    /\ smSnap[c] # NoConn => smSnap[c] = snap[c] /\ (conn = snap[c] => sm = conn)
    /\ pc[c] = "fatal" => state[snap[c]] = "dead" \/ closed \/ conn # snap[c]

Hy2Inv ==
  /\ TypeOK
  /\ ConnectHoldsMutex
  /\ AttachedTogether
  /\ SessionsNeedManager
  /\ DrainProtocol
  /\ SnapshotsAreOld

-----------------------------------------------------------------------------
(* Lemmas about the operators                                              *)

\* A flag of one tunnel is set or cleared.
LEMMA FlagChanges ==
  ASSUME NEW f \in [Conns -> BOOLEAN], NEW k \in Conns, NEW b \in BOOLEAN
  PROVE  [f EXCEPT ![k] = b] \in [Conns -> BOOLEAN]
OBVIOUS

\* closeCleanup keeps the types of what it resets.
LEMMA CleanSessionsKeepsTypes ==
  ASSUME Hy2Inv, NEW k \in Conns, CleanSessions(k)
  PROVE  /\ smClosed' \in [Conns -> BOOLEAN]
         /\ draining' \in [Conns -> BOOLEAN]
         /\ sess' \in [Conns -> SUBSET Sessions]
<1>1. smClosed' \in [Conns -> BOOLEAN] /\ draining' \in [Conns -> BOOLEAN]
  BY Zenon DEF Hy2Inv, TypeOK, CleanSessions
<1>2. sess' \in [Conns -> SUBSET Sessions]
  BY Zenon DEF Hy2Inv, TypeOK, CleanSessions
<1> QED
  BY <1>1, <1>2, Zenon

\* A manager runs its idle callback once, so one goroutine finishes the drain.
LEMMA CleanupKeepsTypes ==
  ASSUME Hy2Inv, NEW k \in Conns, Cleanup(k)
  PROVE  /\ smClosed' \in [Conns -> BOOLEAN]
         /\ draining' \in [Conns -> BOOLEAN]
         /\ sess' \in [Conns -> SUBSET Sessions]
         /\ finish' \in 0..1
<1>1. finish' \in 0..1
  BY DEF Hy2Inv, TypeOK, DrainProtocol, Cleanup
<1> QED
  BY <1>1, CleanSessionsKeepsTypes, Zenon DEF Cleanup

\* Closing tunnel and packet conn keeps their types.
LEMMA DetachKeepsTypes ==
  ASSUME Hy2Inv, Detach
  PROVE  /\ conn' = NoConn /\ sm' = NoConn
         /\ state' \in [Conns -> {"none", "live", "dead"}]
         /\ sock' \in [Conns -> {"none", "open", "closed"}]
BY Zenon DEF Hy2Inv, TypeOK, Detach

\* closeExistingLocked.
LEMMA CloseExistingKeepsTypes ==
  ASSUME Hy2Inv, CloseExisting
  PROVE  /\ conn' = NoConn /\ sm' = NoConn
         /\ state' \in [Conns -> {"none", "live", "dead"}]
         /\ sock' \in [Conns -> {"none", "open", "closed"}]
         /\ smClosed' \in [Conns -> BOOLEAN]
         /\ draining' \in [Conns -> BOOLEAN]
         /\ sess' \in [Conns -> SUBSET Sessions]
         /\ finish' \in 0..1
<1>1. CASE sm = NoConn
  BY <1>1, DetachKeepsTypes DEF Hy2Inv, TypeOK, CloseExisting, smVars
<1>2. CASE sm # NoConn
  <2>1. sm \in Conns
    BY <1>2, Zenon DEF Hy2Inv, TypeOK
  <2> QED
    BY <1>2, <2>1, DetachKeepsTypes, CleanupKeepsTypes, Zenon DEF CloseExisting
<1> QED
  BY <1>1, <1>2, Zenon

-----------------------------------------------------------------------------
(* Every step preserves the invariant                                      *)

\* A step of TCP or UDP, from the lock through the dial to the session.
LEMMA CallerSteps ==
  ASSUME Setting, Hy2Inv, NEW c \in Callers,
         Call(c) \/ Lock(c) \/ ConnectFails(c) \/ ConnectSucceeds(c) \/ UseTCP(c) \/ UseUDP(c) \/ HandleClosed(c)
  PROVE  Hy2Inv'
<1> USE DEF Hy2Inv, ConnectHoldsMutex, AttachedTogether, SessionsNeedManager, DrainProtocol,
            SnapshotsAreOld, Conns, NoConn, smVars, resVars, callVars
<1>1. CASE Call(c)
  BY <1>1 DEF Setting, TypeOK, Call
<1>2. CASE Lock(c)
  <2>1. TypeOK'
    <3>1. CASE CloseExisting
      BY <1>2, <3>1, CloseExistingKeepsTypes DEF TypeOK, Lock, Return
    <3>2. CASE UNCHANGED resVars
      BY <1>2, <3>2 DEF TypeOK, Lock, Return
    <3> QED
      BY <1>2, <3>1, <3>2, Zenon DEF Lock
  <2>2. ConnectHoldsMutex'
    BY <1>2 DEF Setting, TypeOK, Lock, Return, Active, CloseExisting, Cleanup, CleanSessions, Detach
  <2>3. AttachedTogether'
    BY <1>2 DEF Setting, TypeOK, Lock, Return, Active, CloseExisting, Cleanup, CleanSessions, Detach
  <2>4. SessionsNeedManager'
    BY <1>2 DEF Setting, TypeOK, Lock, Return, Active, CloseExisting, Cleanup, CleanSessions, Detach
  <2>5. DrainProtocol'
    BY <1>2 DEF Setting, TypeOK, Lock, Return, Active, CloseExisting, Cleanup, CleanSessions, Detach
  <2>6. SnapshotsAreOld'
    BY <1>2 DEF Setting, TypeOK, Lock, Return, Active, CloseExisting, Cleanup, CleanSessions, Detach
  <2> QED
    BY <2>1, <2>2, <2>3, <2>4, <2>5, <2>6, Zenon
<1>3. CASE ConnectFails(c)
  BY <1>3 DEF Setting, TypeOK, ConnectFails, Return
<1>4. CASE ConnectSucceeds(c)
  <2>1. /\ TypeOK' /\ ConnectHoldsMutex'
        /\ SessionsNeedManager' /\ DrainProtocol' /\ SnapshotsAreOld'
    BY <1>4 DEF Setting, TypeOK, ConnectSucceeds
  <2>2. AttachedTogether'
    <3>1. PICK k \in Conns, udp \in BOOLEAN :
            /\ state[k] = "none"
            /\ conn' = k
            /\ sm' = IF udp THEN k ELSE NoConn
            /\ smClosed' = [smClosed EXCEPT ![k] = ~udp]
            /\ state' = [state EXCEPT ![k] = "live"]
            /\ sock' = [sock EXCEPT ![k] = "open"]
      BY <1>4, Zenon DEF ConnectSucceeds
    <3>2. conn = NoConn /\ sm = NoConn
      BY <1>4, Zenon DEF Setting, TypeOK, ConnectSucceeds
    <3>3. smClosed'[k] = ~udp
      BY <3>1, Zenon DEF TypeOK
    <3>4. \A j \in Conns \ {k} : smClosed'[j] = smClosed[j]
      BY <3>1 DEF TypeOK
    <3>5. ASSUME NEW j \in Conns, state'[j] # "none", ~smClosed'[j] PROVE sm' = j
      <4>1. CASE j = k
        BY <3>1, <3>3, <3>5, <4>1, Zenon
      <4>2. CASE j # k
        <5>1. state[j] # "none" /\ ~smClosed[j]
          BY <3>1, <3>4, <3>5, <4>2 DEF TypeOK
        <5> QED
          BY <3>2, <5>1
      <4> QED
        BY <4>1, <4>2, Zenon
    <3>6. sm' # NoConn => ~smClosed'[sm']
      BY <3>1, <3>3, Zenon
    <3> QED
      BY <3>1, <3>2, <3>5, <3>6 DEF TypeOK
  <2> QED
    BY <2>1, <2>2, Zenon
<1>5. CASE UseTCP(c)
  <2>1. TypeOK'
    BY <1>5, ZenonT(40) DEF Setting, TypeOK, UseTCP, Return
  <2>2. ConnectHoldsMutex'
    BY <1>5 DEF Setting, TypeOK, UseTCP, Return
  <2>3. AttachedTogether'
    BY <1>5, Zenon DEF Setting, TypeOK, UseTCP, Return
  <2>4. SessionsNeedManager'
    BY <1>5, Zenon DEF Setting, TypeOK, UseTCP, Return
  <2>5. DrainProtocol'
    BY <1>5, Zenon DEF Setting, TypeOK, UseTCP, Return
  <2>6. SnapshotsAreOld'
    BY <1>5 DEF Setting, TypeOK, UseTCP, Return
  <2> QED
    BY <2>1, <2>2, <2>3, <2>4, <2>5, <2>6, Zenon
<1>6. CASE UseUDP(c)
  <2>1. TypeOK'
    <3>1. sess' \in [Conns -> SUBSET Sessions]
      BY <1>6 DEF TypeOK, UseUDP
    <3> QED
      BY <1>6, <3>1 DEF TypeOK, UseUDP, Return
  <2>2. ConnectHoldsMutex'
    BY <1>6 DEF Setting, TypeOK, UseUDP, Return
  <2>3. AttachedTogether'
    BY <1>6, Zenon DEF Setting, TypeOK, UseUDP, Return
  <2>4. SessionsNeedManager'
    BY <1>6 DEF Setting, TypeOK, UseUDP, Return
  <2>5. DrainProtocol'
    BY <1>6, Zenon DEF Setting, TypeOK, UseUDP, Return
  <2>6. SnapshotsAreOld'
    <3>1. CASE Return(c)
      BY <1>6, <3>1 DEF TypeOK, UseUDP, Return
    <3>2. CASE /\ smSnap[c] # NoConn
               /\ smClosed[smSnap[c]] \/ draining[smSnap[c]]
               /\ pc' = [pc EXCEPT ![c] = "fatal"]
               /\ UNCHANGED <<snap, smSnap>>
      <4>1. state[snap[c]] = "dead" \/ closed \/ conn # snap[c]
        BY <3>2 DEF TypeOK
      <4> QED
        BY <1>6, <3>2, <4>1 DEF TypeOK, UseUDP
    <3> QED
      BY <1>6, <3>1, <3>2, Zenon DEF UseUDP
  <2> QED
    BY <2>1, <2>2, <2>3, <2>4, <2>5, <2>6, Zenon
<1>7. CASE HandleClosed(c)
  <2>1. TypeOK'
    <3>1. CASE CloseExisting
      BY <1>7, <3>1, CloseExistingKeepsTypes, Zenon DEF TypeOK, HandleClosed, Return
    <3>2. CASE UNCHANGED resVars
      BY <1>7, <3>2, Zenon DEF TypeOK, HandleClosed, Return
    <3> QED
      BY <1>7, <3>1, <3>2, Zenon DEF HandleClosed
  <2>2. ConnectHoldsMutex'
    BY <1>7 DEF Setting, TypeOK, HandleClosed, Return, CloseExisting, Cleanup, CleanSessions, Detach
  <2>3. AttachedTogether'
    BY <1>7 DEF Setting, TypeOK, HandleClosed, Return, CloseExisting, Cleanup, CleanSessions, Detach
  <2>4. SessionsNeedManager'
    BY <1>7 DEF Setting, TypeOK, HandleClosed, Return, CloseExisting, Cleanup, CleanSessions, Detach
  <2>5. DrainProtocol'
    BY <1>7 DEF Setting, TypeOK, HandleClosed, Return, CloseExisting, Cleanup, CleanSessions, Detach
  <2>6. SnapshotsAreOld'
    BY <1>7 DEF Setting, TypeOK, HandleClosed, Return, CloseExisting, Cleanup, CleanSessions, Detach
  <2> QED
    BY <2>1, <2>2, <2>3, <2>4, <2>5, <2>6, Zenon
<1> QED
  BY <1>1, <1>2, <1>3, <1>4, <1>5, <1>6, <1>7, Zenon

\* A step of Close, which drains, and of the last session's callback.
LEMMA CloseSteps ==
  ASSUME Setting, Hy2Inv,
         CloseCalled \/ Close \/ Finish
  PROVE  Hy2Inv'
<1> USE DEF Hy2Inv, ConnectHoldsMutex, AttachedTogether, SessionsNeedManager, DrainProtocol,
            SnapshotsAreOld, Conns, NoConn, smVars, resVars, callVars
<1>1. CASE CloseCalled
  BY <1>1 DEF Setting, TypeOK, CloseCalled
<1>2. CASE Close
  <2>1. TypeOK'
    <3>1. closed' \in BOOLEAN
      BY <1>2, Zenon DEF Close
    <3>2. CASE CloseExisting
      BY <1>2, <3>1, <3>2, CloseExistingKeepsTypes, Zenon DEF TypeOK, Close
    <3>3. CASE ~CloseExisting
      <4>1. draining' \in [Conns -> BOOLEAN]
        <5>1. sm \in Conns /\ draining' = [draining EXCEPT ![sm] = TRUE]
          BY <1>2, <3>3, Zenon DEF TypeOK, Close
        <5> QED
          BY <5>1, FlagChanges, Zenon DEF TypeOK
      <4> QED
        BY <1>2, <3>1, <3>3, <4>1 DEF TypeOK, Close
    <3> QED
      BY <3>2, <3>3, Zenon
  <2>2. /\ ConnectHoldsMutex' /\ AttachedTogether'
        /\ SessionsNeedManager' /\ DrainProtocol' /\ SnapshotsAreOld'
    BY <1>2 DEF Setting, TypeOK, Close, CloseExisting, Cleanup, CleanSessions, Detach
  <2> QED
    BY <2>1, <2>2, Zenon
<1>3. CASE Finish
  <2>1. TypeOK'
    <3>1. finish' \in 0..1
      BY <1>3 DEF TypeOK, Finish
    <3>2. /\ smClosed' \in [Conns -> BOOLEAN]
          /\ draining' \in [Conns -> BOOLEAN]
          /\ sess' \in [Conns -> SUBSET Sessions]
      BY <1>3, CleanSessionsKeepsTypes DEF TypeOK, Finish
    <3> QED
      BY <1>3, <3>1, <3>2, DetachKeepsTypes, Zenon DEF TypeOK, Finish
  <2>2. /\ ConnectHoldsMutex' /\ AttachedTogether'
        /\ SessionsNeedManager' /\ DrainProtocol' /\ SnapshotsAreOld'
    BY <1>3 DEF Setting, TypeOK, Finish, CleanSessions, Detach
  <2> QED
    BY <2>1, <2>2, Zenon
<1> QED
  BY <1>1, <1>2, <1>3, Zenon

\* Tunnels.
LEMMA TunnelSteps ==
  ASSUME Setting, Hy2Inv, NEW k \in Conns,
         ConnDies(k) \/ RouterEnds(k)
  PROVE  Hy2Inv'
<1> USE DEF Hy2Inv, ConnectHoldsMutex, AttachedTogether, SessionsNeedManager, DrainProtocol,
            SnapshotsAreOld, Conns, NoConn, smVars, resVars, callVars
<1>1. CASE ConnDies(k)
  BY <1>1 DEF Setting, TypeOK, ConnDies
<1>2. CASE RouterEnds(k)
  <2>1. TypeOK'
    BY <1>2, CleanupKeepsTypes, Zenon DEF TypeOK, RouterEnds
  <2>2. /\ ConnectHoldsMutex' /\ AttachedTogether'
        /\ SessionsNeedManager' /\ DrainProtocol' /\ SnapshotsAreOld'
    BY <1>2 DEF Setting, TypeOK, RouterEnds, Cleanup, CleanSessions
  <2> QED
    BY <2>1, <2>2, Zenon
<1> QED
  BY <1>1, <1>2, Zenon

\* Sessions.
LEMMA SessionSteps ==
  ASSUME Setting, Hy2Inv, NEW s \in Sessions,
         CloseSession(s)
  PROVE  Hy2Inv'
<1> USE DEF Hy2Inv, ConnectHoldsMutex, AttachedTogether, SessionsNeedManager, DrainProtocol,
            SnapshotsAreOld, Conns, NoConn, smVars, resVars, callVars
<1>1. CASE CloseSession(s)
  <2>1. TypeOK'
    <3>1. draining' \in [Conns -> BOOLEAN]
      <4>1. PICK k \in Conns : draining' = draining \/ draining' = [draining EXCEPT ![k] = FALSE]
        BY <1>1, Zenon DEF CloseSession
      <4>2. [draining EXCEPT ![k] = FALSE] \in [Conns -> BOOLEAN]
        BY FlagChanges, Zenon DEF TypeOK
      <4> QED
        BY <4>1, <4>2, Zenon DEF TypeOK
    <3>2. sess' \in [Conns -> SUBSET Sessions] /\ finish' \in 0..1
      BY <1>1 DEF TypeOK, CloseSession
    <3> QED
      BY <1>1, <3>1, <3>2 DEF TypeOK, CloseSession
  <2>2. /\ ConnectHoldsMutex' /\ AttachedTogether'
        /\ SessionsNeedManager' /\ DrainProtocol' /\ SnapshotsAreOld'
    BY <1>1 DEF Setting, TypeOK, CloseSession
  <2> QED
    BY <2>1, <2>2, Zenon
<1> QED
  BY <1>1, Zenon

\* No step leaves the invariant.
LEMMA Hy2Step ==
  ASSUME Setting, Hy2Inv, [Next]_vars
  PROVE  Hy2Inv'
<1>1. CASE \E c \in Callers : Call(c) \/ CallStep(c)
  BY <1>1, CallerSteps, Zenon DEF CallStep
<1>2. CASE CloseCalled \/ Close \/ Finish
  BY <1>2, CloseSteps, Zenon
<1>3. CASE \E k \in Conns : ConnDies(k) \/ RouterEnds(k)
  BY <1>3, TunnelSteps, Zenon
<1>4. CASE \E s \in Sessions : CloseSession(s)
  BY <1>4, SessionSteps, Zenon
<1>5. CASE UNCHANGED vars
  BY <1>5 DEF vars, smVars, resVars, callVars, Hy2Inv, TypeOK, ConnectHoldsMutex, AttachedTogether,
              SessionsNeedManager, DrainProtocol, SnapshotsAreOld
<1> QED
  BY <1>1, <1>2, <1>3, <1>4, <1>5, Zenon DEF Next

\* Hy2Inv holds in every reachable state, for any callers, sessions and tunnels.
THEOREM Hy2Invariant == ASSUME Setting PROVE Spec => []Hy2Inv
<1>1. Init => Hy2Inv
  <2> SUFFICES ASSUME Init PROVE Hy2Inv
    OBVIOUS
  <2>1. /\ closed \in BOOLEAN
        /\ smClosed \in [Conns -> BOOLEAN]
        /\ draining \in [Conns -> BOOLEAN]
    BY Zenon DEF Init
  <2>2. TypeOK
    BY <2>1 DEF Setting, Init, TypeOK
  <2>3. ConnectHoldsMutex /\ AttachedTogether /\ SessionsNeedManager /\ DrainProtocol /\ SnapshotsAreOld
    BY DEF Init, ConnectHoldsMutex, AttachedTogether, SessionsNeedManager, DrainProtocol, SnapshotsAreOld
  <2> QED
    BY <2>2, <2>3, Zenon DEF Hy2Inv
<1>2. Hy2Inv /\ [Next]_vars => Hy2Inv'
  BY Hy2Step, Zenon
<1> QED
  BY <1>1, <1>2, PTL DEF Spec

-----------------------------------------------------------------------------
(* What follows                                                            *)

\* No UDP session outlives the socket it sends on, and no open packet conn is
\* left behind by a replaced tunnel, whoever tears it down: the callers that meet
\* a fatal error, the next dial, Close or the goroutine that ends a drain.
THEOREM SocketsAndSessions ==
  ASSUME Setting PROVE Spec => []Hy2ClientSafe
<1>1. Hy2Inv => TypeOK /\ SocketIsAttached /\ SessionsHaveSocket
  BY DEF Hy2Inv, TypeOK, AttachedTogether, SessionsNeedManager, SocketIsAttached, SessionsHaveSocket,
         Conns, NoConn
<1>2. Hy2Inv => Hy2ClientSafe
  BY <1>1, Zenon DEF Hy2ClientSafe
<1> QED
  BY <1>2, Hy2Invariant, PTL

\* A stale error never takes a live tunnel away: the tunnel a caller compares with
\* its snapshot in handleIfConnectionClosed is dead, or the client is closed.
THEOREM LiveTunnelsStay == ASSUME Setting PROVE Spec => LiveTunnelStays
<1> DEFINE Stays == conn # NoConn /\ conn' # conn => state[conn] = "dead" \/ closed'
<1>1. ASSUME Hy2Inv, [Next]_vars PROVE [Stays]_vars
  <2> USE DEF Hy2Inv, TypeOK
  <2>1. CASE \E c \in Callers : Lock(c)
    BY <1>1, <2>1, Zenon DEF AttachedTogether, Lock, Active, resVars, Conns, NoConn
  <2>2. CASE \E c \in Callers : ConnectSucceeds(c)
    BY <1>1, <2>2 DEF ConnectHoldsMutex, ConnectSucceeds, Setting
  <2>3. CASE \E c \in Callers : HandleClosed(c)
    BY <1>1, <2>3 DEF SnapshotsAreOld, HandleClosed, resVars
  <2>4. CASE Close
    BY <1>1, <2>4, Zenon DEF Close
  <2>5. CASE Finish
    BY <1>1, <2>5, Zenon DEF DrainProtocol, Finish
  <2>6. CASE UNCHANGED conn
    BY <2>6, Zenon
  <2> QED
    BY <1>1, <2>1, <2>2, <2>3, <2>4, <2>5, <2>6, Zenon
    DEF Next, vars, resVars, smVars, Call, CallStep, ConnectFails, UseTCP, UseUDP, CloseCalled, ConnDies,
        RouterEnds, CloseSession
<1> QED
  BY <1>1, Hy2Invariant, PTL DEF Spec, LiveTunnelStays
=============================================================================
