------------------------------ MODULE AnytlsPool ------------------------------
(***************************************************************************)
(* The session pool of the AnyTLS dialer (protocol/anytls/dialer.go) with  *)
(* the part of a session it depends on (session.go): callers dial, a       *)
(* session carries one stream, goes idle with it, and its watcher puts it  *)
(* back into the pool or closes it; a janitor expires what is idle too     *)
(* long; connections die; the dialer is closed.                            *)
(*                                                                         *)
(* What runs under idleSessionLock or streamLock is one step.  removeStream*)
(* and session.Close are several: atomics, two locks and a channel.  The   *)
(* goroutine that won the CompareAndSwap of Close, and the one that won    *)
(* the removal of a stream, go on as steps of the session.                 *)
(***************************************************************************)
EXTENDS Integers, FiniteSets, FiniteSetTheorems, TLAPS

CONSTANTS
  Sessions,    \* bound: connections that can be made
  Callers,
  MaxIdle,     \* maxIdleSessions
  None

ChanCap == 2   \* capacity of closeStreamChan

VARIABLES
  dClosed,    \* Dialer.closed
  idle,       \* idleSessions
  sessions,   \* Dialer.sessions
  made,       \* sessions that exist
  closed,     \* session.closed, and done
  state,      \* session.state
  idleAt,     \* idleAt is set
  streams,    \* session.streams: the callers whose stream it holds
  active,     \* activeStreams
  tokens,     \* messages in closeStreamChan
  rm,         \* removeStream: "no", "dec", "idle", "token"
  shut,       \* Close: "no", "streams", "conn", "done"
  watch,      \* watchSession: "off", "wait", "pool", "close", "end"
  expired,    \* sessions the janitor, or Dialer.Close, is about to close
  pc,         \* DialContext: "idle", "pop", "probe", "dial", "reg", "add", "write", "open", "fail"
  ses         \* the session of a caller

dialVars == <<dClosed, idle, sessions, made, expired>>
sessVars == <<closed, state, idleAt, streams, active, shut>>
vars == <<dialVars, sessVars, tokens, rm, watch, pc, ses>>

TypeOK ==
  /\ dClosed \in BOOLEAN
  /\ idle \subseteq made /\ sessions \subseteq made /\ made \subseteq Sessions /\ expired \subseteq made
  /\ Cardinality(idle) <= MaxIdle
  /\ closed \in [Sessions -> BOOLEAN]
  /\ state \in [Sessions -> {"active", "idle", "closing", "closed"}]
  /\ idleAt \in [Sessions -> BOOLEAN]
  /\ streams \in [Sessions -> SUBSET Callers]
  /\ active \in [Sessions -> 0..Cardinality(Callers)]
  /\ tokens \in [Sessions -> 0..ChanCap]
  /\ rm \in [Sessions -> {"no", "dec", "idle", "token"}]
  /\ shut \in [Sessions -> {"no", "streams", "conn", "done"}]
  /\ watch \in [Sessions -> {"off", "wait", "pool", "close", "end"}]
  /\ pc \in [Callers -> {"idle", "pop", "probe", "dial", "reg", "add", "write", "open", "fail"}]
  /\ ses \in [Callers -> Sessions \cup {None}]

Init ==
  /\ dClosed = FALSE
  /\ idle = {} /\ sessions = {} /\ made = {} /\ expired = {}
  /\ closed = [s \in Sessions |-> FALSE]
  /\ state = [s \in Sessions |-> "active"]
  /\ idleAt = [s \in Sessions |-> FALSE]
  /\ streams = [s \in Sessions |-> {}]
  /\ active = [s \in Sessions |-> 0]
  /\ tokens = [s \in Sessions |-> 0]
  /\ rm = [s \in Sessions |-> "no"]
  /\ shut = [s \in Sessions |-> "no"]
  /\ watch = [s \in Sessions |-> "off"]
  /\ pc = [c \in Callers |-> "idle"]
  /\ ses = [c \in Callers |-> None]

Go(c, to) == pc' = [pc EXCEPT ![c] = to]
Leave(c) == Go(c, "idle") /\ ses' = [ses EXCEPT ![c] = None]

-----------------------------------------------------------------------------
(* session.Close and removeStream                                          *)

\* The CompareAndSwap of Close and the close of done; nothing if it lost.
Shut(s) ==
  IF closed[s]
  THEN UNCHANGED <<closed, state, shut>>
  ELSE /\ closed' = [closed EXCEPT ![s] = TRUE]
       /\ state' = [state EXCEPT ![s] = "closing"]
       /\ shut' = [shut EXCEPT ![s] = "streams"]

CloseStreams(s) ==
  /\ shut[s] = "streams"
  /\ streams' = [streams EXCEPT ![s] = {}]
  /\ active' = [active EXCEPT ![s] = 0]
  /\ shut' = [shut EXCEPT ![s] = "conn"]
  /\ UNCHANGED <<dialVars, closed, state, idleAt, tokens, rm, watch, pc, ses>>

CloseConn(s) ==
  /\ shut[s] = "conn"
  /\ state' = [state EXCEPT ![s] = "closed"]
  /\ shut' = [shut EXCEPT ![s] = "done"]
  /\ UNCHANGED <<dialVars, closed, idleAt, streams, active, tokens, rm, watch, pc, ses>>

\* The stream of c leaves the map, if it is still there.
Remove(s, c) ==
  /\ streams' = [streams EXCEPT ![s] = @ \ {c}]
  /\ rm' = IF c \in streams[s] THEN [rm EXCEPT ![s] = "dec"] ELSE rm

RemoveDec(s) ==
  /\ rm[s] = "dec"
  /\ active' = [active EXCEPT ![s] = IF @ = 0 THEN 0 ELSE @ - 1]
  /\ rm' = [rm EXCEPT ![s] = IF streams[s] # {} \/ closed[s] THEN "no" ELSE "idle"]
  /\ UNCHANGED <<dialVars, closed, state, idleAt, streams, shut, tokens, watch, pc, ses>>

\* Mutant of RemoveIdle: the watcher is told before the state is idle.
RemoveIdleLate(s) ==
  /\ rm[s] = "idle"
  /\ idleAt' = [idleAt EXCEPT ![s] = TRUE]
  /\ rm' = [rm EXCEPT ![s] = "token"]
  /\ UNCHANGED <<dialVars, closed, state, streams, active, shut, tokens, watch, pc, ses>>

RemoveIdle(s) ==
  /\ rm[s] = "idle"
  /\ state' = [state EXCEPT ![s] = "idle"]
  /\ idleAt' = [idleAt EXCEPT ![s] = TRUE]
  /\ rm' = [rm EXCEPT ![s] = "token"]
  /\ UNCHANGED <<dialVars, closed, streams, active, shut, tokens, watch, pc, ses>>

\* The two selects: done wins, a full channel drops the token.
RemoveToken(s) ==
  /\ rm[s] = "token"
  /\ tokens' = [tokens EXCEPT ![s] = IF closed[s] \/ @ = ChanCap THEN @ ELSE @ + 1]
  /\ rm' = [rm EXCEPT ![s] = "no"]
  /\ UNCHANGED <<dialVars, sessVars, watch, pc, ses>>

-----------------------------------------------------------------------------
(* watchSession                                                            *)

WatchDone(s) ==
  /\ watch[s] = "wait"
  /\ closed[s]
  /\ watch' = [watch EXCEPT ![s] = "end"]
  /\ idle' = idle \ {s}
  /\ sessions' = sessions \ {s}
  /\ UNCHANGED <<dClosed, made, expired, sessVars, tokens, rm, pc, ses>>

\* isReusableIdle.
WatchToken(s) ==
  /\ watch[s] = "wait"
  /\ tokens[s] > 0
  /\ tokens' = [tokens EXCEPT ![s] = @ - 1]
  /\ watch' = [watch EXCEPT ![s] = IF ~closed[s] /\ state[s] = "idle" /\ active[s] = 0
                                   THEN "pool" ELSE "wait"]
  /\ UNCHANGED <<dialVars, sessVars, rm, pc, ses>>

WatchPool(s) ==
  /\ watch[s] = "pool"
  /\ IF dClosed \/ (s \notin idle /\ Cardinality(idle) >= MaxIdle)
     THEN watch' = [watch EXCEPT ![s] = "close"] /\ UNCHANGED idle
     ELSE idle' = idle \cup {s} /\ watch' = [watch EXCEPT ![s] = "wait"]
  /\ UNCHANGED <<dClosed, sessions, made, expired, sessVars, tokens, rm, pc, ses>>

WatchClose(s) ==
  /\ watch[s] = "close"
  /\ Shut(s)
  /\ watch' = [watch EXCEPT ![s] = "wait"]
  /\ UNCHANGED <<dialVars, idleAt, streams, active, tokens, rm, pc, ses>>

-----------------------------------------------------------------------------
(* DialContext, getSession and newStream                                   *)

DialCalled(c) ==
  /\ pc[c] = "idle"
  /\ Go(c, "pop")
  /\ UNCHANGED <<dialVars, sessVars, tokens, rm, watch, ses>>

\* Mutant of Pop: the session stays in the pool.
PopKeeps(c) ==
  /\ pc[c] = "pop"
  /\ \/ dClosed /\ Leave(c)
     \/ ~dClosed /\ idle = {} /\ Go(c, "dial") /\ UNCHANGED ses
     \/ /\ ~dClosed
        /\ \E s \in idle : Go(c, "probe") /\ ses' = [ses EXCEPT ![c] = s]
  /\ UNCHANGED <<dialVars, sessVars, tokens, rm, watch>>

\* popIdleSessionForReuse, one candidate at a time.
Pop(c) ==
  /\ pc[c] = "pop"
  /\ \/ /\ dClosed
        /\ Leave(c)
        /\ UNCHANGED <<idle, state>>
     \/ /\ ~dClosed /\ idle = {}
        /\ Go(c, "dial")
        /\ UNCHANGED <<ses, idle, state>>
     \/ /\ ~dClosed
        /\ \E s \in idle :
             /\ idle' = idle \ {s}
             /\ IF closed[s] \/ active[s] # 0 \/ state[s] # "idle"
                THEN UNCHANGED <<pc, ses, state>>
                ELSE /\ state' = [state EXCEPT ![s] = "active"]
                     /\ Go(c, "probe")
                     /\ ses' = [ses EXCEPT ![c] = s]
  /\ UNCHANGED <<dClosed, sessions, made, expired, closed, idleAt, streams, active, shut, tokens, rm, watch>>

\* idleTimedOut, needsIdleProbe and probeIdleHealth: whether the session has
\* been idle too long, or answers, is the clock's and the peer's choice.
Probe(c) ==
  /\ pc[c] = "probe"
  /\ \/ /\ Go(c, "add")
        /\ UNCHANGED <<ses, closed, state, shut>>
     \/ /\ idleAt[ses[c]]
        /\ Shut(ses[c])
        /\ Go(c, "pop")
        /\ ses' = [ses EXCEPT ![c] = None]
  /\ UNCHANGED <<dialVars, idleAt, streams, active, tokens, rm, watch>>

\* The connection, its TLS handshake and the authentication packet.
Dial(c) ==
  /\ pc[c] = "dial"
  /\ \/ /\ Leave(c)
        /\ UNCHANGED made
     \/ \E s \in Sessions \ made :
          /\ made' = made \cup {s}
          /\ ses' = [ses EXCEPT ![c] = s]
          /\ Go(c, "reg")
  /\ UNCHANGED <<dClosed, idle, sessions, expired, sessVars, tokens, rm, watch>>

RegisterSession(c) ==
  /\ pc[c] = "reg"
  /\ IF dClosed
     THEN Shut(ses[c]) /\ Leave(c) /\ UNCHANGED <<sessions, watch>>
     ELSE /\ sessions' = sessions \cup {ses[c]}
          /\ watch' = [watch EXCEPT ![ses[c]] = "wait"]
          /\ Go(c, "add")
          /\ UNCHANGED <<ses, closed, state, shut>>
  /\ UNCHANGED <<dClosed, idle, made, expired, idleAt, streams, active, tokens, rm>>

\* newStream up to addStream; an address that does not parse is an error too.
AddStream(c) ==
  /\ pc[c] = "add"
  /\ LET s == ses[c]
     IN  \/ Go(c, "fail") /\ UNCHANGED <<streams, active, state, idleAt>>
         \/ /\ ~closed[s]
            /\ streams' = [streams EXCEPT ![s] = @ \cup {c}]
            /\ active' = [active EXCEPT ![s] = @ + 1]
            /\ state' = [state EXCEPT ![s] = "active"]
            /\ idleAt' = [idleAt EXCEPT ![s] = FALSE]
            /\ Go(c, "write")
  /\ UNCHANGED <<dialVars, closed, shut, tokens, rm, watch, ses>>

\* The frames that open the stream; on an error it is removed again.
WriteSyn(c) ==
  /\ pc[c] = "write"
  /\ \/ Go(c, "open") /\ UNCHANGED <<streams, rm>>
     \/ Remove(ses[c], c) /\ Go(c, "fail")
  /\ UNCHANGED <<dialVars, closed, state, idleAt, active, shut, tokens, watch, ses>>

\* DialContext closes the session its stream failed on.
DialFails(c) ==
  /\ pc[c] = "fail"
  /\ rm[ses[c]] = "no"
  /\ Shut(ses[c])
  /\ Leave(c)
  /\ UNCHANGED <<dialVars, idleAt, streams, active, tokens, rm, watch>>

\* The application closes its stream.
StreamClose(c) ==
  /\ pc[c] = "open"
  /\ Remove(ses[c], c)
  /\ Leave(c)
  /\ UNCHANGED <<dialVars, closed, state, idleAt, active, shut, tokens, watch>>

\* A FIN, or a SYNACK with an error, closes the stream from the other side.
RemoteClose(s) ==
  /\ watch[s] # "off" /\ ~closed[s]
  /\ \E c \in streams[s] : Remove(s, c)
  /\ UNCHANGED <<dialVars, closed, state, idleAt, active, shut, tokens, watch, pc, ses>>

\* The read loop ends on an error of the connection.
ConnDies(s) ==
  /\ watch[s] # "off"
  /\ ~closed[s]
  /\ Shut(s)
  /\ UNCHANGED <<dialVars, idleAt, streams, active, tokens, rm, watch, pc, ses>>

-----------------------------------------------------------------------------
(* closeExpiredIdleSessions and Dialer.Close                               *)

Janitor ==
  /\ ~dClosed
  /\ \E S \in SUBSET {s \in idle : closed[s] \/ idleAt[s]} \ {{}} :
       idle' = idle \ S /\ expired' = expired \cup S
  /\ UNCHANGED <<dClosed, sessions, made, sessVars, tokens, rm, watch, pc, ses>>

CloseExpired(s) ==
  /\ s \in expired
  /\ Shut(s)
  /\ expired' = expired \ {s}
  /\ UNCHANGED <<dClosed, idle, sessions, made, idleAt, streams, active, tokens, rm, watch, pc, ses>>

DialerClose ==
  /\ ~dClosed
  /\ dClosed' = TRUE
  /\ expired' = expired \cup sessions
  /\ idle' = {} /\ sessions' = {}
  /\ UNCHANGED <<made, sessVars, tokens, rm, watch, pc, ses>>

-----------------------------------------------------------------------------
SessionStep(s) ==
  \/ CloseStreams(s) \/ CloseConn(s) \/ RemoveDec(s) \/ RemoveIdle(s) \/ RemoveToken(s)
WatchStep(s) == WatchDone(s) \/ WatchToken(s) \/ WatchPool(s) \/ WatchClose(s)
DialStep(c) == Pop(c) \/ Probe(c) \/ Dial(c) \/ RegisterSession(c) \/ AddStream(c) \/ WriteSyn(c) \/ DialFails(c)

Next ==
  \/ \E s \in Sessions : SessionStep(s) \/ WatchStep(s) \/ RemoteClose(s) \/ ConnDies(s) \/ CloseExpired(s)
  \/ \E c \in Callers : DialCalled(c) \/ DialStep(c) \/ StreamClose(c)
  \/ Janitor \/ DialerClose

Spec == Init /\ [][Next]_vars

-----------------------------------------------------------------------------
(* Caller c has session s: it took it and its stream is not yet closed.    *)
Has(c, s) ==
  ses[c] = s /\ (pc[c] \in {"probe", "reg", "add"} \/ (pc[c] \in {"write", "open"} /\ c \in streams[s]))

(* A session serves one caller at a time, and none while it is in the      *)
(* pool: no second dial gets it while a stream, or a dial that took it,    *)
(* has it (popIdleSessionForReuse, watchSession).                          *)
OneCallerPerSession ==
  \A s \in Sessions : ~closed[s] =>
    /\ \A c, e \in Callers : Has(c, s) /\ Has(e, s) => c = e
    /\ s \in idle => \A c \in Callers : ~Has(c, s)

(* The maintenance of the pool, the watcher's and the janitor's, never     *)
(* closes a session that a caller has; only Dialer.Close does.             *)
MaintenanceSparesUsed ==
  \A s \in Sessions :
    (watch[s] = "close" \/ s \in expired) /\ ~closed[s] /\ ~dClosed => \A c \in Callers : ~Has(c, s)

(* A session that is shut down holds no stream: one that is added while    *)
(* Close runs is either refused or closed with the others.                 *)
ShutHoldsNoStream == \A s \in Sessions : shut[s] \in {"conn", "done"} => streams[s] = {}

(* What the pool promises its callers and the sessions themselves.         *)
PoolIsSafe == TypeOK /\ OneCallerPerSession /\ MaintenanceSparesUsed /\ ShutHoldsNoStream

Unused(s) ==
  /\ s \in made /\ ~closed[s] /\ s \notin idle
  /\ ~\E c \in Callers : Has(c, s) \/ (ses[c] = s /\ pc[c] = "fail")

(* A session nobody uses goes back into the pool or is closed: it is not   *)
(* lost between removeStream and the watcher.                              *)
UnusedIsPooledOrClosed == \A s \in Sessions : Unused(s) ~> ~Unused(s)

(* After Dialer.Close every session ends closed, those of dials that were  *)
(* under way included.                                                     *)
DialerCloseClosesAll == dClosed ~> [](\A s \in made : closed[s])

-----------------------------------------------------------------------------
(* Proofs, for any sessions, callers and size of the pool: a session that  *)
(* is open is in one place at a time, with a caller, on its way back, in   *)
(* the pool or with the janitor; what is shut down holds no stream.        *)

\* What the proofs assume of the constants.
Setting ==
  /\ IsFiniteSet(Sessions) /\ IsFiniteSet(Callers)
  /\ MaxIdle \in Nat
  /\ None \notin Sessions

-----------------------------------------------------------------------------
(* The inductive invariant                                                 *)

\* TypeOK, a group of variables at a time.
Flags == dClosed \in BOOLEAN /\ closed \in [Sessions -> BOOLEAN] /\ idleAt \in [Sessions -> BOOLEAN]
DialerTyped ==
  /\ idle \subseteq made /\ sessions \subseteq made /\ made \subseteq Sessions /\ expired \subseteq made
IdleBound == Cardinality(idle) <= MaxIdle
SessionTyped ==
  /\ state \in [Sessions -> {"active", "idle", "closing", "closed"}]
  /\ streams \in [Sessions -> SUBSET Callers]
  /\ active \in [Sessions -> IF Callers = {} THEN {0} ELSE {0, 1}]
  /\ shut \in [Sessions -> {"no", "streams", "conn", "done"}]
WatchTyped ==
  /\ tokens \in [Sessions -> 0..ChanCap]
  /\ rm \in [Sessions -> {"no", "dec", "idle", "token"}]
  /\ watch \in [Sessions -> {"off", "wait", "pool", "close", "end"}]
CallerTyped ==
  /\ pc \in [Callers -> {"idle", "pop", "probe", "dial", "reg", "add", "write", "open", "fail"}]
  /\ ses \in [Callers -> Sessions \cup {None}]

\* A dial has a session from the pop, or the connection, on.
DialsHaveSession ==
  \A c \in Callers : IF pc[c] \in {"idle", "pop", "dial"} THEN ses[c] = None ELSE ses[c] \in made

\* Nothing happens to a session before its connection is made.
UnmadeIsUntouched ==
  \A s \in Sessions \ made : rm[s] = "no" /\ tokens[s] = 0 /\ watch[s] = "off"

\* A stream in the map is that of a caller that is opening or using it.
StreamsHaveCaller ==
  \A s \in Sessions : \A c \in streams[s] : ses[c] = s /\ pc[c] \in {"write", "open"}

\* Close swaps closed before it goes through the streams.
ShutIsClosed == \A s \in Sessions : shut[s] # "no" => closed[s]

Holders(s) == {c \in Callers : Has(c, s)}

\* The janitor has it; after Dialer.Close expired says no more than that it is to close.
Expired(s) == s \in expired /\ ~dClosed

\* An open session is in one place: with one caller, in removeStream, announced to
\* the watcher, with the watcher, in the pool, or with the janitor.
OnePlace(s) ==
  /\ \A c, e \in Holders(s) : c = e
  /\ Holders(s) # {} => rm[s] = "no"
  /\ tokens[s] \in {0, 1}
  /\ Holders(s) # {} \/ rm[s] # "no" => tokens[s] = 0
  /\ Holders(s) # {} \/ rm[s] # "no" \/ tokens[s] # 0 => watch[s] \notin {"pool", "close"}
  /\ Holders(s) # {} \/ rm[s] # "no" \/ tokens[s] # 0 \/ watch[s] \in {"pool", "close"} => s \notin idle
  /\ Holders(s) # {} \/ rm[s] # "no" \/ tokens[s] # 0 \/ watch[s] \in {"pool", "close"} \/ s \in idle
       => ~Expired(s)
OpenIsInOnePlace == \A s \in Sessions : ~closed[s] => OnePlace(s)

\* activeStreams counts the stream of an open session until removeStream has counted
\* it down.
ActiveCounts ==
  \A s \in Sessions : ~closed[s] => (active[s] = 1 <=> streams[s] # {} \/ rm[s] = "dec")

PoolInv ==
  /\ Flags /\ DialerTyped /\ IdleBound /\ SessionTyped /\ WatchTyped /\ CallerTyped
  /\ DialsHaveSession /\ UnmadeIsUntouched /\ StreamsHaveCaller
  /\ ShutIsClosed /\ ShutHoldsNoStream
  /\ OpenIsInOnePlace /\ ActiveCounts

-----------------------------------------------------------------------------
(* Lemmas: what a step leaves alone                                        *)

\* Each part of the invariant outlives a step that leaves its variables alone.
LEMMA Frames ==
  ASSUME PoolInv
  PROVE  /\ UNCHANGED <<dClosed, closed, idleAt>> => Flags'
         /\ UNCHANGED <<idle, sessions, made, expired>> => DialerTyped'
         /\ UNCHANGED idle => IdleBound'
         /\ UNCHANGED <<state, streams, active, shut>> => SessionTyped'
         /\ UNCHANGED <<tokens, rm, watch>> => WatchTyped'
         /\ UNCHANGED <<pc, ses>> => CallerTyped'
         /\ UNCHANGED <<pc, ses, made>> => DialsHaveSession'
         /\ UNCHANGED <<made, tokens, rm, watch>> => UnmadeIsUntouched'
         /\ UNCHANGED <<streams, pc, ses>> => StreamsHaveCaller'
         /\ UNCHANGED <<closed, shut>> => ShutIsClosed'
         /\ UNCHANGED <<streams, shut>> => ShutHoldsNoStream'
         /\ UNCHANGED <<closed, active, streams, rm>> => ActiveCounts'
<1> USE DEF PoolInv
<1>1. /\ UNCHANGED <<dClosed, closed, idleAt>> => Flags'
      /\ UNCHANGED <<idle, sessions, made, expired>> => DialerTyped'
      /\ UNCHANGED idle => IdleBound'
  BY Zenon DEF Flags, DialerTyped, IdleBound
<1>2. /\ UNCHANGED <<state, streams, active, shut>> => SessionTyped'
      /\ UNCHANGED <<tokens, rm, watch>> => WatchTyped'
      /\ UNCHANGED <<pc, ses>> => CallerTyped'
  BY DEF SessionTyped, WatchTyped, CallerTyped
<1>3. /\ UNCHANGED <<pc, ses, made>> => DialsHaveSession'
      /\ UNCHANGED <<made, tokens, rm, watch>> => UnmadeIsUntouched'
      /\ UNCHANGED <<streams, pc, ses>> => StreamsHaveCaller'
  BY DEF DialsHaveSession, UnmadeIsUntouched, StreamsHaveCaller
<1>4. /\ UNCHANGED <<closed, shut>> => ShutIsClosed'
      /\ UNCHANGED <<streams, shut>> => ShutHoldsNoStream'
      /\ UNCHANGED <<closed, active, streams, rm>> => ActiveCounts'
  BY Zenon DEF ShutIsClosed, ShutHoldsNoStream, ActiveCounts
<1> QED
  BY <1>1, <1>2, <1>3, <1>4, Zenon

\* A step of c, or of nobody, that puts no other stream into a map makes nobody else
\* a holder.
LEMMA OthersHold ==
  ASSUME NEW c \in Callers,
         \A e \in Callers \ {c} : pc'[e] = pc[e] /\ ses'[e] = ses[e],
         \A s \in Sessions : streams'[s] \subseteq streams[s] \cup {c}
  PROVE  \A s \in Sessions : Holders(s)' \subseteq Holders(s) \cup {c}
BY Zenon DEF Holders, Has

\* Where no caller moves and no stream is added, nobody becomes a holder.
LEMMA NobodyMoves ==
  ASSUME UNCHANGED <<pc, ses>>, \A s \in Sessions : streams'[s] \subseteq streams[s]
  PROVE  \A s \in Sessions : Holders(s)' \subseteq Holders(s)
BY Zenon DEF Holders, Has

\* A session that enters no place is in one place still.
LEMMA NothingEnters ==
  ASSUME OpenIsInOnePlace, NEW s \in Sessions,
         closed[s] => closed'[s],
         Holders(s)' \subseteq Holders(s),
         rm'[s] # "no" => rm[s] # "no",
         tokens'[s] \in {tokens[s], 0},
         watch'[s] \in {"pool", "close"} => watch[s] \in {"pool", "close"},
         s \in idle' => s \in idle,
         Expired(s)' => Expired(s)
  PROVE  ~closed'[s] => OnePlace(s)'
BY Zenon DEF OpenIsInOnePlace, OnePlace

\* The swap of Close.
LEMMA ShutCloses ==
  ASSUME PoolInv, NEW s \in Sessions, Shut(s)
  PROVE  /\ closed' \in [Sessions -> BOOLEAN]
         /\ closed'[s] /\ \A t \in Sessions : t # s => closed'[t] = closed[t]
         /\ state' \in [Sessions -> {"active", "idle", "closing", "closed"}]
         /\ shut' \in [Sessions -> {"no", "streams", "conn", "done"}]
         /\ \A t \in Sessions : shut'[t] = shut[t] \/ shut'[t] = "streams"
         /\ ShutIsClosed'
<1> USE DEF PoolInv
<1>1. closed' \in [Sessions -> BOOLEAN]
  BY Zenon DEF Flags, Shut
<1>2. closed'[s] /\ \A t \in Sessions : t # s => closed'[t] = closed[t]
  BY Zenon DEF Flags, Shut
<1>3. /\ state' \in [Sessions -> {"active", "idle", "closing", "closed"}]
      /\ shut' \in [Sessions -> {"no", "streams", "conn", "done"}]
  BY Zenon DEF SessionTyped, Shut
<1>4. \A t \in Sessions : shut'[t] = shut[t] \/ (t = s /\ shut'[t] = "streams")
  BY Zenon DEF SessionTyped, Shut
<1>5. ShutIsClosed'
  BY <1>2, <1>4, Zenon DEF ShutIsClosed
<1> QED
  BY <1>1, <1>2, <1>3, <1>4, <1>5, Zenon

-----------------------------------------------------------------------------
(* Every step preserves the invariant                                      *)

\* A Close, of the watcher, the janitor or the read loop, that changes no caller,
\* no stream and no place.
LEMMA CloseKeeps ==
  ASSUME Setting, PoolInv, NEW s \in Sessions, Shut(s),
         UNCHANGED <<dClosed, idle, sessions, made, idleAt, streams, active, tokens, rm>>,
         expired' \subseteq expired,
         watch' \in [Sessions -> {"off", "wait", "pool", "close", "end"}],
         \A t \in Sessions : watch'[t] = watch[t] \/ (watch[t] # "off" /\ watch'[t] = "wait"),
         CallerTyped', DialsHaveSession', StreamsHaveCaller',
         \A t \in Sessions \ {s} : Holders(t)' \subseteq Holders(t)
  PROVE  PoolInv'
<1> USE DEF PoolInv
<1>1. Flags' /\ ShutIsClosed'
  BY ShutCloses, Zenon DEF Flags
<1>2. DialerTyped' /\ IdleBound'
  BY Zenon DEF DialerTyped, IdleBound
<1>3. SessionTyped'
  BY ShutCloses, Zenon DEF SessionTyped
<1>4. WatchTyped' /\ UnmadeIsUntouched'
  BY Zenon DEF WatchTyped, UnmadeIsUntouched
<1>5. ShutHoldsNoStream'
  <2>1. \A t \in Sessions : shut'[t] = shut[t] \/ shut'[t] = "streams"
    BY ShutCloses, Zenon
  <2> QED
    BY <2>1, Zenon DEF ShutHoldsNoStream
<1>6. ASSUME NEW t \in Sessions
      PROVE  ~closed'[t] => OnePlace(t)'
  <2>1. CASE t = s
    BY <2>1, ShutCloses, Zenon
  <2>2. CASE t # s
    <3>1. closed'[t] = closed[t]
      BY <2>2, ShutCloses
    <3> QED
      BY <2>2, <3>1, NothingEnters, Zenon DEF Expired
  <2> QED
    BY <2>1, <2>2, Zenon
<1>7. ActiveCounts'
  <2>1. \A t \in Sessions : closed[t] => closed'[t]
    BY ShutCloses, Zenon
  <2> QED
    BY <2>1, Zenon DEF ActiveCounts
<1> QED
  BY <1>1, <1>2, <1>3, <1>4, <1>5, <1>6, <1>7, Zenon DEF OpenIsInOnePlace

\* The rest of session.Close.
LEMMA ShutSteps ==
  ASSUME Setting, PoolInv, NEW s \in Sessions, CloseStreams(s) \/ CloseConn(s)
  PROVE  PoolInv'
<1> USE DEF PoolInv, dialVars
<1>0. closed[s]
  BY Zenon DEF CloseStreams, CloseConn, ShutIsClosed
<1>1. CASE CloseStreams(s)
  <2> USE DEF CloseStreams
  <2>1. SessionTyped'
    BY <1>1, Zenon DEF SessionTyped
  <2>2. \A t \in Sessions : /\ streams'[t] = IF t = s THEN {} ELSE streams[t]
                            /\ active'[t] = IF t = s THEN 0 ELSE active[t]
                            /\ shut'[t] = IF t = s THEN "conn" ELSE shut[t]
    BY <1>1, Zenon DEF SessionTyped
  <2>3. StreamsHaveCaller' /\ ShutIsClosed' /\ ShutHoldsNoStream' /\ ActiveCounts'
    BY <1>0, <1>1, <2>2 DEF StreamsHaveCaller, ShutIsClosed, ShutHoldsNoStream, ActiveCounts
  <2>4. \A t \in Sessions : Holders(t)' \subseteq Holders(t)
    BY <1>1, <2>2, NobodyMoves
  <2>5. OpenIsInOnePlace'
    BY <1>1, <2>4, NothingEnters, Zenon DEF OpenIsInOnePlace, Expired
  <2> QED
    BY <1>1, <2>1, <2>3, <2>5, Frames, Zenon
<1>2. CASE CloseConn(s)
  <2> USE DEF CloseConn
  <2>1. SessionTyped'
    BY <1>2, Zenon DEF SessionTyped
  <2>2. \A t \in Sessions : shut'[t] = IF t = s THEN "done" ELSE shut[t]
    BY <1>2, Zenon DEF SessionTyped
  <2>3. ShutIsClosed' /\ ShutHoldsNoStream'
    BY <1>0, <1>2, <2>2, Zenon DEF ShutIsClosed, ShutHoldsNoStream
  <2>4. OpenIsInOnePlace'
    BY <1>2, NobodyMoves, NothingEnters, Zenon DEF OpenIsInOnePlace, Expired
  <2> QED
    BY <1>2, <2>1, <2>3, <2>4, Frames
<1> QED
  BY <1>1, <1>2, Zenon

\* removeStream: the session goes from one of its steps to the next and to the watcher.
LEMMA RemoveSteps ==
  ASSUME Setting, PoolInv, NEW s \in Sessions, RemoveDec(s) \/ RemoveIdle(s) \/ RemoveToken(s)
  PROVE  PoolInv'
<1> USE DEF PoolInv, dialVars, sessVars
<1>0. s \in made
  BY Zenon DEF RemoveDec, RemoveIdle, RemoveToken, UnmadeIsUntouched
<1>1. \A t \in Sessions : Holders(t)' \subseteq Holders(t)
  BY NobodyMoves, Zenon DEF RemoveDec, RemoveIdle, RemoveToken
<1>2. CASE RemoveDec(s)
  <2> USE DEF RemoveDec
  <2>1. SessionTyped' /\ WatchTyped'
    BY <1>2 DEF SessionTyped, WatchTyped
  <2>2. \A t \in Sessions : /\ t # s => rm'[t] = rm[t] /\ active'[t] = active[t]
                            /\ rm'[s] \in {"no", "idle"} /\ active'[s] = 0
    BY <1>2 DEF SessionTyped, WatchTyped
  <2>3. ~closed[s] => streams[s] = {}
    <3>1. \A c \in streams[s] : c \in Holders(s)
      BY Zenon DEF SessionTyped, StreamsHaveCaller, Holders, Has
    <3> QED
      BY <1>2, <3>1, Zenon DEF OpenIsInOnePlace, OnePlace
  <2>4. UnmadeIsUntouched' /\ ActiveCounts'
    BY <1>0, <1>2, <2>2, <2>3 DEF UnmadeIsUntouched, ActiveCounts
  <2>5. OpenIsInOnePlace'
    BY <1>1, <1>2, <2>2, NothingEnters, Zenon DEF OpenIsInOnePlace, Expired
  <2> QED
    BY <1>2, <2>1, <2>4, <2>5, Frames, Zenon
<1>3. CASE RemoveIdle(s)
  <2> USE DEF RemoveIdle
  <2>1. Flags'
    BY <1>3, Zenon DEF Flags
  <2>2. SessionTyped' /\ WatchTyped'
    BY <1>3, Zenon DEF SessionTyped, WatchTyped
  <2>3. \A t \in Sessions : rm'[t] = IF t = s THEN "token" ELSE rm[t]
    BY <1>3, Zenon DEF WatchTyped
  <2>4. UnmadeIsUntouched' /\ ActiveCounts'
    BY <1>0, <1>3, <2>3 DEF UnmadeIsUntouched, ActiveCounts
  <2>5. OpenIsInOnePlace'
    BY <1>1, <1>3, <2>3, NothingEnters, Zenon DEF OpenIsInOnePlace, Expired
  <2> QED
    BY <1>3, <2>1, <2>2, <2>4, <2>5, Frames, Zenon
<1>4. CASE RemoveToken(s)
  <2> USE DEF RemoveToken
  <2>1. WatchTyped'
    BY <1>4 DEF WatchTyped, ChanCap
  <2>2. /\ \A t \in Sessions : t # s => rm'[t] = rm[t] /\ tokens'[t] = tokens[t]
        /\ rm[s] # "no" /\ rm'[s] = "no" /\ (~closed[s] => tokens'[s] = 1)
    BY <1>4 DEF WatchTyped, OpenIsInOnePlace, OnePlace, ChanCap
  <2>3. UnmadeIsUntouched' /\ ActiveCounts'
    BY <1>0, <1>4, <2>2 DEF UnmadeIsUntouched, ActiveCounts
  <2>4. ASSUME NEW t \in Sessions
        PROVE  ~closed'[t] => OnePlace(t)'
    <3>1. CASE t = s
      BY <1>1, <1>4, <2>2, <3>1, Zenon DEF OpenIsInOnePlace, OnePlace, Expired
    <3>2. CASE t # s
      BY <1>1, <1>4, <2>2, <3>2, NothingEnters DEF Expired
    <3> QED
      BY <3>1, <3>2, Zenon
  <2> QED
    BY <1>4, <2>1, <2>3, <2>4, Frames, Zenon DEF OpenIsInOnePlace
<1> QED
  BY <1>2, <1>3, <1>4, Zenon

\* watchSession: from the token to the pool, if there is room, or to Close.
LEMMA WatchSteps ==
  ASSUME Setting, PoolInv, NEW s \in Sessions, WatchStep(s)
  PROVE  PoolInv'
<1> USE DEF PoolInv, dialVars, sessVars
<1>0. s \in made /\ \A t \in Sessions : Holders(t)' \subseteq Holders(t)
  BY NobodyMoves, Zenon DEF WatchStep, WatchDone, WatchToken, WatchPool, WatchClose, UnmadeIsUntouched
<1>1. CASE WatchDone(s)
  <2> USE DEF WatchDone
  <2>1. DialerTyped' /\ WatchTyped'
    BY <1>1, Zenon DEF DialerTyped, WatchTyped
  <2>2. IdleBound'
    BY <1>1, FS_Subset, FS_CardinalityType DEF Setting, DialerTyped, IdleBound
  <2>3. \A t \in Sessions : watch'[t] = IF t = s THEN "end" ELSE watch[t]
    BY <1>1, Zenon DEF WatchTyped
  <2>4. UnmadeIsUntouched'
    BY <1>0, <1>1, <2>3, Zenon DEF UnmadeIsUntouched
  <2>5. OpenIsInOnePlace'
    BY <1>0, <1>1, <2>3, NothingEnters, Zenon DEF OpenIsInOnePlace, Expired
  <2> QED
    BY <1>1, <2>1, <2>2, <2>4, <2>5, Frames, Zenon
<1>2. CASE WatchToken(s)
  <2> USE DEF WatchToken
  <2>1. WatchTyped'
    BY <1>2 DEF WatchTyped, ChanCap
  <2>2. /\ \A t \in Sessions : t # s => watch'[t] = watch[t] /\ tokens'[t] = tokens[t]
        /\ tokens[s] # 0 /\ (~closed[s] => tokens'[s] = 0)
    BY <1>2 DEF WatchTyped, OpenIsInOnePlace, OnePlace
  <2>3. UnmadeIsUntouched'
    BY <1>0, <1>2, <2>2, Zenon DEF UnmadeIsUntouched
  <2>4. ASSUME NEW t \in Sessions
        PROVE  ~closed'[t] => OnePlace(t)'
    <3>1. CASE t = s
      BY <1>0, <1>2, <2>2, <3>1, Zenon DEF OpenIsInOnePlace, OnePlace, Expired
    <3>2. CASE t # s
      BY <1>0, <1>2, <2>2, <3>2, NothingEnters, Zenon DEF Expired
    <3> QED
      BY <3>1, <3>2, Zenon
  <2> QED
    BY <1>2, <2>1, <2>3, <2>4, Frames, Zenon DEF OpenIsInOnePlace
<1>3. CASE WatchPool(s)
  <2> USE DEF WatchPool
  <2>1. DialerTyped' /\ WatchTyped'
    BY <1>0, <1>3 DEF DialerTyped, WatchTyped
  <2>2. IdleBound'
    <3>1. IsFiniteSet(idle) /\ Cardinality(idle) \in Nat
      BY FS_Subset, FS_CardinalityType, Zenon DEF Setting, DialerTyped
    <3>2. CASE idle' = idle
      BY <3>2, Zenon DEF IdleBound
    <3>3. CASE idle' # idle
      <4>1. idle' = idle \cup {s} /\ s \notin idle /\ ~(Cardinality(idle) >= MaxIdle)
        BY <1>3, <3>3, Zenon
      <4>2. Cardinality(idle') = Cardinality(idle) + 1
        BY <3>1, <4>1, FS_AddElement, Zenon
      <4> QED
        BY <3>1, <4>1, <4>2 DEF Setting, IdleBound
    <3> QED
      BY <3>2, <3>3, Zenon
  <2>3. /\ \A t \in Sessions : t # s => watch'[t] = watch[t] /\ (t \in idle' => t \in idle)
        /\ watch[s] = "pool"
        /\ (watch'[s] = "close" /\ idle' = idle) \/ watch'[s] = "wait"
    BY <1>3, Zenon DEF WatchTyped
  <2>4. UnmadeIsUntouched'
    BY <1>0, <1>3, <2>3, Zenon DEF UnmadeIsUntouched
  <2>5. ASSUME NEW t \in Sessions
        PROVE  ~closed'[t] => OnePlace(t)'
    <3>1. CASE t = s
      BY <1>0, <1>3, <2>3, <3>1, Zenon DEF OpenIsInOnePlace, OnePlace, Expired
    <3>2. CASE t # s
      BY <1>0, <1>3, <2>3, <3>2, NothingEnters, Zenon DEF Expired
    <3> QED
      BY <3>1, <3>2, Zenon
  <2> QED
    BY <1>3, <2>1, <2>2, <2>4, <2>5, Frames, Zenon DEF OpenIsInOnePlace
<1>4. CASE WatchClose(s)
  <2>1. /\ Shut(s) /\ watch' = [watch EXCEPT ![s] = "wait"] /\ watch[s] = "close"
        /\ UNCHANGED <<dialVars, idleAt, streams, active, tokens, rm, pc, ses>>
    BY <1>4, Zenon DEF WatchClose
  <2>2. /\ watch' \in [Sessions -> {"off", "wait", "pool", "close", "end"}]
        /\ \A t \in Sessions : watch'[t] = watch[t] \/ (watch[t] # "off" /\ watch'[t] = "wait")
    BY <2>1, Zenon DEF WatchTyped
  <2> QED
    BY <1>0, <2>1, <2>2, Frames, CloseKeeps, Zenon
<1> QED
  BY <1>1, <1>2, <1>3, <1>4, Zenon DEF WatchStep

\* A stream leaves the map, and its caller the session: removeStream has it then.
LEMMA RemoveKeeps ==
  ASSUME Setting, PoolInv, NEW s \in made, NEW c \in Callers, Remove(s, c),
         UNCHANGED <<dialVars, closed, state, idleAt, active, shut, tokens, watch>>,
         CallerTyped', DialsHaveSession', StreamsHaveCaller',
         \A t \in Sessions : Holders(t)' \subseteq Holders(t),
         c \in streams[s] => c \notin Holders(s)'
  PROVE  PoolInv'
<1> USE DEF PoolInv, dialVars
<1>0. s \in Sessions
  BY Zenon DEF DialerTyped
<1>1. /\ \A t \in Sessions : streams'[t] = IF t = s THEN streams[s] \ {c} ELSE streams[t]
      /\ \A t \in Sessions : rm'[t] = IF t = s /\ c \in streams[s] THEN "dec" ELSE rm[t]
  BY <1>0, Zenon DEF SessionTyped, WatchTyped, Remove
<1>2. SessionTyped' /\ WatchTyped'
  BY <1>0, Zenon DEF SessionTyped, WatchTyped, Remove
<1>3. UnmadeIsUntouched' /\ ShutHoldsNoStream'
  BY <1>1, Zenon DEF UnmadeIsUntouched, ShutHoldsNoStream
<1>4. streams[s] \subseteq Holders(s)
  BY <1>0 DEF SessionTyped, StreamsHaveCaller, Holders, Has
<1>5. ~closed[s] /\ c \in streams[s] => Holders(s)' = {} /\ streams[s] = {c} /\ rm[s] = "no"
  BY <1>0, <1>4 DEF OpenIsInOnePlace, OnePlace
<1>6. ActiveCounts'
  <2>1. \A t \in Sessions : t # s => streams'[t] = streams[t] /\ rm'[t] = rm[t]
    BY <1>1, Zenon
  <2>2. c \notin streams[s] => streams'[s] = streams[s] /\ rm'[s] = rm[s]
    BY <1>0, <1>1, Zenon
  <2>3. c \in streams[s] /\ ~closed[s] => rm'[s] = "dec" /\ active[s] = 1
    BY <1>0, <1>1, Zenon DEF ActiveCounts
  <2> QED
    BY <2>1, <2>2, <2>3, Zenon DEF ActiveCounts
<1>7. ASSUME NEW t \in Sessions
      PROVE  ~closed'[t] => OnePlace(t)'
  <2>1. CASE t = s /\ c \in streams[s]
    <3>1. Holders(s) # {}
      BY <1>4, <2>1, Zenon
    <3> QED
      BY <1>0, <1>1, <1>5, <2>1, <3>1, Zenon DEF OpenIsInOnePlace, OnePlace, Expired
  <2>2. CASE ~(t = s /\ c \in streams[s])
    <3>1. rm'[t] = rm[t]
      BY <1>1, <2>2, Zenon
    <3> QED
      BY <3>1, NothingEnters, Zenon DEF Expired
  <2> QED
    BY <2>1, <2>2, Zenon
<1> QED
  BY <1>2, <1>3, <1>6, <1>7, Frames, Zenon DEF OpenIsInOnePlace

\* The peer, the connection and the janitor.
LEMMA PeerSteps ==
  ASSUME Setting, PoolInv, NEW s \in Sessions, RemoteClose(s) \/ ConnDies(s) \/ CloseExpired(s)
  PROVE  PoolInv'
<1> USE DEF PoolInv, dialVars
<1>1. CASE RemoteClose(s)
  <2>1. PICK c \in streams[s] : Remove(s, c)
    BY <1>1, Zenon DEF RemoteClose
  <2>2. UNCHANGED <<dialVars, closed, state, idleAt, active, shut, tokens, watch, pc, ses>>
    BY <1>1, Zenon DEF RemoteClose
  <2>3. c \in Callers /\ s \in made
    BY <1>1, Zenon DEF RemoteClose, SessionTyped, UnmadeIsUntouched
  <2>4. \A t \in Sessions : streams'[t] = IF t = s THEN streams[s] \ {c} ELSE streams[t]
    BY <2>1, Zenon DEF SessionTyped, Remove
  <2>5. \A t \in Sessions : Holders(t)' \subseteq Holders(t)
    BY <2>2, <2>4, NobodyMoves, Zenon
  <2>6. c \notin Holders(s)'
    BY <2>2, <2>4, Zenon DEF StreamsHaveCaller, Holders, Has
  <2>7. StreamsHaveCaller'
    BY <2>2, <2>4 DEF StreamsHaveCaller
  <2> QED
    BY <2>1, <2>2, <2>3, <2>5, <2>6, <2>7, Frames, RemoveKeeps, Zenon
<1>2. CASE ConnDies(s) \/ CloseExpired(s)
  <2>1. /\ Shut(s) /\ expired' \subseteq expired
        /\ UNCHANGED <<dClosed, idle, sessions, made, idleAt, streams, active, tokens, rm, watch, pc, ses>>
    BY <1>2, Zenon DEF ConnDies, CloseExpired
  <2>2. \A t \in Sessions : Holders(t)' \subseteq Holders(t)
    BY <2>1, NobodyMoves, Zenon
  <2>3. watch' \in [Sessions -> {"off", "wait", "pool", "close", "end"}]
    BY <2>1, Zenon DEF WatchTyped
  <2> QED
    BY <2>1, <2>2, <2>3, Frames, CloseKeeps, Zenon
<1> QED
  BY <1>1, <1>2, Zenon

\* The janitor takes sessions out of the pool, Dialer.Close empties it.
LEMMA PoolSteps ==
  ASSUME Setting, PoolInv, Janitor \/ DialerClose
  PROVE  PoolInv'
<1> USE DEF PoolInv, sessVars
<1>1. /\ idle' \subseteq idle /\ UNCHANGED <<made, sessVars, tokens, rm, watch, pc, ses>>
      /\ \A t \in Sessions : Expired(t)' => Expired(t) \/ (t \in idle /\ t \notin idle')
  BY Zenon DEF Janitor, DialerClose, Expired
<1>2. Flags'
  BY <1>1, Zenon DEF Janitor, DialerClose, Flags
<1>3. DialerTyped'
  BY Zenon DEF Janitor, DialerClose, DialerTyped
<1>4. IdleBound'
  <2>1. IsFiniteSet(idle)
    BY FS_Subset, Zenon DEF Setting, DialerTyped
  <2>2. Cardinality(idle') <= Cardinality(idle) /\ Cardinality(idle') \in Nat /\ Cardinality(idle) \in Nat
    BY <1>1, <2>1, FS_Subset, FS_CardinalityType, Zenon
  <2> QED
    BY <2>2 DEF Setting, IdleBound
<1>5. ASSUME NEW t \in Sessions
      PROVE  ~closed'[t] => OnePlace(t)'
  <2>1. Holders(t)' \subseteq Holders(t)
    BY <1>1, NobodyMoves, Zenon
  <2>2. CASE Expired(t)' /\ ~Expired(t)
    BY <1>1, <2>1, <2>2, Zenon DEF OpenIsInOnePlace, OnePlace
  <2>3. CASE Expired(t)' => Expired(t)
    BY <1>1, <2>1, <2>3, NothingEnters, Zenon
  <2> QED
    BY <2>2, <2>3, Zenon
<1> QED
  BY <1>1, <1>2, <1>3, <1>4, <1>5, Frames, Zenon DEF OpenIsInOnePlace

\* A dial goes on, or gives up, without touching a session.
LEMMA MoveKeeps ==
  ASSUME Setting, PoolInv, NEW c \in Callers, NEW x, NEW y,
         CallerTyped',
         \A e \in Callers : /\ pc'[e] = IF e = c THEN x ELSE pc[e]
                            /\ ses'[e] = IF e = c THEN y ELSE ses[e],
         IF x \in {"idle", "pop", "dial"} THEN y = None ELSE y \in made,
         \A t \in Sessions : c \in streams[t] => y = t /\ x \in {"write", "open"},
         \A t \in Sessions : c \in Holders(t)' => c \in Holders(t),
         UNCHANGED <<dialVars, sessVars, tokens, rm, watch>>
  PROVE  PoolInv'
<1> USE DEF PoolInv, dialVars, sessVars
<1>1. DialsHaveSession'
  BY Zenon DEF DialsHaveSession
<1>2. StreamsHaveCaller'
  BY DEF SessionTyped, StreamsHaveCaller
<1>3. \A t \in Sessions : Holders(t)' \subseteq Holders(t)
  BY OthersHold
<1>4. OpenIsInOnePlace'
  BY <1>3, NothingEnters, Zenon DEF OpenIsInOnePlace, Expired
<1> QED
  BY <1>1, <1>2, <1>4, Frames, Zenon

\* Calls, and the steps of DialContext that touch no session.
LEMMA QuietSteps ==
  ASSUME Setting, PoolInv, NEW c \in Callers,
         \/ DialCalled(c)
         \/ Pop(c) /\ (dClosed \/ idle = {})
         \/ Dial(c) /\ made' = made
         \/ Probe(c) /\ pc'[c] = "add"
         \/ AddStream(c) /\ pc'[c] = "fail"
         \/ WriteSyn(c) /\ pc'[c] = "open"
  PROVE  PoolInv'
<1> USE DEF PoolInv, dialVars, sessVars, Go, Leave
<1>1. CASE DialCalled(c) \/ (Pop(c) /\ (dClosed \/ idle = {})) \/ (Dial(c) /\ made' = made)
  <2>1. PICK x \in {"idle", "pop", "dial"} :
          /\ pc' = [pc EXCEPT ![c] = x] /\ pc[c] \in {"idle", "pop", "dial"}
          /\ ses' \in {ses, [ses EXCEPT ![c] = None]}
          /\ UNCHANGED <<dialVars, sessVars, tokens, rm, watch>>
    BY <1>1, Zenon DEF DialCalled, Pop, Dial
  <2>2. CallerTyped' /\ ses[c] = None
    BY <2>1, Zenon DEF CallerTyped, DialsHaveSession
  <2>3. \A e \in Callers : /\ pc'[e] = IF e = c THEN x ELSE pc[e]
                           /\ ses'[e] = IF e = c THEN None ELSE ses[e]
    BY <2>1, <2>2, Zenon DEF CallerTyped
  <2>4. \A t \in Sessions : c \notin streams[t] /\ c \notin Holders(t)'
    BY <2>1, <2>3, Zenon DEF Setting, StreamsHaveCaller, Holders, Has
  <2> QED
    BY <2>1, <2>2, <2>3, <2>4, MoveKeeps
<1>2. CASE (Probe(c) /\ pc'[c] = "add") \/ (AddStream(c) /\ pc'[c] = "fail") \/ (WriteSyn(c) /\ pc'[c] = "open")
  <2>1. PICK x \in {"add", "fail", "open"} :
          /\ pc' = [pc EXCEPT ![c] = x] /\ ses' = ses
          /\ pc[c] = CASE x = "add" -> "probe" [] x = "fail" -> "add" [] x = "open" -> "write"
          /\ UNCHANGED <<dialVars, sessVars, tokens, rm, watch>>
    <3>1. CASE Probe(c) /\ pc'[c] = "add"
      BY <3>1, Zenon DEF Probe, CallerTyped
    <3>2. CASE AddStream(c) /\ pc'[c] = "fail"
      BY <3>2, Zenon DEF AddStream, CallerTyped
    <3>3. CASE WriteSyn(c) /\ pc'[c] = "open"
      BY <3>3, Zenon DEF WriteSyn, CallerTyped
    <3> QED
      BY <1>2, <3>1, <3>2, <3>3, Zenon
  <2>2. CallerTyped' /\ ses[c] \in made
    BY <2>1, Zenon DEF CallerTyped, DialsHaveSession
  <2>3. \A e \in Callers : /\ pc'[e] = IF e = c THEN x ELSE pc[e]
                           /\ ses'[e] = IF e = c THEN ses[c] ELSE ses[e]
    BY <2>1, Zenon DEF CallerTyped
  <2>4. \A t \in Sessions : c \in streams[t] => ses[c] = t /\ x \in {"write", "open"}
    BY <2>1, Zenon DEF StreamsHaveCaller
  <2>5. \A t \in Sessions : c \in Holders(t)' => c \in Holders(t)
    BY <2>1, <2>3, Zenon DEF Holders, Has
  <2> QED
    BY <2>1, <2>2, <2>3, <2>4, <2>5, MoveKeeps
<1> QED
  BY <1>1, <1>2, Zenon

\* A dial that gives its session up closes it.
LEMMA GiveUpSteps ==
  ASSUME Setting, PoolInv, NEW c \in Callers,
         \/ Probe(c) /\ pc'[c] = "pop"
         \/ RegisterSession(c) /\ dClosed
         \/ DialFails(c)
  PROVE  PoolInv'
<1> USE DEF PoolInv, dialVars, sessVars, Go, Leave
<1>1. PICK x \in {"idle", "pop"} :
        /\ Shut(ses[c]) /\ pc[c] \in {"probe", "reg", "fail"}
        /\ pc' = [pc EXCEPT ![c] = x] /\ ses' = [ses EXCEPT ![c] = None]
        /\ UNCHANGED <<dialVars, idleAt, streams, active, tokens, rm, watch>>
  <2>1. CASE Probe(c) /\ pc'[c] = "pop"
    BY <2>1, Zenon DEF Probe, CallerTyped
  <2>2. CASE (RegisterSession(c) /\ dClosed) \/ DialFails(c)
    BY <2>2, Zenon DEF RegisterSession, DialFails
  <2> QED
    BY <2>1, <2>2, Zenon
<1>2. ses[c] \in Sessions
  BY <1>1, Zenon DEF DialsHaveSession, DialerTyped
<1>3. CallerTyped'
  BY <1>1, Zenon DEF CallerTyped
<1>4. \A e \in Callers : /\ pc'[e] = IF e = c THEN x ELSE pc[e]
                         /\ ses'[e] = IF e = c THEN None ELSE ses[e]
  BY <1>1, Zenon DEF CallerTyped
<1>5. DialsHaveSession'
  BY <1>1, <1>4 DEF DialsHaveSession
<1>6. StreamsHaveCaller'
  BY <1>1, <1>4 DEF SessionTyped, StreamsHaveCaller
<1>7. \A t \in Sessions : Holders(t)' \subseteq Holders(t)
  BY <1>1, <1>4 DEF Setting, Holders, Has
<1>8. watch' \in [Sessions -> {"off", "wait", "pool", "close", "end"}]
  BY <1>1, Zenon DEF WatchTyped
<1> QED
  BY <1>1, <1>2, <1>3, <1>5, <1>6, <1>7, <1>8, CloseKeeps

\* A dial takes a session out of the pool, to use it or because it cannot.
LEMMA PopStep ==
  ASSUME Setting, PoolInv, NEW c \in Callers, Pop(c), ~dClosed, idle # {}
  PROVE  PoolInv'
<1> USE DEF PoolInv, dialVars, sessVars, Go, Leave
<1>1. PICK s \in idle :
        /\ pc[c] = "pop"
        /\ idle' = idle \ {s}
        /\ IF closed[s] \/ active[s] # 0 \/ state[s] # "idle"
           THEN UNCHANGED <<pc, ses, state>>
           ELSE /\ state' = [state EXCEPT ![s] = "active"]
                /\ pc' = [pc EXCEPT ![c] = "probe"]
                /\ ses' = [ses EXCEPT ![c] = s]
        /\ UNCHANGED <<dClosed, sessions, made, expired, closed, idleAt, streams, active, shut, tokens, rm, watch>>
  BY Zenon DEF Pop
<1>2. s \in made /\ s \in Sessions /\ DialerTyped' /\ SessionTyped' /\ CallerTyped'
  BY <1>1 DEF DialerTyped, SessionTyped, CallerTyped
<1>3. IdleBound'
  <2>1. IsFiniteSet(idle) /\ idle' \subseteq idle
    BY <1>1, FS_Subset, Zenon DEF Setting, DialerTyped
  <2>2. Cardinality(idle') <= Cardinality(idle) /\ Cardinality(idle') \in Nat /\ Cardinality(idle) \in Nat
    BY <2>1, FS_Subset, FS_CardinalityType, Zenon
  <2> QED
    BY <2>2 DEF Setting, IdleBound
<1>4. \A e \in Callers \ {c} : pc'[e] = pc[e] /\ ses'[e] = ses[e]
  BY <1>1, Zenon DEF CallerTyped
<1>5. (pc'[c] = pc[c] /\ ses'[c] = ses[c]) \/ (pc'[c] = "probe" /\ ses'[c] = s)
  BY <1>1, Zenon DEF CallerTyped
<1>6. DialsHaveSession' /\ StreamsHaveCaller'
  BY <1>1, <1>2, <1>4, <1>5 DEF SessionTyped, DialsHaveSession, StreamsHaveCaller
<1>7. \A t \in Sessions : Holders(t)' \subseteq Holders(t) \cup {c}
  BY <1>1, <1>4, OthersHold, Zenon
<1>8. \A t \in Sessions : c \in Holders(t)' => t = s
  BY <1>1, <1>5, Zenon DEF Holders, Has
<1>9. ASSUME NEW t \in Sessions
      PROVE  ~closed'[t] => OnePlace(t)'
  <2>1. CASE t = s
    BY <1>1, <1>7, <2>1 DEF OpenIsInOnePlace, OnePlace, Expired
  <2>2. CASE t # s
    BY <1>1, <1>7, <1>8, <2>2, NothingEnters DEF Expired
  <2> QED
    BY <2>1, <2>2, Zenon
<1> QED
  BY <1>1, <1>2, <1>3, <1>6, <1>9, Frames DEF OpenIsInOnePlace

\* A connection is made: its session is with the dial that made it.
LEMMA DialStepMade ==
  ASSUME Setting, PoolInv, NEW c \in Callers, Dial(c), made' # made
  PROVE  PoolInv'
<1> USE DEF PoolInv, dialVars, sessVars, Go, Leave
<1>1. PICK s \in Sessions \ made :
        /\ pc[c] = "dial" /\ made' = made \cup {s}
        /\ pc' = [pc EXCEPT ![c] = "reg"] /\ ses' = [ses EXCEPT ![c] = s]
        /\ UNCHANGED <<dClosed, idle, sessions, expired, sessVars, tokens, rm, watch>>
  BY Zenon DEF Dial
<1>2. DialerTyped' /\ CallerTyped'
  BY <1>1, Zenon DEF DialerTyped, CallerTyped
<1>3. \A e \in Callers : /\ pc'[e] = IF e = c THEN "reg" ELSE pc[e]
                         /\ ses'[e] = IF e = c THEN s ELSE ses[e]
  BY <1>1, Zenon DEF CallerTyped
<1>4. DialsHaveSession' /\ StreamsHaveCaller' /\ UnmadeIsUntouched'
  BY <1>1, <1>3 DEF SessionTyped, DialsHaveSession, StreamsHaveCaller, UnmadeIsUntouched
<1>5. Holders(s) = {}
  BY <1>1, Zenon DEF Setting, DialsHaveSession, Holders, Has
<1>6. \A t \in Sessions : Holders(t)' \subseteq Holders(t) \cup {c}
  BY <1>1, <1>3, OthersHold, Zenon
<1>7. \A t \in Sessions : c \in Holders(t)' => t = s
  BY <1>3, Zenon DEF Holders, Has
<1>8. ASSUME NEW t \in Sessions
      PROVE  ~closed'[t] => OnePlace(t)'
  <2>1. CASE t = s
    <3>1. rm[s] = "no" /\ tokens[s] = 0 /\ watch[s] = "off" /\ s \notin idle /\ s \notin expired
      BY <1>1, Zenon DEF UnmadeIsUntouched, DialerTyped
    <3>2. Holders(s)' \subseteq {c}
      BY <1>5, <1>6, Zenon
    <3> QED
      BY <1>1, <2>1, <3>1, <3>2, Zenon DEF OnePlace, Expired
  <2>2. CASE t # s
    BY <1>1, <1>6, <1>7, <2>2, NothingEnters DEF Expired
  <2> QED
    BY <2>1, <2>2, Zenon
<1> QED
  BY <1>1, <1>2, <1>4, <1>8, Frames, Zenon DEF OpenIsInOnePlace

\* The new session is registered and its watcher started.
LEMMA RegisterStep ==
  ASSUME Setting, PoolInv, NEW c \in Callers, RegisterSession(c), ~dClosed
  PROVE  PoolInv'
<1> USE DEF PoolInv, Go
<1> DEFINE s == ses[c]
<1>1. /\ pc[c] = "reg" /\ sessions' = sessions \cup {s}
      /\ watch' = [watch EXCEPT ![s] = "wait"] /\ pc' = [pc EXCEPT ![c] = "add"]
      /\ UNCHANGED <<ses, closed, state, shut, dClosed, idle, made, expired, idleAt, streams, active, tokens, rm>>
  BY Zenon DEF RegisterSession
<1>2. s \in made /\ s \in Sessions
  BY <1>1, Zenon DEF DialsHaveSession, DialerTyped
<1> HIDE DEF s
<1>3. DialerTyped' /\ WatchTyped' /\ CallerTyped'
  BY <1>1, <1>2, Zenon DEF DialerTyped, WatchTyped, CallerTyped
<1>4. \A e \in Callers : pc'[e] = IF e = c THEN "add" ELSE pc[e]
  BY <1>1, Zenon DEF CallerTyped
<1>5. \A t \in Sessions : watch'[t] = IF t = s THEN "wait" ELSE watch[t]
  BY <1>1, Zenon DEF WatchTyped
<1>6. DialsHaveSession' /\ StreamsHaveCaller' /\ UnmadeIsUntouched'
  BY <1>1, <1>2, <1>4, <1>5 DEF SessionTyped, DialsHaveSession, StreamsHaveCaller, UnmadeIsUntouched, s
<1>7. \A t \in Sessions : Holders(t)' \subseteq Holders(t)
  BY <1>1, <1>4, Zenon DEF Holders, Has
<1>8. OpenIsInOnePlace'
  BY <1>1, <1>5, <1>7, NothingEnters DEF OpenIsInOnePlace, Expired
<1> QED
  BY <1>1, <1>3, <1>6, <1>8, Frames

\* addStream.
LEMMA AddStep ==
  ASSUME Setting, PoolInv, NEW c \in Callers, AddStream(c), pc'[c] # "fail"
  PROVE  PoolInv'
<1> USE DEF PoolInv, dialVars, Go
<1> DEFINE s == ses[c]
<1>1. /\ pc[c] = "add" /\ ~closed[s] /\ pc' = [pc EXCEPT ![c] = "write"]
      /\ streams' = [streams EXCEPT ![s] = @ \cup {c}] /\ active' = [active EXCEPT ![s] = @ + 1]
      /\ state' = [state EXCEPT ![s] = "active"] /\ idleAt' = [idleAt EXCEPT ![s] = FALSE]
      /\ UNCHANGED <<dialVars, closed, shut, tokens, rm, watch, ses>>
  BY Zenon DEF AddStream, CallerTyped
<1>2. s \in Sessions /\ s \in made /\ c \in Holders(s)
  BY <1>1, Zenon DEF DialsHaveSession, DialerTyped, Holders, Has
<1> HIDE DEF s
<1>3. streams[s] = {} /\ rm[s] = "no" /\ active[s] = 0
  <2>1. \A e \in streams[s] : e \in Holders(s) /\ e # c
    BY <1>1, <1>2 DEF SessionTyped, StreamsHaveCaller, Holders, Has
  <2>2. streams[s] = {} /\ rm[s] = "no"
    BY <1>1, <1>2, <2>1 DEF OpenIsInOnePlace, OnePlace
  <2> QED
    BY <1>1, <1>2, <2>2, Zenon DEF ActiveCounts, SessionTyped
<1>4. Flags'
  BY <1>1, Zenon DEF Flags
<1>5. SessionTyped' /\ CallerTyped'
  BY <1>1, <1>2, <1>3 DEF SessionTyped, CallerTyped
<1>6. /\ \A e \in Callers : pc'[e] = IF e = c THEN "write" ELSE pc[e]
      /\ \A t \in Sessions : /\ streams'[t] = IF t = s THEN {c} ELSE streams[t]
                             /\ active'[t] = IF t = s THEN 1 ELSE active[t]
  BY <1>1, <1>2, <1>3 DEF SessionTyped, CallerTyped
<1>7. DialsHaveSession' /\ StreamsHaveCaller'
  BY <1>1, <1>2, <1>6 DEF SessionTyped, DialsHaveSession, StreamsHaveCaller, s
<1>8. ShutHoldsNoStream' /\ ActiveCounts'
  <2>1. ShutHoldsNoStream'
    <3>1. shut[s] = "no"
      BY <1>1, <1>2, Zenon DEF ShutIsClosed
    <3> QED
      BY <1>1, <1>6, <3>1, Zenon DEF ShutHoldsNoStream
  <2>2. ASSUME NEW t \in Sessions, ~closed'[t]
        PROVE  active'[t] = 1 <=> streams'[t] # {} \/ rm'[t] = "dec"
    <3>1. CASE t = s
      BY <1>6, <3>1
    <3>2. CASE t # s
      <4>1. active'[t] = active[t] /\ streams'[t] = streams[t] /\ rm'[t] = rm[t] /\ ~closed[t]
        BY <1>1, <1>6, <2>2, <3>2, Zenon
      <4> QED
        BY <4>1, Zenon DEF ActiveCounts
    <3> QED
      BY <3>1, <3>2
  <2> QED
    BY <2>1, <2>2 DEF ActiveCounts
<1>9. \A t \in Sessions : Holders(t)' \subseteq Holders(t)
  BY <1>1, <1>2, <1>6 DEF Holders, Has, s
<1>10. OpenIsInOnePlace'
  BY <1>1, <1>9, NothingEnters, Zenon DEF OpenIsInOnePlace, Expired
<1> QED
  BY <1>1, <1>4, <1>5, <1>7, <1>8, <1>10, Frames

\* The stream of c is removed, by its failed dial or by the application.
LEMMA RemovalSteps ==
  ASSUME Setting, PoolInv, NEW c \in Callers, (WriteSyn(c) /\ pc'[c] # "open") \/ StreamClose(c)
  PROVE  PoolInv'
<1> USE DEF PoolInv, dialVars, Go, Leave
<1> DEFINE s == ses[c]
<1>1. PICK x \in {"fail", "idle"} :
        /\ pc[c] \in {"write", "open"} /\ Remove(s, c) /\ pc' = [pc EXCEPT ![c] = x]
        /\ ses' = IF x = "fail" THEN ses ELSE [ses EXCEPT ![c] = None]
        /\ UNCHANGED <<dialVars, closed, state, idleAt, active, shut, tokens, watch>>
  BY Zenon DEF WriteSyn, StreamClose, CallerTyped
<1>2. s \in made /\ s \in Sessions
  BY <1>1, Zenon DEF DialsHaveSession, DialerTyped
<1>3. CallerTyped'
  BY <1>1, Zenon DEF CallerTyped
<1>4. /\ \A e \in Callers : e # c => pc'[e] = pc[e] /\ ses'[e] = ses[e]
      /\ pc'[c] = x /\ ses'[c] = IF x = "fail" THEN s ELSE None
  BY <1>1, Zenon DEF CallerTyped
<1>5. \A t \in Sessions : streams'[t] = IF t = s THEN streams[s] \ {c} ELSE streams[t]
  BY <1>1, Zenon DEF SessionTyped, Remove
<1>6. \A t \in Sessions : c \in streams[t] => t = s
  BY Zenon DEF StreamsHaveCaller
<1> HIDE DEF s
<1>7. DialsHaveSession'
  BY <1>1, <1>2, <1>4 DEF DialsHaveSession
<1>8. StreamsHaveCaller'
  <2>1. \A t \in Sessions : \A e \in streams'[t] : e \in streams[t] /\ e # c
    BY <1>5, <1>6, Zenon
  <2> QED
    BY <1>4, <2>1 DEF SessionTyped, StreamsHaveCaller
<1>9. \A t \in Sessions : c \notin Holders(t)'
  BY <1>4, Zenon DEF Holders, Has
<1>10. \A t \in Sessions : Holders(t)' \subseteq Holders(t)
  <2>1. \A t \in Sessions : Holders(t)' \subseteq Holders(t) \cup {c}
    BY <1>4, <1>5, OthersHold, Zenon
  <2> QED
    BY <1>9, <2>1
<1> QED
  BY <1>1, <1>2, <1>3, <1>7, <1>8, <1>9, <1>10, RemoveKeeps

\* Every step, and stuttering.
LEMMA PoolStep ==
  ASSUME Setting, PoolInv, [Next]_vars
  PROVE  PoolInv'
<1>1. CASE UNCHANGED vars
  <2>1. \A t \in Sessions : Holders(t)' \subseteq Holders(t)
    BY <1>1, NobodyMoves, Zenon DEF vars, sessVars
  <2>2. OpenIsInOnePlace'
    BY <1>1, <2>1, NothingEnters, Zenon DEF vars, dialVars, sessVars, PoolInv, OpenIsInOnePlace, Expired
  <2> QED
    BY <1>1, <2>2, Frames, Zenon DEF vars, dialVars, sessVars, PoolInv
<1>2. ASSUME NEW s \in Sessions, SessionStep(s) \/ WatchStep(s) \/ RemoteClose(s) \/ ConnDies(s) \/ CloseExpired(s)
      PROVE  PoolInv'
  BY <1>2, ShutSteps, RemoveSteps, WatchSteps, PeerSteps DEF SessionStep
<1>3. ASSUME NEW c \in Callers, DialCalled(c) \/ DialStep(c) \/ StreamClose(c)
      PROVE  PoolInv'
  <2>1. CASE DialCalled(c) \/ StreamClose(c) \/ DialFails(c)
    BY <2>1, QuietSteps, RemovalSteps, GiveUpSteps, Zenon
  <2>2. CASE Pop(c) \/ Dial(c)
    BY <2>2, QuietSteps, PopStep, DialStepMade, Zenon
  <2>3. CASE RegisterSession(c)
    BY <2>3, GiveUpSteps, RegisterStep, Zenon
  <2>4. CASE AddStream(c) \/ WriteSyn(c)
    BY <2>4, QuietSteps, AddStep, RemovalSteps, Zenon
  <2>5. CASE Probe(c)
    <3>1. pc'[c] \in {"add", "pop"}
      BY <2>5, Zenon DEF Probe, Go, PoolInv, CallerTyped
    <3> QED
      BY <2>5, <3>1, QuietSteps, GiveUpSteps, Zenon
  <2> QED
    BY <1>3, <2>1, <2>2, <2>3, <2>4, <2>5 DEF DialStep
<1> QED
  BY <1>1, <1>2, <1>3, PoolSteps, Zenon DEF Next

-----------------------------------------------------------------------------
(* The theorems                                                            *)

\* However dials, watchers, sweeps and Close of the dialer interleave, the pool's
\* bookkeeping agrees with its sessions: a session that is not shut has one
\* owner, activeStreams counts its streams, and a shut one has neither.
THEOREM PoolInvariant ==
  ASSUME Setting
  PROVE  Spec => []PoolInv
<1>1. ASSUME Init
      PROVE  PoolInv
  <2>1. Flags
    BY <1>1, Zenon DEF Init, Flags
  <2>2. DialerTyped /\ SessionTyped /\ WatchTyped /\ CallerTyped
    BY <1>1 DEF Init, DialerTyped, SessionTyped, WatchTyped, CallerTyped, ChanCap
  <2>3. IdleBound
    BY <1>1, FS_EmptySet DEF Init, IdleBound, Setting
  <2>4. DialsHaveSession /\ UnmadeIsUntouched /\ StreamsHaveCaller
    BY <1>1, Zenon DEF Init, DialsHaveSession, UnmadeIsUntouched, StreamsHaveCaller
  <2>5. ShutIsClosed /\ ShutHoldsNoStream /\ ActiveCounts
    BY <1>1 DEF Init, ShutIsClosed, ShutHoldsNoStream, ActiveCounts
  <2>6. \A s \in Sessions : Holders(s) = {}
    BY <1>1, Zenon DEF Init, Holders, Has
  <2>7. OpenIsInOnePlace
    BY <1>1, <2>6, Zenon DEF Init, OpenIsInOnePlace, OnePlace, Expired
  <2> QED
    BY <2>1, <2>2, <2>3, <2>4, <2>5, <2>7 DEF PoolInv
<1>2. PoolInv /\ [Next]_vars => PoolInv'
  BY PoolStep, Zenon
<1> QED
  BY <1>1, <1>2, PTL DEF Spec

\* The invariant gives the types: one stream at a time is within any number of callers.
LEMMA PoolIsTyped ==
  ASSUME Setting, PoolInv
  PROVE  TypeOK
<1> USE DEF PoolInv
<1>1. active \in [Sessions -> 0..Cardinality(Callers)]
  <2>1. Cardinality(Callers) \in Nat /\ (Callers # {} => Cardinality(Callers) # 0)
    BY FS_CardinalityType, FS_EmptySet, Zenon DEF Setting
  <2> QED
    BY <2>1 DEF SessionTyped
<1> QED
  BY <1>1, Zenon DEF TypeOK, Flags, DialerTyped, IdleBound, SessionTyped, WatchTyped, CallerTyped

\* A session serves one caller at a time, and none while it is in the pool, whatever
\* streams, watchers, janitor and Close do meanwhile; the watcher and the janitor close
\* no session that a caller has, and a session that is shut down holds no stream.
THEOREM SessionsHaveOneUse ==
  ASSUME Setting
  PROVE  Spec => []PoolIsSafe
<1>1. ASSUME PoolInv
      PROVE  OneCallerPerSession
  BY <1>1 DEF PoolInv, OpenIsInOnePlace, OnePlace, Holders, OneCallerPerSession
<1>2. ASSUME PoolInv
      PROVE  MaintenanceSparesUsed
  BY <1>2, Zenon DEF PoolInv, OpenIsInOnePlace, OnePlace, Holders, Expired, MaintenanceSparesUsed
<1>3. PoolInv => PoolIsSafe
  BY <1>1, <1>2, PoolIsTyped, Zenon DEF PoolInv, PoolIsSafe
<1> QED
  BY <1>3, PoolInvariant, PTL

=============================================================================
