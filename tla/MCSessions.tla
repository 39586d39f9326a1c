----------------------------- MODULE MCSessions -----------------------------
(* The AnyTLS session pool and streams, and the reassembly of TUIC         *)
(* datagrams, on small instances; liveness of the pool and the streams.    *)
(* Each behaviour is one of a single component, chosen by which; the       *)
(* variables of the others do not change.                                  *)
EXTENDS AnytlsPool, Sequences, TLC

CONSTANTS rd, rc, x1, x2

VARIABLES
  which,
  arrived, run, inRun, inbound, readBuf, left, reader, sClosed, closeErr, done, inMap, sesStep, close, first,
  writer, half, writeMu, writeClosed, wire, writes, deadline, changed, sets, setter, put, got, ended,
  pending, map, buckets, dPc, msg, bkt, need, dGot, releases, prunes, defragClosed

\* Three chunks of two bytes through a channel of one.
Reads == INSTANCE AnytlsStream WITH Chunks <- 3, ChunkLen <- 2, Cap <- 1, MaxWrites <- 0, MaxDeadlines <- 0,
                                    HalfClose <- FALSE, Packet <- FALSE, closed <- sClosed
\* A read deadline among the chunks.
Timed == INSTANCE AnytlsStream WITH Chunks <- 1, ChunkLen <- 1, Cap <- 1, MaxWrites <- 0, MaxDeadlines <- 1,
                                    HalfClose <- FALSE, Packet <- FALSE, closed <- sClosed
\* A Write and a CloseWrite.
Writes == INSTANCE AnytlsStream WITH Chunks <- 0, ChunkLen <- 1, Cap <- 1, MaxWrites <- 1, MaxDeadlines <- 0,
                                     HalfClose <- TRUE, Packet <- FALSE, closed <- sClosed
\* A ReadFrom with room for two units (rd), and a registered receiver (rc).
Room == [c \in {rd, rc} |-> IF c = rd THEN 2 ELSE 0]

\* Two packets with IDs of their own, any order, losses, an expiry and Close.
Defrag == INSTANCE TuicDefrag WITH Consumers <- {rd, rc}, Id <- <<1, 2>>, Addr <- <<x1, x1>>,
                                   Total <- <<2, 3>>, InOrder <- FALSE, MaxPrunes <- 1,
                                   CanClose <- TRUE, closed <- defragClosed, pc <- dPc, got <- dGot
\* One ID for three packets at once, received by one consumer, in order.
Reuse == INSTANCE TuicDefrag WITH Consumers <- {rc}, Id <- <<1, 1, 1>>, Addr <- <<x1, x2, x1>>,
                                  Total <- <<3, 3, 2>>, InOrder <- TRUE, MaxPrunes <- 0,
                                  CanClose <- FALSE, closed <- defragClosed, pc <- dPc, got <- dGot
\* Two chunks through a channel of one.
Blocked == INSTANCE AnytlsStream WITH Chunks <- 2, ChunkLen <- 1, Cap <- 1, MaxWrites <- 0, MaxDeadlines <- 0,
                                      HalfClose <- FALSE, Packet <- FALSE, closed <- sClosed
\* A read deadline that moves while nothing arrives.
Moved == INSTANCE AnytlsStream WITH Chunks <- 0, ChunkLen <- 1, Cap <- 1, MaxWrites <- 0, MaxDeadlines <- 1,
                                    HalfClose <- FALSE, Packet <- FALSE, closed <- sClosed

\* The instances are among those the proofs are about.
ASSUME Instances ==
  Setting /\ Reads!Setting /\ Timed!Setting /\ Writes!Setting /\ Blocked!Setting /\ Moved!Setting

streamVars == <<arrived, run, inRun, inbound, readBuf, left, reader, sClosed, closeErr, done, inMap, sesStep,
                close, first, writer, half, writeMu, writeClosed, wire, writes, deadline, changed, sets,
                setter, put, got, ended>>
defragVars == <<pending, map, buckets, dPc, msg, bkt, need, dGot, releases, prunes, defragClosed>>
allVars == <<which, vars, streamVars, defragVars>>

\* The variables of a component that a behaviour does not run.
StreamOff ==
  arrived = 0 /\ run = 0 /\ inRun = 0 /\ inbound = 0 /\ readBuf = 0 /\ left = 0 /\ reader = 0
  /\ sClosed = 0 /\ closeErr = 0 /\ done = 0 /\ inMap = 0 /\ sesStep = 0 /\ close = 0 /\ first = 0
  /\ writer = 0 /\ half = 0 /\ writeMu = 0 /\ writeClosed = 0 /\ wire = 0 /\ writes = 0
  /\ deadline = 0 /\ changed = 0 /\ sets = 0 /\ setter = 0 /\ put = 0 /\ got = 0 /\ ended = 0
DefragOff ==
  pending = 0 /\ map = 0 /\ buckets = 0 /\ dPc = 0 /\ msg = 0 /\ bkt = 0 /\ need = 0 /\ dGot = 0
  /\ releases = 0 /\ prunes = 0 /\ defragClosed = 0

SafetyInit ==
  /\ which \in {"pool", "reads", "timed", "writes", "defrag", "reuse"}
  /\ Init
  /\ IF which \in {"reads", "timed", "writes"} THEN Reads!Init ELSE StreamOff
  /\ IF which = "reuse" THEN Reuse!Init ELSE IF which = "defrag" THEN Defrag!Init ELSE DefragOff

SafetyNext ==
  \/ which = "pool" /\ Next /\ UNCHANGED <<which, streamVars, defragVars>>
  \/ which = "reads" /\ Reads!Next /\ UNCHANGED <<which, vars, defragVars>>
  \/ which = "timed" /\ Timed!Next /\ UNCHANGED <<which, vars, defragVars>>
  \/ which = "writes" /\ Writes!Next /\ UNCHANGED <<which, vars, defragVars>>
  \/ which = "defrag" /\ Defrag!Next /\ UNCHANGED <<which, vars, streamVars>>
  \/ which = "reuse" /\ Reuse!Next /\ UNCHANGED <<which, vars, streamVars>>

SafetySpec == SafetyInit /\ [][SafetyNext]_allVars

\* Callers and sessions are interchangeable.
Symmetry == Permutations(Sessions) \cup Permutations(Callers)

LiveInit == which \in {"pool", "blocked", "timed"} /\ Init /\ Blocked!Init /\ Defrag!Init

LiveNext ==
  \/ which = "pool" /\ Next /\ UNCHANGED <<which, streamVars, defragVars>>
  \/ which = "blocked" /\ Blocked!Next /\ UNCHANGED <<which, vars, defragVars>>
  \/ which = "timed" /\ Moved!Next /\ UNCHANGED <<which, vars, defragVars>>

(* AnytlsPool: every goroutine that can move does; dials and writes return.*)
PoolFairness ==
  /\ \A s \in Sessions : /\ WF_vars(which = "pool" /\ SessionStep(s))
                         /\ WF_vars(which = "pool" /\ WatchStep(s))
                         /\ WF_vars(which = "pool" /\ CloseExpired(s))
  /\ \A c \in Callers : WF_vars(which = "pool" /\ DialStep(c))

(* AnytlsStream: the steps of a call that can go on do.  Reads may come    *)
(* for ever; readMutex still goes to a Close that waits for it (a Go mutex *)
(* serves a starving waiter), hence the strong fairness.                   *)
StreamFairness ==
  /\ WF_streamVars((which = "blocked" /\ Blocked!RunStep) \/ (which = "timed" /\ Moved!RunStep))
  /\ WF_streamVars((which = "blocked" /\ Blocked!ReadStep) \/ (which = "timed" /\ Moved!ReadStep))
  /\ WF_streamVars(which = "timed" /\ Moved!Notify)
  /\ \A g \in Blocked!Closers :
       /\ WF_streamVars((which = "blocked" /\ Blocked!CloseStep(g)) \/ (which = "timed" /\ Moved!CloseStep(g)))
       /\ SF_streamVars((which = "blocked" /\ Blocked!CloseDrain(g)) \/ (which = "timed" /\ Moved!CloseDrain(g)))

LiveSpec == LiveInit /\ [][LiveNext]_allVars /\ PoolFairness /\ StreamFairness

-----------------------------------------------------------------------------
(* The properties of the other components, which explain them.             *)

\* Read delivers the chunks in order and complete, an end it reports is final, the buffer of
\* a chunk has one owner and a local Close leaves none behind.
ReadInOrder ==
  which \in {"reads", "timed", "writes"} =>
    /\ Reads!TypeOK /\ Reads!BufferHasOneOwner /\ Reads!CloseLeavesNothing /\ Reads!EndIsFinal
    /\ which = "reads" => Reads!ReadInOrder
\* A FIN is the last frame of a stream and the only one.
FINIsLast == which = "writes" => Writes!FINIsLast

\* An assembled packet is a packet that was sent, and the buffer of a fragment is
\* released at most once; with one consumer, kept fragments are in a bucket of the map,
\* and packets that arrived completely are delivered.
AssembledIsPacket ==
  IF which = "reuse"
  THEN /\ Reuse!TypeOK /\ Reuse!AssembledIsPacket /\ Reuse!BufferReleasedOnce /\ Reuse!FragmentsReachable
       /\ Reuse!CompleteIsDelivered
  ELSE which = "defrag" => Defrag!TypeOK /\ Defrag!AssembledIsPacket /\ Defrag!BufferReleasedOnce

\* A session nobody uses is pooled or closed in the end, and Dialer.Close ends them all.
SessionsEndUp == UnusedIsPooledOrClosed /\ DialerCloseClosesAll
\* Close of a stream returns, and a deadline moved to the past ends a Read.
CloseReturns == Blocked!CloseReturns /\ Moved!DeadlineEndsRead
=============================================================================
