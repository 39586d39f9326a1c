-------------------------------- MODULE MCHy2 --------------------------------
(* The Hysteria2 client with its defragger, its port-hopping connection    *)
(* and the sticky dialer on small instances, for safety and, with a UDP    *)
(* session, for liveness.  Each behaviour is one of a single component,    *)
(* chosen by which; the variables of the others keep their initial values. *)
EXTENDS Hy2Client, Sequences, TLC

CONSTANTS r1, k1, Nobody, Worker, Owner, Router, None, d1, d2, a4, b4, c6, Nil

VARIABLES
  which,
  arrived, dead, done, once, mx, inMap, router, inRouter, queue, worker, inWorker, deliverMu, receiver,
  reg, inReg, chan, uClosed, dClosed, chClosed, reader, inReader, closing, writer, sendBuf, released,
  taken, calls,
  sends, fed, d, out, releases,
  cur, prev, hClosed, open, hopper, dialed, hLoop, slots, full, sent, late, hQueue, pool, hReader, hWriter, last,
  errors, deadlines,
  spec, union,
  entry, cycle, checker, expiries, dial, conns

\* Three packets of one to three fragments, seven datagrams.
Feed == INSTANCE Hy2Defrag WITH Lengths <- {1, 4, 5}, Limits <- {2}, MaxSends <- 3, MaxFeeds <- 7
\* Lengths around one fragment, and around the 255 fragments FragCount can number.
Split == INSTANCE Hy2Defrag WITH Lengths <- (0..7) \cup (253..258) \cup (508..513) \cup (763..768),
                                 Limits <- -1..3, MaxSends <- 1, MaxFeeds <- 0

\* Two messages and no registration; one message and one registration.  The worker
\* queue and the channel hold one message.
LiveUdp == INSTANCE Hy2Udp WITH Registrars <- {}, Closers <- {k1}, Messages <- 2, QueueCap <- 1,
                            ChanCap <- 1, closed <- uClosed
Reg == INSTANCE Hy2Udp WITH Registrars <- {r1}, Closers <- {}, Messages <- 1, QueueCap <- 1,
                            ChanCap <- 1, closed <- uClosed

\* Two hops with a datagram per socket, and one hop with batches of two.
HopOnce == INSTANCE UdpHop WITH Sockets <- 3, Arrivals <- 1, Errors <- 1, QueueCap <- 2, PoolCap <- 1, Batch <- 0,
         Buffers <- 8, Deadlines <- 0, closed <- hClosed, loop <- hLoop, queue <- hQueue, reader <- hReader,
         writer <- hWriter
HopBatch == INSTANCE UdpHop WITH Sockets <- 2, Arrivals <- 2, Errors <- 1, QueueCap <- 1, PoolCap <- 2, Batch <- 2,
         Buffers <- 8, Deadlines <- 0, closed <- hClosed, loop <- hLoop, queue <- hQueue, reader <- hReader,
         writer <- hWriter
\* Texts of up to three parts over the ports 0..4.
Union == INSTANCE PortUnion WITH MaxPort <- 4, MaxParts <- 3
\* Two dials at a time for TCP of any version or for UDP over IPv6, when the lookup answers
\* with one address of each version; one further cycle, one expiry.
Sticky == INSTANCE StickyIp WITH
  Dials <- {d1, d2}, Version <- (a4 :> "4" @@ b4 :> "4" @@ c6 :> "6"), Answers <- {<<a4, c6>>},
  Requests <- {[net |-> "tcp", ver |-> "any"], [net |-> "udp", ver |-> "6"]},
  Works <- {<<"tcp", a4>>, <<"tcp", c6>>, <<"udp", c6>>}, MaxCycle <- 1, Expiries <- 1, Budget <- 4, Reserve <- 2,
  open <- conns, None <- Nil
\* A port-hopping connection over three sockets at which nothing arrives.
Hop == INSTANCE UdpHop WITH Sockets <- 3, Arrivals <- 0, Errors <- 1, QueueCap <- 1, PoolCap <- 1, Batch <- 0,
         Buffers <- 8, Deadlines <- 0, closed <- hClosed, loop <- hLoop, queue <- hQueue, reader <- hReader,
         writer <- hWriter

\* The instances are among those the proofs are about.
ASSUME Instances == Setting /\ LiveUdp!Setting /\ Reg!Setting

udpVars == <<arrived, dead, done, once, mx, inMap, router, inRouter, queue, worker, inWorker, deliverMu,
             receiver, reg, inReg, chan, uClosed, dClosed, chClosed, reader, inReader, closing, writer,
             sendBuf, released, taken, calls>>
defragVars == <<sends, fed, d, out, releases>>
hopVars == <<cur, prev, hClosed, open, hopper, dialed, hLoop, slots, full, sent, late, hQueue, pool, hReader,
             hWriter, last, errors, deadlines>>
unionVars == <<spec, union>>
stickyVars == <<entry, cycle, checker, expiries, dial, conns>>
allVars == <<which, vars, udpVars, defragVars, hopVars, unionVars, stickyVars>>

\* A fixed request where the dialer does not run.
StickyInit == IF which = "sticky" THEN Sticky!Init
              ELSE Sticky!Init /\ dial = [x \in {d1, d2} |-> Sticky!Idle([net |-> "tcp", ver |-> "any"])]

SafetyInit ==
  /\ which \in {"client", "feed", "split", "hop", "hopBatch", "union", "sticky"}
  /\ Init /\ LiveUdp!Init /\ Union!Init /\ StickyInit
  /\ IF which = "hopBatch" THEN HopBatch!Init ELSE HopOnce!Init
  /\ IF which = "split" THEN Split!Init ELSE Feed!Init

SafetyNext ==
  \/ which = "client" /\ Next /\ UNCHANGED <<which, udpVars, defragVars, hopVars, unionVars, stickyVars>>
  \/ which = "feed" /\ Feed!Next /\ UNCHANGED <<which, vars, udpVars, hopVars, unionVars, stickyVars>>
  \/ which = "split" /\ Split!Next /\ UNCHANGED <<which, vars, udpVars, hopVars, unionVars, stickyVars>>
  \/ which = "hop" /\ HopOnce!Next /\ UNCHANGED <<which, vars, udpVars, defragVars, unionVars, stickyVars>>
  \/ which = "hopBatch" /\ HopBatch!Next /\ UNCHANGED <<which, vars, udpVars, defragVars, unionVars, stickyVars>>
  \/ which = "sticky" /\ Sticky!Next /\ UNCHANGED <<which, vars, udpVars, defragVars, hopVars, unionVars>>
  \/ which = "union" /\ Union!Next /\ UNCHANGED <<which, vars, udpVars, defragVars, hopVars, stickyVars>>

SafetySpec == SafetyInit /\ [][SafetyNext]_allVars

\* The dials are interchangeable.
Symmetry == Permutations({d1, d2})

\* The client alone.
DrainInit == which = "drain" /\ Init /\ LiveUdp!Init /\ Feed!Init /\ Hop!Init /\ Union!Init /\ StickyInit
DrainSpec == DrainInit /\ [][Next /\ UNCHANGED <<which, udpVars, defragVars, hopVars, unionVars, stickyVars>>]_allVars

LiveInit ==
  /\ which \in {"client", "udp", "reg", "hop"}
  /\ Init /\ Hop!Init /\ Feed!Init /\ Union!Init /\ StickyInit
  /\ IF which = "reg" THEN Reg!Init ELSE LiveUdp!Init

LiveNext ==
  \/ which = "client" /\ Next /\ UNCHANGED <<which, udpVars, hopVars, defragVars, unionVars, stickyVars>>
  \/ which = "udp" /\ LiveUdp!Next /\ UNCHANGED <<which, vars, hopVars, defragVars, unionVars, stickyVars>>
  \/ which = "reg" /\ Reg!Next /\ UNCHANGED <<which, vars, hopVars, defragVars, unionVars, stickyVars>>
  \/ which = "hop" /\ Hop!Next /\ UNCHANGED <<which, vars, udpVars, defragVars, unionVars, stickyVars>>

(* Hy2Client: calls and teardowns under way go on (a dial ends with its    *)
(* context), c.m goes to a starving waiter, and the receive loop of a dead *)
(* tunnel ends.  Nobody has to call, and sessions may stay open for ever.  *)
ClientFairness ==
  /\ \A c \in Callers : /\ SF_vars(which = "client" /\ Lock(c))
                        /\ WF_vars(which = "client" /\ CallStep(c))
                        /\ SF_vars(which = "client" /\ HandleClosed(c))
  /\ SF_vars(which = "client" /\ Close)
  /\ SF_vars(which = "client" /\ Finish)
  /\ \A k \in Conns : WF_vars(which = "client" /\ RouterEnds(k))

(* Hy2Udp: handlers and SendDatagram return; a goroutine that can move     *)
(* moves; a lock that is contended finitely often is granted.              *)
UdpFairness ==
  /\ WF_udpVars(which = "udp" /\ LiveUdp!RouterStep)
  /\ WF_udpVars(which = "udp" /\ LiveUdp!WorkerStep)
  /\ WF_udpVars(which = "udp" /\ LiveUdp!ReadStep)
  /\ WF_udpVars(which = "udp" /\ LiveUdp!WriteEnds)
  /\ \A g \in {k1, Owner, Router} : WF_udpVars(which = "udp" /\ LiveUdp!CloseStep(g))

RegFairness ==
  /\ WF_udpVars(which = "reg" /\ Reg!RouterStep)
  /\ WF_udpVars(which = "reg" /\ Reg!WorkerStep)
  /\ WF_udpVars(which = "reg" /\ Reg!ReadStep)
  /\ WF_udpVars(which = "reg" /\ Reg!WriteEnds)
  /\ WF_udpVars(which = "reg" /\ Reg!RegStep(r1))
  /\ \A g \in {Owner, Router} : WF_udpVars(which = "reg" /\ Reg!CloseStep(g))

(* UdpHop: goroutines run, reads of a closed or late socket return, dials  *)
(* and writes end.                                                         *)
HopFairness ==
  /\ \A s \in 1..3 : /\ WF_hopVars(which = "hop" /\ (Hop!Enqueue(s) \/ Hop!Check(s) \/ Hop!Backoff(s)))
                     /\ WF_hopVars(which = "hop" /\ Hop!ReadFails(s) /\ (s \notin open \/ s \in late))
  /\ WF_hopVars(which = "hop" /\ Hop!HopStep)
  /\ WF_hopVars(which = "hop" /\ Hop!WriteEnds)
  /\ WF_hopVars(which = "hop" /\ Hop!ReadStep)

LiveSpec == LiveInit /\ [][LiveNext]_allVars /\ ClientFairness /\ UdpFairness /\ RegFairness /\ HopFairness

-----------------------------------------------------------------------------
(* The properties of the other components, which explain them.             *)

\* FragUDPMessage cuts a payload into fragments that make it up, or into none.  What Feed
\* returns is a packet that was sent, the buffer of a fragment is released at most once, and
\* count and size of the Defragger agree with what it holds.
AssembledIsPacket ==
  IF which = "split"
  THEN /\ Split!TypeOK /\ Split!AssembledIsPacket /\ Split!BufferReleasedOnce /\ Split!CountersMatch
       /\ Split!SplitIsExact
  ELSE which = "feed" =>
         Feed!TypeOK /\ Feed!AssembledIsPacket /\ Feed!BufferReleasedOnce /\ Feed!CountersMatch

\* The open sockets are those of the connection and each of them is received from; a receive
\* buffer has one owner, and datagrams of a socket are delivered in order.
HopIsSound ==
  IF which = "hopBatch"
  THEN /\ HopBatch!TypeOK /\ HopBatch!SocketsAreOwned /\ HopBatch!BothSocketsReceive
       /\ HopBatch!BufferHasOneOwner /\ HopBatch!DeliveredInOrder
  ELSE which = "hop" =>
         /\ HopOnce!TypeOK /\ HopOnce!SocketsAreOwned /\ HopOnce!BothSocketsReceive
         /\ HopOnce!BufferHasOneOwner /\ HopOnce!DeliveredInOrder
\* A port union names each of its ports once, and the sticky dialer recognises them.
PortsAreExact == which = "union" => Union!PortsAreExact /\ Union!HopPortsAreProxyPorts
\* A cached address has the version and the protocol it is kept under, dials keep to the
\* version asked for and hold no connection but the one they return, and no address is tried
\* with an exhausted budget.
StickyDialsAreSound ==
  which = "sticky" =>
    Sticky!TypeOK /\ Sticky!CacheHoldsProven /\ Sticky!ConnsAreReturned /\ Sticky!EveryCandidateGetsTime
\* A dial that found an expired entry does not remove the fresh one that replaced it.
FreshEntryStays == Sticky!FreshEntryStays

\* A call of TCP or UDP returns, a closed client releases its tunnel once no session is
\* left, and the sessions of a dead tunnel end.
Hy2Settles == CallReturns /\ ClosedReleases /\ DeadSessionsEnd
\* Router and worker of a closed manager end and a reader of a closed session returns; a
\* closed port-hopping connection ends its goroutines and closes its sockets.
ClosedEnds == LiveUdp!ManagerEnds /\ LiveUdp!ReaderReturns /\ Hop!ClosedEnds
=============================================================================
