------------------------------ MODULE MCTransports --------------------------
(* The receive queue of a TUIC association, the transports and the         *)
(* congestion controllers on small instances.  Each behaviour is one of a  *)
(* single component, chosen by which; all but the receive queue share the  *)
(* variables x1, x2, ..., so that a state is no larger than the largest of *)
(* them.                                                                   *)
EXTENDS TuicPackets, TLC

CONSTANT Unset

\* The variables of the component a behaviour runs; the rest are 0.
VARIABLES which, x1, x2, x3, x4, x5, x6, x7, x8, x9, x10, x11, x12, x13, x14, x15, x16, x17, x18, x19, x20, x21, x22,
          x23, x24

Queue == INSTANCE PacketQueue WITH
  MaxPacket <- 8, InitialSlots <- 1, MaxSlots <- 4, ShrinkDenominator <- 2, Invalid <- 0,
  queue <- x1, lastSent <- x2

Sampler == INSTANCE BbrSampler WITH
  MaxPacket <- 4, Sizes <- {1}, MaxTime <- 2, MaxRound <- 1, Window <- 2, Trim <- TRUE, Reordering <- 3,
  Infinite <- 99,
  b <- x1, recs <- x2, best <- x3, flight <- x4, acked <- x5, now <- x6, round <- x7

\* The filter of the sampler on its own: its estimates, and the samples it was updated with.
Filter == INSTANCE BbrSampler WITH
  MaxPacket <- 0, Sizes <- {}, MaxTime <- 0, MaxRound <- 0, Window <- 4, Trim <- TRUE, Reordering <- 3,
  Infinite <- 99,
  b <- 0, recs <- 0, best <- x1, flight <- 0, acked <- 0, now <- 0, round <- 0
FilterInit == x1 = Filter!Clear /\ x2 = <<>>
FilterNext ==
  \E s \in {1, 2, 3}, gap \in {0, 1, 3} :
    LET t == gap + IF x2 = <<>> THEN 0 ELSE x2[Len(x2)].time
    IN  Len(x2) < 5 /\ x1' = Filter!Update(x1, s, t) /\ x2' = Append(x2, Filter!Entry(s, t))

Bbr == INSTANCE BbrSender WITH
  Cruise <- 1, Outstanding <- 2, Bandwidths <- {1, 2}, Rtts <- {1}, MinCwnd <- 1, InitialCwnd <- 1, MaxCwnd <- 2,
  RttExpiry <- 1, ProbeRttTime <- 1, StartupRtts <- 1, FullLossCount <- 1, ProbeRttSlack <- 1, RecoveryBound <- 4,
  c <- x1, flight <- x2

Bbr3 == INSTANCE Bbr3Sender WITH
  Outstanding <- 2, Estimates <- {2, 4}, Rtts <- {1}, Datagrams <- {1}, MinPackets <- 2, InitialPackets <- 3,
  MaxPackets <- 4, Hint <- 4, Strict <- FALSE, MinRate <- 1, FullRounds <- 1, UpRounds <- 1, RttExpiry <- 1,
  ProbeRttTime <- 1, HiBound <- 6,
  m <- x1, flight <- x2

Bbr3Mtu == INSTANCE Bbr3Sender WITH
  Outstanding <- 1, Estimates <- {2, 4}, Rtts <- {1}, Datagrams <- {1, 2}, MinPackets <- 2, InitialPackets <- 3,
  MaxPackets <- 4, Hint <- 4, Strict <- FALSE, MinRate <- 1, FullRounds <- 1, UpRounds <- 1, RttExpiry <- 1,
  ProbeRttTime <- 1, HiBound <- 6,
  m <- x1, flight <- x2

Gate == INSTANCE HintGate WITH
  Hint <- 4, Estimates <- {1, 2}, Deliveries <- {0, 3, 4, 8}, Windows <- {1, 2}, Cooldown <- 2, BytesBound <- 8,
  g <- x1, rate <- x2

Pace == INSTANCE Pacing WITH
  Bandwidths <- {1, 3, 7}, Datagram <- 4, BurstPackets <- 2, Second <- 5, MinDelay <- 2, Millisecond <- 1,
  Width <- 8, MaxIdle <- 27, SlotCount <- 2, MinSamples <- 2, MaxSecond <- 3, MaxCount <- 2, Start <- 5,
  part <- x1, budget <- x2, idle <- x3, bw <- x4, slots <- x5, ackRate <- x6, events <- x7, now <- x8

Seal == INSTANCE AeadWrites WITH
  Protocols <- {"ss", "ss2022", "ssStream", "vmess", "vmessUdp"}, Sizes <- {0, 1, 2, 4}, MaxChunk <- 2,
  MaxPacket <- 2, MaxWrites <- 3,
  proto <- x1, out <- x2, wire <- x3, accepted <- x4, writes <- x5

Unseal == INSTANCE AeadReads WITH
  Protocols <- {"ss", "ss2022", "vmess", "vmessUdp"}, Replies <- <<2, 3, 1>>, Caps <- {1, 2, 3}, Faults <- 2,
  proto <- x1, in <- x2, pos <- x3, torn <- x4, stage <- x5, cap <- x6, got <- x7, result <- x8, faults <- x9

Replay == INSTANCE ReplayWindow WITH
  Sessions <- {"a", "b"}, Readers <- {"r"},
  Stamp <- (<<"a", 1>> :> 1 @@ <<"a", 2>> :> 3 @@ <<"a", 3>> :> 1 @@ <<"b", 1>> :> 4), Window <- 2,
  Tolerance <- 1, Retention <- 2, MaxTracked <- 1, Interval <- 2, MaxSweeps <- 1, MaxTime <- 6, None <- Unset,
  now <- x1, table <- x2, gen <- x3, count <- x4, misses <- x5, sweeps <- x6, reader <- x7, delivered <- x8,
  rejected <- x9

Reader == INSTANCE PooledReader WITH
  Kinds <- {"plain", "header", "sniff"}, Size <- 2, Caps <- {1, 2}, Headers <- {{2, 3}, {3, 4}, {1}},
  MaxHeader <- 4, Body <- 3, Faults <- 2,
  kind <- x1, newlines <- x2, data <- x3, r <- x4, err <- x5, last <- x6, held <- x7, next <- x8, net <- x9,
  readers <- x10, released <- x11, termErr <- x12, headerRead <- x13, readErr <- x14, total <- x15, pc <- x16,
  want <- x17, result <- x18, closer <- x19, got <- x20, puts <- x21, faults <- x22, retried <- x23

Tls == INSTANCE Coalesce WITH
  Records <- 5, Burst <- 3, HardLimit <- 2, Failures <- 1,
  buf <- x1, sock <- x2, fin <- x3, closed <- x4, written <- x5, burst <- x6, wpc <- x7, rpc <- x8, phase <- x9,
  expired <- x10, fails <- x11, lost <- x12, told <- x13

Http == INSTANCE HttpConn WITH
  Modes <- {"http", "http1", "h2"}, MaxWrites <- 3, MaxPending <- 1, MaxDeadlines <- 2,
  mode <- x1, life <- x2, published <- x3, finished <- x4, ctx <- x5, closeCtx <- x6, pending <- x7, wpc <- x8,
  unit <- x9, payload <- x10, applied <- x11, conn <- x12, closes <- x13, owner <- x14, dl <- x15, queued <- x16,
  lastSet <- x17, watch <- x18, cpc <- x19, tunnel <- x20, accepted <- x21, writes <- x22, sets <- x23

Pool == INSTANCE H2Pool WITH
  Pools <- {"http", "naive"}, Keys <- {"k1", "k2"}, Getters <- {"g1", "g2"}, Conns <- {"c1", "c2"},
  Lists <- {1, 2},
  kind <- x1, pool <- x2, elems <- x3, refs <- x4, ident <- x5, bindings <- x6, get <- x7, mark <- x8, raw <- x9

Naive == INSTANCE NaiveConn WITH
  Callers <- {"r", "w1", "w2"}, Rounds <- 2,
  started <- x1, done <- x2, failed <- x3, stream <- x4, closed <- x5, saved <- x6, pc <- x7, calls <- x8,
  attempt <- x9, owner <- x10, request <- x11, body <- x12, watch <- x13, budget <- x14, closeCtx <- x15,
  cpc <- x16, sent <- x17, told <- x18

Grpc == INSTANCE GrpcConn WITH
  Hunks <- <<2, 1>>, Caps <- {1, 2}, Writers <- {"w1", "w2"}, ConnOf <- [w \in {"w1", "w2"} |-> 1],
  MaxWrites <- 2, Requests <- {"q1", "q2"}, MaxTimers <- 1,
  side <- x1, closed <- x2, streamDone <- x3, slot <- x4, timers <- x5, ctx <- x6, expired <- x7, lastSet <- x8,
  arrived <- x9, pump <- x10, recvCh <- x11, buf <- x12, recvErr <- x13, got <- x14, rpc <- x15, wpc <- x16,
  free <- x17, done <- x18, sendCh <- x19, sender <- x20, sent <- x21, told <- x22, writes <- x23, lock <- x24

Meek == INSTANCE MeekSession WITH
  MaxWriteSize <- 2, MaxFailedPolls <- 2, QueueSize <- 1, InitialWait <- 3, MinWait <- 1, MaxWait <- 4,
  Sizes <- {1, 3}, MaxBytes <- 4, MaxReplies <- 2,
  ctx <- x1, wait <- x2, pc <- x3, first <- x4, sendBuffer <- x5, data <- x6, failedPolls <- x7,
  pollConnection <- x8, readerChan <- x9, readBuffer <- x10, accepted <- x11, server <- x12, replies <- x13,
  read <- x14, pending <- x15

Epoll == INSTANCE PacketReceiver WITH
  MaxSockets <- 2, MaxEntries <- 2, MaxDatagrams <- 1, BatchSize <- 1, MaxFailures <- 1, Errors <- {},
  Kinds <- {"copy"},
  conn <- x1, open <- x2, sock <- x3, arrived <- x4, receiverStop <- x5, closing <- x6, ent <- x7, entry <- x8,
  next <- x9, loop <- x10, cur <- x11, pending <- x12, failures <- x13, fetched <- x14, released <- x15,
  owned <- x16

EpollOne == INSTANCE PacketReceiver WITH
  MaxSockets <- 1, MaxEntries <- 2, MaxDatagrams <- 2, BatchSize <- 1, MaxFailures <- 0, Errors <- {2},
  Kinds <- {"copy"},
  conn <- x1, open <- x2, sock <- x3, arrived <- x4, receiverStop <- x5, closing <- x6, ent <- x7, entry <- x8,
  next <- x9, loop <- x10, cur <- x11, pending <- x12, failures <- x13, fetched <- x14, released <- x15,
  owned <- x16

Batch == INSTANCE PacketBatch WITH
  Writers <- {"w1", "w2"}, Conns <- {"ss", "transport", "socks", "direct"},
  Batches <- {<<"a">>, <<"a", "b">>, <<"b", "bad">>}, BadAddr <- "bad", CacheSize <- 1, MaxCalls <- 2,
  Buffers <- 1..6,
  kind <- x1, batched <- x2, cache <- x3, free <- x4, mem <- x5, w <- x6, wire <- x7, calls <- x8, results <- x9

Dialed == INSTANCE Dialing WITH
  Kinds <- {"socks5tcp", "socks5udp", "sstcp", "ssudp", "ss2022", "stream", "tls", "shadowtls", "httpupgrade",
  "trojan", "vmess", "vless"},
  kind <- x1, i <- x2, conn <- x3, relay <- x4, closes <- x5, budget <- x6, deadline <- x7, result <- x8,
  watcher <- x9, user <- x10, once <- x11, canceled <- x12, done <- x13

Reality == INSTANCE RealityDial WITH
  Dials <- {"d1", "d2"}, Attempts <- 2, Hrefs <- {"/", "a", "b", "c.d"},
  Size <- ("/" :> 1 @@ "a" :> 1 @@ "b" :> 3 @@ "c.d" :> 1), Dotted <- {"c.d"}, SpiderX <- "/",
  Bodies <- {<<"a">>, <<"a", "b">>, <<"b", "c.d">>}, MaxPaths <- 3, MaxBytes <- 5, MaxRequests <- 2,
  server <- x1, pqHybrid <- x2, backoff <- x3, pc <- x4, hybrid <- x5, retryHybrid <- x6, builds <- x7,
  open <- x8, lost <- x9, skipped <- x10, paths <- x11, bytes <- x12, requests <- x13

Framed == INSTANCE FramedStreams WITH
  Kinds <- {"obfs", "mux"}, Lengths <- <<3, 0, -1, 2>>, Caps <- {1, 2}, Chunks <- 2, Faults <- 2,
  kind <- x1, stream <- x2, pos <- x3, remain <- x4, firstResponse <- x5, at <- x6, cap <- x7, want <- x8,
  got <- x9, tail <- x10, out <- x11, empty <- x12, faults <- x13, lastErr <- x14, otb <- x15, sent <- x16,
  todo <- x17, reported <- x18, torn <- x19, closing <- x20, closed <- x21

Timer == INSTANCE Deadlines WITH
  Kinds <- {"session", "read"}, MaxTime <- 3, MaxTimers <- 3, MaxReads <- 2, MaxSets <- 3,
  kind <- x1, now <- x2, deadline <- x3, version <- x4, sets <- x5, timer <- x6, timers <- x7, gen <- x8,
  active <- x9, cause <- x10, closed <- x11, early <- x12

GrpcPooled == INSTANCE GrpcConn WITH
  Hunks <- <<1>>, Caps <- {1}, Writers <- {"w1", "w2"}, ConnOf <- ("w1" :> 1 @@ "w2" :> 2), MaxWrites <- 2,
  Requests <- {"q1", "q2"}, MaxTimers <- 1,
  side <- x1, closed <- x2, streamDone <- x3, slot <- x4, timers <- x5, ctx <- x6, expired <- x7, lastSet <- x8,
  arrived <- x9, pump <- x10, recvCh <- x11, buf <- x12, recvErr <- x13, got <- x14, rpc <- x15, wpc <- x16,
  free <- x17, done <- x18, sendCh <- x19, sender <- x20, sent <- x21, told <- x22, writes <- x23, lock <- x24

\* The instances are among those the proofs are about.
ASSUME Instances == Setting /\ Timer!Setting /\ Replay!Setting

xVars == <<x1, x2, x3, x4, x5, x6, x7, x8, x9, x10, x11, x12, x13, x14, x15, x16, x17, x18, x19, x20, x21, x22,
           x23, x24>>
allVars == <<which, xVars, vars>>

\* What a component with k variables leaves alone.
Rest23 == <<x24>>
Rest21 == <<x22, x23, Rest23>>
Rest18 == <<x19, x20, x21, Rest21>>
Rest16 == <<x17, x18, Rest18>>
Rest15 == <<x16, Rest16>>
Rest13 == <<x14, x15, Rest15>>
Rest12 == <<x13, Rest13>>
Rest9 == <<x10, x11, x12, Rest12>>
Rest8 == <<x9, Rest9>>
Rest7 == <<x8, Rest8>>
Rest5 == <<x6, x7, Rest7>>
Rest2 == <<x3, x4, x5, Rest5>>

Unused23 == x24 = 0
Unused21 == x22 = 0 /\ x23 = 0 /\ Unused23
Unused18 == x19 = 0 /\ x20 = 0 /\ x21 = 0 /\ Unused21
Unused16 == x17 = 0 /\ x18 = 0 /\ Unused18
Unused15 == x16 = 0 /\ Unused16
Unused13 == x14 = 0 /\ x15 = 0 /\ Unused15
Unused12 == x13 = 0 /\ Unused13
Unused9 == x10 = 0 /\ x11 = 0 /\ x12 = 0 /\ Unused12
Unused8 == x9 = 0 /\ Unused9
Unused7 == x8 = 0 /\ Unused8
Unused5 == x6 = 0 /\ x7 = 0 /\ Unused7
Unused2 == x3 = 0 /\ x4 = 0 /\ x5 = 0 /\ Unused5

OtherInit ==
  \/ which = "queue" /\ Queue!Init /\ Unused2
  \/ which = "filter" /\ FilterInit /\ Unused2
  \/ which = "sampler" /\ Sampler!Init /\ Unused7
  \/ which = "bbr" /\ Bbr!Init /\ Unused2
  \/ which = "bbr3" /\ Bbr3!Init /\ Unused2
  \/ which = "bbr3Mtu" /\ Bbr3Mtu!Init /\ Unused2
  \/ which = "gate" /\ Gate!Init /\ Unused2
  \/ which = "pacing" /\ Pace!Init /\ Unused8
  \/ which = "aeadWrites" /\ Seal!Init /\ Unused5
  \/ which = "aeadReads" /\ Unseal!Init /\ Unused9
  \/ which = "replay" /\ Replay!Init /\ Unused9
  \/ which = "reader" /\ Reader!Init /\ Unused23
  \/ which = "coalesce" /\ Tls!Init /\ Unused13
  \/ which = "http" /\ Http!Init /\ Unused23
  \/ which = "pool" /\ Pool!Init /\ Unused9
  \/ which = "naive" /\ Naive!Init /\ Unused18
  \/ which = "grpc" /\ Grpc!Init
  \/ which = "meek" /\ Meek!Init /\ Unused15
  \/ which = "epoll" /\ Epoll!Init /\ Unused16
  \/ which = "epollOne" /\ EpollOne!Init /\ Unused16
  \/ which = "batch" /\ Batch!Init /\ Unused9
  \/ which = "dialing" /\ Dialed!Init /\ Unused13
  \/ which = "reality" /\ Reality!Init /\ Unused13
  \/ which = "framed" /\ Framed!Init /\ Unused21
  \/ which = "deadlines" /\ Timer!Init /\ Unused12

OtherNext ==
  \/ which = "queue" /\ Queue!Next /\ UNCHANGED <<which, Rest2>>
  \/ which = "filter" /\ FilterNext /\ UNCHANGED <<which, Rest2>>
  \/ which = "sampler" /\ Sampler!Next /\ UNCHANGED <<which, Rest7>>
  \/ which = "bbr" /\ Bbr!Next /\ UNCHANGED <<which, Rest2>>
  \/ which = "bbr3" /\ Bbr3!Next /\ UNCHANGED <<which, Rest2>>
  \/ which = "bbr3Mtu" /\ Bbr3Mtu!Next /\ UNCHANGED <<which, Rest2>>
  \/ which = "gate" /\ Gate!Next /\ UNCHANGED <<which, Rest2>>
  \/ which = "pacing" /\ Pace!Next /\ UNCHANGED <<which, Rest8>>
  \/ which = "aeadWrites" /\ Seal!Next /\ UNCHANGED <<which, Rest5>>
  \/ which = "aeadReads" /\ Unseal!Next /\ UNCHANGED <<which, Rest9>>
  \/ which = "replay" /\ Replay!Next /\ UNCHANGED <<which, Rest9>>
  \/ which = "reader" /\ Reader!Next /\ UNCHANGED <<which, Rest23>>
  \/ which = "coalesce" /\ Tls!Next /\ UNCHANGED <<which, Rest13>>
  \/ which = "http" /\ Http!Next /\ UNCHANGED <<which, Rest23>>
  \/ which = "pool" /\ Pool!Next /\ UNCHANGED <<which, Rest9>>
  \/ which = "naive" /\ Naive!Next /\ UNCHANGED <<which, Rest18>>
  \/ which = "grpc" /\ Grpc!Next /\ UNCHANGED which
  \/ which = "meek" /\ Meek!Next /\ UNCHANGED <<which, Rest15>>
  \/ which = "epoll" /\ Epoll!Next /\ UNCHANGED <<which, Rest16>>
  \/ which = "epollOne" /\ EpollOne!Next /\ UNCHANGED <<which, Rest16>>
  \/ which = "batch" /\ Batch!Next /\ UNCHANGED <<which, Rest9>>
  \/ which = "dialing" /\ Dialed!Next /\ UNCHANGED <<which, Rest13>>
  \/ which = "reality" /\ Reality!Next /\ UNCHANGED <<which, Rest13>>
  \/ which = "framed" /\ Framed!Next /\ UNCHANGED <<which, Rest21>>
  \/ which = "deadlines" /\ Timer!Next /\ UNCHANGED <<which, Rest12>>

SafetyInit ==
  /\ Init
  /\ \/ which = "packets" /\ x1 = 0 /\ x2 = 0 /\ Unused2
     \/ OtherInit

SafetyNext ==
  \/ which = "packets" /\ Next /\ UNCHANGED <<which, xVars>>
  \/ OtherNext /\ UNCHANGED vars

SafetySpec == SafetyInit /\ [][SafetyNext]_allVars

\* Pushers, registrations and readers of the receive queue are interchangeable.
Symmetry == Permutations(Pushers) \cup Permutations(Registrars) \cup Permutations(Readers)

\* The writers of two gRPC connections, which share the pool of requests.
PooledSpec ==
  which = "grpcPooled" /\ Init /\ GrpcPooled!Init /\ [][GrpcPooled!Next /\ UNCHANGED <<which, vars>>]_allVars

-----------------------------------------------------------------------------
(* The properties of the other components, which explain them.             *)

Holds(name, P) == which = name => P



\* The queue refines a map from packet numbers to records and follows its size, STARTUP and the
\* gain cycle go forward only, and a revoked hint stays revoked while its cooldown lasts.
CongestionStepsAreLegal ==
  [][/\ Holds("queue", Queue!MapStep /\ Queue!CapacityStep)
     /\ Holds("bbr", Bbr!OrderedStep)
     /\ Holds("gate", Gate!CooldownStep)]_allVars



\* Whoever dials, fails or closes when, a dialled connection is handed over or closed once: in
\* the dialers, the SOCKS5 association, REALITY's second attempt, and the connections that their
\* first Write dials; a published one is live, and the pools know every list in use.
LazyConnsAreOwned ==
  /\ Holds("http", Http!ClosedOnce /\ Http!OpenIsHeld /\ Http!DeadlineIsLastSet /\ Http!TunnelInOrder)
  /\ Holds("dialing", Dialed!DialOwnsItsConns /\ Dialed!SilentPeerIsBounded /\ Dialed!AssociationEndsWhole)
  /\ Holds("reality", Reality!OneUnderlay /\ Reality!ShapeIsFound /\ Reality!HarvestIsBounded)
  /\ Holds("naive", Naive!PublishedIsLive /\ Naive!NothingLeftOpen /\ Naive!OwnerAnswers)
  /\ Holds("pool", Pool!UsedListIsNamed /\ Pool!BindingFollowsList /\ Pool!DeadLeaves)


\* A Write reports the result of its own Send, with the request pool shared by the connections.
WriteGetsItsOwnResult == GrpcPooled!OwnSend
=============================================================================
