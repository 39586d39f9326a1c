------------------------------- MODULE MCRelay -------------------------------
(* A UDP session of Hysteria2 and the framing of streams on small          *)
(* instances.  Each behaviour is one of a single component, chosen by      *)
(* which; the variables of the others keep their initial values.           *)
EXTENDS Hy2Udp, TLC

CONSTANTS w1, w2, w3, t1, Free

VARIABLES
  which,
  proto, pos, phase, left, cap, frame, buf, greeted, headerErr, result, faults,
  outProto, mutex, onceWrite, pc, todo, wire, failed,
  filter, need, padding, direct, visionWriter, writes, blocksOut, halfClosed, blocks, block, missing, command,
  mode, input, raw, got

\* Five frames, the second without a datagram, read into buffers of up to three units: by
\* vless and vision with a read that fails, and by trojanc and juicity.
Reads == INSTANCE StreamReads WITH Protocols <- {"vless", "vlessServer", "vision"}, Frames <- <<2, 99, 0, 3, 1>>,
                                   NoData <- 99, Caps <- 0..3, Faults <- 1
FillReads == INSTANCE StreamReads WITH Protocols <- {"trojanc", "trojancServer", "juicity", "juicityServer"},
                                       Frames <- <<2, 0, 3, 1>>, NoData <- 99, Caps <- 0..3, Faults <- 0
\* trojanc and juicity when a read fails.
FaultyReads == INSTANCE StreamReads WITH Protocols <- {"trojanc", "juicity"}, Frames <- <<2, 0, 3, 1>>,
                                         NoData <- 99, Caps <- 0..3, Faults <- 1

\* Three writers and a timer; a write may fail.
Writes == INSTANCE StreamWrites WITH Protocols <- {"vless", "trojanc", "juicity", "vision"},
                                     Writers <- {w1, w2, w3}, Flushers <- {t1}, Faults <- 1, faults <- failed, proto <- outProto

Block(cmd, content, pad) == [cmd |-> cmd, content |-> content, padding |-> pad]
\* A server that goes to direct mode after a TLS 1.3 handshake, and one that ends padding.
Vision == INSTANCE Vision WITH
  Filter <- 6, MaxWrites <- 3, HelloLen <- 3, CipherLen <- 2, Plain <- 1, Input <- 2, RawInput <- 2, Under <- 1,
  Caps <- {1, 3},
  Streams <- {<<Block("continue", <<"serverHello", "other", "versions">>, 1), Block("direct", <<"other">>, 1)>>,
              <<Block("continue", <<"other">>, 0), Block("end", <<>>, 1)>>},
  writer <- visionWriter, wire <- blocksOut, left <- missing

\* The instance of Hy2Udp is among those its proofs are about.
ASSUME Instances == Setting

streamVars == <<proto, pos, phase, left, cap, frame, buf, greeted, headerErr, result, faults>>
frameVars == <<outProto, mutex, onceWrite, pc, todo, wire, failed>>
visionVars == <<filter, need, padding, direct, visionWriter, writes, blocksOut, halfClosed, blocks, block, missing,
                command, mode, input, raw, got>>
allVars == <<which, vars, streamVars, frameVars, visionVars>>

\* A fixed initial value for the components that a behaviour does not run.
ReadInit == IF which = "reads" THEN Reads!Init
            ELSE IF which = "fillReads" THEN FillReads!Init
            ELSE IF which = "faultyReads" THEN FaultyReads!Init
            ELSE Reads!Init /\ cap = 0 /\ proto = "vless"
WriteInit == IF which = "writes" THEN Writes!Init ELSE Writes!Init /\ outProto = "vless"
VisionInit == IF which = "vision" THEN Vision!Init ELSE Vision!Init /\ Len(blocks[1].content) = 3

Inits == Init /\ ReadInit /\ WriteInit /\ VisionInit
RelayInit == which \in {"udp", "reads", "fillReads", "writes", "vision"} /\ Inits

RelayNext ==
  \/ which = "udp" /\ Next /\ UNCHANGED <<which, streamVars, frameVars, visionVars>>
  \/ which = "reads" /\ Reads!Next /\ UNCHANGED <<which, vars, frameVars, visionVars>>
  \/ which = "fillReads" /\ FillReads!Next /\ UNCHANGED <<which, vars, frameVars, visionVars>>
  \/ which = "writes" /\ Writes!Next /\ UNCHANGED <<which, vars, streamVars, visionVars>>
  \/ which = "vision" /\ Vision!Next /\ UNCHANGED <<which, vars, streamVars, frameVars>>

RelaySpec == RelayInit /\ [][RelayNext]_allVars

FaultySpec ==
  /\ which = "faultyReads" /\ Inits
  /\ [][FaultyReads!Next /\ UNCHANGED <<which, vars, frameVars, visionVars>>]_allVars

\* The registrations are interchangeable.
Symmetry == Permutations(Registrars)

-----------------------------------------------------------------------------
(* The properties of the components, which explain them.                   *)

\* After a datagram was returned or dropped the stream is at the start of a frame, and
\* what was returned is the payload of one.
StreamStaysAligned ==
  IF which = "fillReads" THEN FillReads!TypeOK /\ FillReads!NextCallIsAligned /\ FillReads!DatagramIsFrame /\ FillReads!NoFrameInHeader
  ELSE which = "reads" => Reads!TypeOK /\ Reads!NextCallIsAligned /\ Reads!DatagramIsFrame /\ Reads!NoFrameInHeader
\* The same of trojanc and juicity when a read fails.
DroppedStaysAligned == FaultyReads!NextCallIsAligned
\* The request header goes first and once, and frames are not torn.
WireIsFramed == which = "writes" => Writes!TypeOK /\ Writes!WireIsFramed /\ Writes!HeaderBeforeData
\* The peer of a Vision connection can decode what was written, direct mode starts between
\* records, and what was read is delivered in order.
VisionIsDecodable ==
  which = "vision" =>
    Vision!TypeOK /\ Vision!WireIsDecodable /\ Vision!DirectAtRecordBoundary /\ Vision!ReadInOrder
=============================================================================
