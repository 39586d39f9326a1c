----------------------------- MODULE AeadWrites -----------------------------
(***************************************************************************)
(* The sending half of the encrypted streams: shadowsocks.TCPConn,         *)
(* shadowsocks_2022.TCPConn, shadowsocks_stream.TcpConn (whose cipher has  *)
(* a position in a key stream for a nonce) and vmess.Conn for streams and  *)
(* for datagrams.  A Write seals its payload in chunks whose nonces (and,  *)
(* for vmess, whose masks) count up, and hands them to the connection,     *)
(* which may fail in the middle.  Writes hold writeMutex, so each is one   *)
(* step.                                                                   *)
(*                                                                         *)
(* A unit of the wire is what one Seal produced, a salt or a torn end.     *)
(* Payload bytes are numbered in the order they are offered; 0 stands for  *)
(* the target address at the head of a shadowsocks stream.                 *)
(***************************************************************************)
EXTENDS Integers, Sequences, SequencesExt

CONSTANTS Protocols,  \* of "ss", "ss2022", "ssStream", "vmess" and "vmessUdp"
          Sizes,      \* payload lengths of a Write
          MaxChunk,   \* TCPChunkMaxLen, or the payload of a vmess chunk
          MaxPacket,  \* the longest datagram whose chunk length fits 16 bits
          MaxWrites   \* bound on the calls

VARIABLES
  proto,
  out,       \* the sender: once, broken, closed, nonce, draw (masks drawn), next (byte), failed
  wire,      \* units handed to the connection
  accepted,  \* payloads of the calls that reported success
  writes

vars == <<proto, out, wire, accepted, writes>>

Vmess == proto \in {"vmess", "vmessUdp"}

TypeOK ==
  /\ proto \in Protocols /\ writes \in 0..MaxWrites
  /\ {out.once, out.broken, out.closed, out.failed} \subseteq BOOLEAN /\ {out.nonce, out.draw, out.next} \subseteq Nat
  /\ \A i \in 1..Len(wire) : wire[i].kind \in {"salt", "fixed", "var", "length", "body", "chunk", "torn"}

\* NewConn of vmess writes the request header before anything else can be written.
Init ==
  /\ proto \in Protocols /\ wire = <<>> /\ accepted = <<>> /\ writes = 0
  /\ out = [once |-> FALSE, broken |-> FALSE, closed |-> FALSE, failed |-> FALSE, nonce |-> 0, draw |-> 0, next |-> 1]

Unit(kind, nonce, data) == [kind |-> kind, nonce |-> nonce, draw |-> 0, data |-> data]
Salt == Unit("salt", 0, <<>>)

Pieces(d) ==
  [i \in 1..((Len(d) + MaxChunk - 1) \div MaxChunk) |-> SubSeq(d, (i - 1) * MaxChunk + 1, Min({i * MaxChunk, Len(d)}))]

\* A sealed length and a sealed body per piece, each with a nonce of its own.
Seal(n, d) ==
  [j \in 1..(2 * Len(Pieces(d))) |->
     IF j % 2 = 1 THEN Unit("length", n + j - 1, <<>>) ELSE Unit("body", n + j - 1, Pieces(d)[j \div 2])]

\* shadowsocks: the address is the head of the first payload, chunked with it.
InitWriteFromPool(d) == <<Salt>> \o Seal(out.nonce, <<0>> \o d)
SsFrame(d) == IF out.once THEN Seal(out.nonce, d) ELSE InitWriteFromPool(d)

\* shadowsocks 2022: a fixed header, a variable one with the address and as much payload as
\* fits a chunk with it, then the rest.
Ss2022Frame(d) ==
  LET k == Min({Len(d), MaxChunk - 1}) IN
  IF out.once THEN Seal(out.nonce, d)
  ELSE <<Salt, Unit("fixed", out.nonce, <<>>), Unit("var", out.nonce + 1, <<0>> \o SubSeq(d, 1, k))>>
         \o Seal(out.nonce + 2, SubSeq(d, k + 1, Len(d)))

\* shadowsocks stream: the initialisation vector, then the encrypted payload.
SsStreamFrame(d) == (IF out.once THEN <<>> ELSE <<Salt>>) \o <<Unit("body", out.nonce, d)>>

\* vmess: each chunk draws a padding length, a mask for its size and a nonce.
SealFromPool(i, d) == [kind |-> "chunk", nonce |-> out.nonce + i, draw |-> out.draw + 2 * i, data |-> d]
VmessChunks(ds) == [i \in 1..Len(ds) |-> SealFromPool(i - 1, ds[i])]

Bytes(size) == [i \in 1..size |-> out.next + i - 1]
Sealed(units) == Len(SelectSeq(units, LAMBDA u : u.kind # "salt"))
Payload(units) == FlattenSeq([i \in 1..Len(units) |-> units[i].data])

CanWrite == ~out.broken /\ ~out.closed /\ writes < MaxWrites /\ writes' = writes + 1 /\ UNCHANGED proto

\* All units are written.
Sent(units, datas, size) ==
  /\ wire' = wire \o units /\ accepted' = accepted \o datas
  /\ out' = [out EXCEPT !.once = TRUE, !.nonce = @ + Sealed(units), !.draw = @ + (IF Vmess THEN 2 * Len(units) ELSE 0),
                        !.next = @ + size]

Torn(units) ==
  \E j \in 0..(Len(units) - 1) :
    LET sealed == IF proto = "vmess" THEN j + 1 ELSE Sealed(units)
        told == IF proto = "vmess" THEN Payload(SubSeq(units, 1, j)) ELSE <<>> IN
    /\ wire' = wire \o SubSeq(units, 1, j) \o <<Unit("torn", 0, <<>>)>>
    /\ accepted' = IF told = <<>> THEN accepted ELSE Append(accepted, told)
    /\ out' = [out EXCEPT !.broken = ~Vmess, !.failed = TRUE, !.nonce = @ + sealed,
                          !.draw = @ + (IF Vmess THEN 2 * sealed ELSE 0), !.next = @ + Len(told)]

Push(units, datas, size) == Sent(units, datas, size) \/ Torn(units)

\* Write of the shadowsocks protocols; the timer of shadowsocks.NewTCPConn writes nothing,
\* which sends the header when it is the first.
SsWrite(size) == proto = "ss" /\ CanWrite /\ Push(SsFrame(Bytes(size)), <<Bytes(size)>>, size)
Ss2022Write(size) == proto = "ss2022" /\ CanWrite /\ Push(Ss2022Frame(Bytes(size)), <<Bytes(size)>>, size)
SsStreamWrite(size) == proto = "ssStream" /\ CanWrite /\ Push(SsStreamFrame(Bytes(size)), <<Bytes(size)>>, size)

WriteStream(size) ==
  /\ proto = "vmess" /\ size > 0 /\ CanWrite
  /\ Push(VmessChunks(Pieces(Bytes(size))), <<Bytes(size)>>, size)

\* A datagram is one chunk; one that is too long is refused before anything is drawn.
Refuse == UNCHANGED <<out, wire, accepted>>
WritePacket(size) ==
  /\ proto = "vmessUdp" /\ size > 0 /\ CanWrite
  /\ IF size > MaxPacket THEN Refuse ELSE Push(VmessChunks(<<Bytes(size)>>), <<Bytes(size)>>, size)

\* WriteBatch: all lengths are checked first, and one write carries every chunk.
WritePackets(first, second) ==
  LET datas == <<Bytes(first), [i \in 1..second |-> out.next + first + i - 1]>> IN
  /\ proto = "vmessUdp" /\ CanWrite
  /\ IF first > MaxPacket \/ second > MaxPacket THEN Refuse
     ELSE Push(VmessChunks(datas), datas, first + second)

\* An empty chunk ends the stream: CloseWrite of a vmess stream, and WriteTo of an empty
\* datagram.
CloseWrite ==
  /\ Vmess /\ CanWrite
  /\ \E sent \in BOOLEAN :
       wire' = Append(wire, IF sent THEN SealFromPool(0, <<>>) ELSE Unit("torn", 0, <<>>)) /\
       out' = [out EXCEPT !.closed = TRUE, !.failed = @ \/ ~sent, !.nonce = @ + 1, !.draw = @ + 2]
  /\ UNCHANGED accepted

Next ==
  \/ \E size \in Sizes : SsWrite(size) \/ Ss2022Write(size) \/ SsStreamWrite(size) \/ WriteStream(size) \/ WritePacket(size)
  \/ \E a, b \in Sizes : WritePackets(a, b)
  \/ CloseWrite

Spec == Init /\ [][Next]_vars

-----------------------------------------------------------------------------
(* Properties.                                                             *)

SealedUnits == SelectSeq(wire, LAMBDA u : u.kind \notin {"salt", "torn"})

\* The peer, which counts on its own, can open every unit it gets: nonces and masks on the
\* wire count up from 0 without a gap, the salt comes first, and nothing follows a torn
\* unit.  vmess gives this up once a write has failed.
PeerStaysInStep ==
  ~(Vmess /\ out.failed) =>
    /\ \A i \in 1..Len(SealedUnits) : SealedUnits[i].nonce = i - 1 /\ (Vmess => SealedUnits[i].draw = 2 * (i - 1))
    /\ \A i \in 1..Len(wire) : /\ wire[i].kind = "salt" <=> i = 1 /\ ~Vmess /\ wire[1].kind # "torn"
                               /\ wire[i].kind = "torn" => i = Len(wire)

\* What the peer reads is the address once and first, where the stream has one, and then
\* everything a call reported as written, in order; a datagram is a chunk of its own.
PeerReadsAccepted ==
  ~(Vmess /\ out.failed) =>
    LET said == (IF proto \in {"ss", "ss2022"} THEN <<0>> ELSE <<>>) \o FlattenSeq(accepted) IN
    /\ IsPrefix(said, Payload(wire)) \/ accepted = <<>>
    /\ proto = "vmessUdp" => accepted = [i \in 1..(Len(wire) - (IF out.closed THEN 1 ELSE 0)) |-> wire[i].data]

\* A chunk fits the length field of its protocol, and only the end of a stream is empty: a
\* reader of vmess takes an empty chunk for the end.
ChunksFit ==
  proto # "ssStream" => \A i \in 1..Len(wire) :
    /\ Len(wire[i].data) <= IF proto = "vmessUdp" THEN MaxPacket ELSE MaxChunk
    /\ wire[i].kind \in {"body", "chunk"} /\ wire[i].data = <<>> /\ proto # "vmessUdp" => i = Len(wire) /\ out.closed
=============================================================================
