------------------------------- MODULE Vision -------------------------------
(***************************************************************************)
(* vision.Conn (protocol/vless/vision): the payload of a VLESS connection  *)
(* travels in padded blocks while both directions are sniffed for an inner *)
(* TLS handshake.  The last padded block says End, and the rest follows    *)
(* unpadded through the outer TLS connection, or Direct, and the rest      *)
(* bypasses the outer TLS connection.                                      *)
(*                                                                         *)
(* Writer and reader run concurrently and share the filter, under          *)
(* filterMu.  A buffer is a sequence of units: the beginning of a hello,   *)
(* the extension that announces TLS 1.3, the beginning of application      *)
(* data, or anything else.  The outer connection is TLS 1.3 and its writes *)
(* succeed: after an error crypto/tls fails every later write as well.     *)
(***************************************************************************)
EXTENDS Integers, Sequences

CONSTANTS Filter,     \* initial value of packetsToFilter
          MaxWrites,  \* bound on the writes of the application
          Streams,    \* what the server may send: sequences of blocks [cmd, content, padding]
          HelloLen,   \* units of a ServerHello
          CipherLen,  \* units of it a buffer needs to show the cipher suite
          Plain,      \* units it sends unpadded through TLS after End
          Input,      \* units left in the TLS connection after Direct, decrypted
          RawInput,   \* and not yet decrypted
          Under,      \* units that arrive below TLS after Direct
          Caps        \* buffer sizes of the reader

WriteKinds == {"clientHello", "appData", "tornAppData", "other"}
None == "none"

VARIABLES
  filter,     \* [n |-> packetsToFilter, tls, tls12, xtls, cipher, rest |-> remainingServerHello]
  need,       \* needHandshake
  padding,    \* writeFilterApplicationData
  direct,     \* toWriteDirect and writer.writeDirect
  writer,     \* the write under way: [pc, kind, big, sn], sn the snapshot of the filter
  writes,     \* buffers written
  wire,       \* what was sent: [uuid, cmd, via, write, kind, last]
  halfClosed, \* None, or the connection CloseWrite was forwarded to
  blocks,     \* what it sends on this connection
  block, left,\* reader: blocks whose header was read, and what is missing of the last
  command,    \* readLastCommand
  mode,       \* "blocks", "end" (toReadDirect) or "direct" (reader.directRead)
  input, raw, \* units left in the two TLS buffers, None once they are let go
  got         \* units delivered: [blocks, plain, input, raw, under]

writeVars == <<need, padding, direct, writer, writes, wire, halfClosed>>
readVars == <<blocks, block, left, command, mode, input, raw, got>>
vars == <<filter, writeVars, readVars>>

Filters == [n : 0..Filter, tls : BOOLEAN, tls12 : BOOLEAN, xtls : BOOLEAN, cipher : BOOLEAN, rest : 0..HelloLen]
TypeOK ==
  /\ filter \in Filters
  /\ need \in BOOLEAN /\ padding \in BOOLEAN /\ direct \in BOOLEAN /\ writes \in 0..MaxWrites
  /\ writer \in [pc : {"idle", "rest", "snapshot", "send"}, kind : WriteKinds, big : BOOLEAN, sn : Filters]
  /\ halfClosed \in {None, "tls", "under"} /\ blocks \in Streams /\ block \in 0..Len(blocks) /\ command \in {"continue", "end", "direct"}
  /\ mode \in {"blocks", "end", "direct"} /\ input \in -1..Input /\ raw \in -1..RawInput

Fresh == [n |-> Filter, tls |-> FALSE, tls12 |-> FALSE, xtls |-> FALSE, cipher |-> FALSE, rest |-> 0]
Idle == [pc |-> "idle", kind |-> "other", big |-> FALSE, sn |-> Fresh]
Init ==
  /\ filter = Fresh
  /\ need = TRUE /\ padding = TRUE /\ direct = FALSE /\ writer = Idle /\ writes = 0 /\ wire = <<>>
  /\ halfClosed = None
  /\ blocks \in Streams /\ block = 0 /\ left = [content |-> <<>>, padding |-> 0] /\ command = "continue" /\ mode = "blocks"
  /\ input = Input /\ raw = RawInput
  /\ got = [blocks |-> 0, plain |-> 0, input |-> 0, raw |-> 0, under |-> 0]

-----------------------------------------------------------------------------
(* The filter: what filterTLSLocked makes of a buffer.                     *)

Has(buffer, unit) == \E i \in 1..Len(buffer) : buffer[i] = unit
Less(a, b) == IF a < b THEN a ELSE b

\* A ServerHello at the start of the buffer, or a ClientHello; the cipher suite is read only
\* when the buffer that begins the ServerHello is long enough.
SeeHello(f, buffer) ==
  IF buffer[1] = "serverHello"
  THEN [f EXCEPT !.tls = TRUE, !.tls12 = TRUE, !.rest = HelloLen, !.cipher = @ \/ Len(buffer) >= CipherLen]
  ELSE [f EXCEPT !.tls = @ \/ Has(buffer, "clientHello")]

\* While a ServerHello is incomplete whatever comes next counts as its continuation.
FilterTLS(f, buffer) ==
  LET g == SeeHello([f EXCEPT !.n = @ - 1], buffer)
      seen == Less(g.rest, Len(buffer))
      h == [g EXCEPT !.rest = @ - seen]
  IN  IF f.n <= 0 THEN f
      ELSE IF g.rest = 0 THEN g
      ELSE IF Has(SubSeq(buffer, 1, seen), "versions") THEN [h EXCEPT !.xtls = @ \/ g.cipher, !.n = 0]
      ELSE IF h.rest = 0 THEN [h EXCEPT !.n = 0]
      ELSE h

-----------------------------------------------------------------------------
(* Writing.  muWrite is held from the first step of a write to the last.   *)

Via == IF direct THEN "under" ELSE "tls"
Buffer(kind) == IF kind = "clientHello" THEN <<"clientHello">> ELSE <<"other">>
Piece(cmd, via, kind, last) ==
  [uuid |-> FALSE, cmd |-> cmd, via |-> via, write |-> writes + 1, kind |-> kind, last |-> last]
CanWrite == writer = Idle /\ halfClosed = None /\ writes < MaxWrites

\* The first buffer goes out in a padded block with the UUID.
WriteHandshake ==
  /\ need /\ CanWrite /\ need' = FALSE /\ writes' = writes + 1
  /\ \E k \in WriteKinds :
       /\ filter' = FilterTLS(filter, Buffer(k))
       /\ wire' = <<[Piece("continue", "tls", k, TRUE) EXCEPT !.uuid = TRUE]>>
  /\ UNCHANGED <<padding, direct, writer, halfClosed, readVars>>

\* The handshake timer, when nothing was written yet, sends that block empty.
FlushBody ==
  /\ writer = Idle /\ halfClosed = None /\ need' = FALSE
  /\ wire' = Append(wire, [Piece("continue", Via, "other", TRUE) EXCEPT !.uuid = TRUE, !.write = writes])
  /\ UNCHANGED <<filter, padding, direct, writer, writes, halfClosed, readVars>>
FlushHandshakeIfNeeded == need /\ FlushBody

\* A later buffer is filtered, the two parts of a big one each.
WriteFilter ==
  /\ ~need /\ padding /\ CanWrite
  /\ \E k \in WriteKinds, big \in BOOLEAN :
       /\ writer' = [Idle EXCEPT !.pc = IF big THEN "rest" ELSE "snapshot", !.kind = k, !.big = big]
       /\ filter' = FilterTLS(filter, Buffer(k))
  /\ UNCHANGED <<need, padding, direct, writes, wire, halfClosed, readVars>>
WriteFilterRest ==
  /\ writer.pc = "rest" /\ writer' = [writer EXCEPT !.pc = "snapshot"]
  /\ filter' = FilterTLS(filter, Buffer("other"))
  /\ UNCHANGED <<need, padding, direct, writes, wire, halfClosed, readVars>>
FilterSnapshot ==
  /\ writer.pc = "snapshot" /\ writer' = [writer EXCEPT !.pc = "send", !.sn = filter]
  /\ UNCHANGED <<filter, need, padding, direct, writes, wire, halfClosed, readVars>>

\* A buffer is sent as one block, or as two pieces when it is big.
Pieces(first, second) ==
  IF writer.big THEN <<Piece(first, "tls", writer.kind, FALSE), Piece(second, "tls", writer.kind, TRUE)>>
  ELSE <<Piece(second, "tls", writer.kind, TRUE)>>
EndBlock == IF writer.big THEN Pieces("end", "raw") ELSE Pieces("continue", "end")

IsCompleteAppDataTorn(kind) == kind \in {"appData", "tornAppData"}
IsCompleteAppDataRecords(kind) == kind = "appData"

\* Not TLS, or still no TLS 1.2 when the filter gives up: padding ends with this buffer.
SendEnd ==
  LET sn == writer.sn
      notTLS == ~sn.tls
      legacy == ~IsCompleteAppDataRecords(writer.kind) /\ ~sn.tls12 /\ sn.n <= 1
  IN  /\ notTLS \/ legacy
      /\ padding' = FALSE /\ wire' = wire \o EndBlock
      /\ filter' = IF notTLS THEN [filter EXCEPT !.n = 0] ELSE filter
      /\ UNCHANGED direct

\* Complete records of application data: padding ends behind them, and with an inner TLS 1.3
\* so does the outer TLS.
SendLast ==
  /\ writer.sn.tls /\ IsCompleteAppDataRecords(writer.kind)
  /\ padding' = FALSE /\ direct' = writer.sn.xtls
  /\ wire' = wire \o Pieces("continue", IF writer.sn.xtls THEN "direct" ELSE "end")
  /\ UNCHANGED filter

SendContinue ==
  /\ writer.sn.tls /\ ~IsCompleteAppDataRecords(writer.kind) /\ (writer.sn.tls12 \/ writer.sn.n > 1)
  /\ wire' = wire \o Pieces("continue", "continue")
  /\ UNCHANGED <<padding, direct, filter>>

Send ==
  /\ writer.pc = "send" /\ writer' = Idle /\ writes' = writes + 1
  /\ SendEnd \/ SendLast \/ SendContinue
  /\ UNCHANGED <<need, halfClosed, readVars>>

\* After the padded blocks buffers are written as they are.
WriteRaw ==
  /\ ~need /\ ~padding /\ CanWrite
  /\ \E k \in WriteKinds : wire' = Append(wire, Piece("raw", Via, k, TRUE))
  /\ writes' = writes + 1
  /\ UNCHANGED <<filter, need, padding, direct, writer, halfClosed, readVars>>

\* CloseWrite goes to the connection that carries the payload.
CloseWrite ==
  /\ writer = Idle /\ halfClosed = None /\ halfClosed' = Via
  /\ UNCHANGED <<filter, need, padding, direct, writer, writes, wire, readVars>>

-----------------------------------------------------------------------------
(* Reading, each action a step of read under muRead.                       *)

InBlocks == mode = "blocks" /\ left = [content |-> <<>>, padding |-> 0]

ReadContent ==
  /\ mode = "blocks" /\ left.content # <<>>
  /\ \E cap \in Caps : \E n \in 1..Less(cap, Len(left.content)) :
       /\ left' = [left EXCEPT !.content = SubSeq(@, n + 1, Len(@))]
       /\ got' = [got EXCEPT !.blocks = @ + n]
       /\ filter' = FilterTLS(filter, SubSeq(left.content, 1, n))
  /\ UNCHANGED <<writeVars, blocks, block, command, mode, input, raw>>

SkipPadding ==
  /\ mode = "blocks" /\ left.content = <<>> /\ left.padding > 0
  /\ left' = [left EXCEPT !.padding = 0]
  /\ UNCHANGED <<filter, writeVars, blocks, block, command, mode, input, raw, got>>

ReadHeader ==
  /\ InBlocks /\ command = "continue" /\ block < Len(blocks)
  /\ block' = block + 1 /\ command' = blocks[block + 1].cmd
  /\ left' = [content |-> blocks[block + 1].content, padding |-> blocks[block + 1].padding]
  /\ UNCHANGED <<filter, writeVars, blocks, mode, input, raw, got>>

ReadEnd ==
  /\ InBlocks /\ command = "end" /\ mode' = "end"
  /\ UNCHANGED <<filter, writeVars, blocks, block, left, command, input, raw, got>>

\* Direct: what the TLS connection has buffered is delivered first, the decrypted part and
\* then the rest, and only then is the connection below read.
ReadDirect ==
  /\ InBlocks /\ command = "direct"
  /\ \E cap \in Caps :
       LET n == IF input = -1 THEN 0 ELSE Less(cap, input)
           full == input > n
           m == IF full \/ raw = -1 THEN 0 ELSE Less(cap - n, raw)
       IN  /\ input' = IF input = -1 \/ input = n THEN -1 ELSE input - n
           /\ raw' = IF full \/ raw = -1 THEN raw ELSE IF raw = m THEN -1 ELSE raw - m
           /\ got' = [got EXCEPT !.input = @ + n, !.raw = @ + m]
  /\ mode' = IF input' = -1 /\ raw' = -1 THEN "direct" ELSE mode
  /\ UNCHANGED <<filter, writeVars, blocks, block, left, command>>

ReadPlain ==
  /\ \/ mode = "end" /\ got.plain < Plain /\ got' = [got EXCEPT !.plain = @ + 1]
     \/ mode = "direct" /\ got.under < Under /\ got' = [got EXCEPT !.under = @ + 1]
  /\ UNCHANGED <<filter, writeVars, blocks, block, left, command, mode, input, raw>>

ReadStep == ReadContent \/ SkipPadding \/ ReadHeader \/ ReadEnd \/ ReadDirect \/ ReadPlain

WriteStep == WriteHandshake \/ FlushHandshakeIfNeeded \/ WriteFilter \/ WriteFilterRest \/ FilterSnapshot \/ Send \/ WriteRaw

Next == WriteStep \/ CloseWrite \/ ReadStep

Spec == Init /\ [][Next]_vars

-----------------------------------------------------------------------------
(* Properties.                                                             *)

\* The peer can decode what was written: padded blocks up to one that says End or Direct
\* and unpadded buffers after it, in the order of the writes, all through TLS up to that
\* block and after it on the connection the command announced.  The half-close follows the
\* payload to that connection.
WireIsDecodable ==
  /\ halfClosed # None => (halfClosed = "under" <=> \E i \in 1..Len(wire) : wire[i].cmd = "direct")
  /\ \A i \in 1..Len(wire) :
       LET before == {j \in 1..i-1 : wire[j].cmd \in {"end", "direct"}} IN
         /\ wire[i].uuid <=> i = 1
         /\ wire[i].cmd = "raw" <=> before # {}
         /\ wire[i].via = "under" <=> \E j \in before : wire[j].cmd = "direct"
         /\ i > 1 => wire[i-1].write = IF wire[i-1].last THEN wire[i].write - 1 ELSE wire[i].write

\* Vision switches to direct mode only behind complete application data records, and only
\* when the inner connection was seen to be TLS 1.3.
DirectAtRecordBoundary ==
  \A i \in 1..Len(wire) : wire[i].cmd = "direct" => wire[i].last /\ wire[i].kind = "appData" /\ filter.xtls

\* Bytes that arrive later are not delivered while earlier ones wait: blocks, then what TLS
\* had decrypted, then what it had not, then the connection below.
ReadInOrder ==
  /\ got.plain + got.input + got.raw + got.under > 0 => left.content = <<>> /\ command # "continue"
  /\ got.raw > 0 => got.input = Input
  /\ got.under > 0 => got.input = Input /\ got.raw = RawInput
=============================================================================
