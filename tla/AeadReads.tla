------------------------------ MODULE AeadReads ------------------------------
(***************************************************************************)
(* The receiving half of the AEAD streams: Read of shadowsocks.TCPConn,    *)
(* shadowsocks_2022.TCPConn and vmess.Conn, the last for streams and for   *)
(* datagrams.  A call takes what an earlier one left, or reads one chunk,  *)
(* after the opening of the stream when it is the first.  The read of a    *)
(* unit may fail at a deadline, with a part of the unit consumed or with   *)
(* none of it, and the caller may call again.                              *)
(*                                                                         *)
(* A unit is what one io.ReadFull takes; Stream is what the peer sent.  A  *)
(* unit opens only in its place: with its nonce and mask, and if the       *)
(* stream was not torn before it.                                          *)
(***************************************************************************)
EXTENDS Integers, Sequences, SequencesExt

CONSTANTS Protocols,  \* of "ss", "ss2022", "vmess" and "vmessUdp"
          Replies,    \* the payload length of each chunk
          Caps,       \* buffer sizes of the caller
          Faults      \* bound on the reads that fail and the openings that are refused

VARIABLES
  proto,
  in,      \* the receiver: once, dead, nonce, draw, left (leftToRead)
  pos,     \* units consumed
  torn,    \* the stream is no longer read at the bounds of units, or with a wrong key
  stage,   \* the unit a call waits for, or "idle"
  cap,
  got,     \* payloads returned
  result,
  faults

vars == <<proto, in, pos, torn, stage, cap, got, result, faults>>

Vmess == proto \in {"vmess", "vmessUdp"}

Before(k) == IF k = 1 THEN 0 ELSE FoldLeft(+, 0, SubSeq(Replies, 1, k - 1))
Body(k) == [i \in 1..Replies[k] |-> Before(k) + i]
Unit(kind, nonce, data) == [kind |-> kind, nonce |-> nonce, data |-> data]

\* The opening of each stream, and the two units of a chunk.  The first length of
\* shadowsocks 2022 is a part of its header.
Opening ==
  CASE proto = "ss" -> <<Unit("salt", 0, <<>>), Unit("length", 0, <<>>)>>
    [] proto = "ss2022" -> <<Unit("salt", 0, <<>>), Unit("header", 0, <<>>)>>
    [] OTHER -> <<Unit("respLength", 0, <<>>), Unit("respHeader", 0, <<>>), Unit("length", 0, <<>>)>>
ChunkUnits(k) ==
  IF Vmess THEN <<Unit("body", k - 1, Body(k)), Unit(IF k = Len(Replies) THEN "end" ELSE "length", k, <<>>)>>
  ELSE <<Unit("body", 2 * k - 1, Body(k))>>
         \o (IF k = Len(Replies) THEN <<>> ELSE <<Unit("length", 2 * k, <<>>)>>)
Stream == Opening \o FlattenSeq([k \in 1..Len(Replies) |-> ChunkUnits(k)])

TypeOK ==
  /\ proto \in Protocols /\ pos \in 0..Len(Stream) /\ torn \in BOOLEAN /\ cap \in Caps /\ faults \in 0..Faults
  /\ {in.once, in.dead} \subseteq BOOLEAN /\ {in.nonce, in.draw} \subseteq Nat
  /\ stage \in {"idle", "salt", "header", "respLength", "respHeader", "length", "body"}
  /\ result \in {"none", "data", "dropped", "timeout", "refused", "auth", "eof"}

Init ==
  /\ proto \in Protocols /\ pos = 0 /\ torn = FALSE /\ stage = "idle" /\ cap \in Caps /\ got = <<>> /\ result = "none"
  /\ faults = 0 /\ in = [once |-> FALSE, dead |-> FALSE, nonce |-> 0, draw |-> 0, left |-> <<>>]

Return(r) == stage' = "idle" /\ result' = r
Await(s) == stage' = s /\ UNCHANGED result

\* copy(b, chunk): the rest of a stream's chunk is left for the next call; a datagram that
\* does not fit is dropped.
Deliver(d, n, rest) ==
  IF proto = "vmessUdp" /\ Len(d) > n
  THEN Return("dropped") /\ UNCHANGED got /\ in' = [rest EXCEPT !.left = <<>>]
  ELSE Return("data") /\ got' = Append(got, SubSeq(d, 1, n)) /\ in' = [rest EXCEPT !.left = SubSeq(d, n + 1, Len(d))]

FirstStage == IF in.once THEN "length" ELSE IF Vmess THEN "respLength" ELSE "salt"

\* Read.  initRead of vmess runs once, and a connection on which it failed stays dead.
CallReturns(n) == Deliver(in.left, Min({n, Len(in.left)}), in)
Call ==
  /\ stage = "idle" /\ \E n \in Caps :
       /\ cap' = n
       /\ IF in.dead THEN Return("refused") /\ UNCHANGED <<got, in>>
          ELSE IF in.left # <<>> THEN CallReturns(n)
          ELSE Await(FirstStage) /\ UNCHANGED <<got, in>>
  /\ UNCHANGED <<proto, pos, torn, faults>>

u == Stream[pos + 1]
Reads(s) == stage = s /\ pos < Len(Stream) /\ pos' = pos + 1 /\ UNCHANGED <<proto, cap>>
Opens == ~torn /\ u.kind = stage /\ u.nonce = in.nonce

\* A salt is taken for what it is; nothing opens with a wrong one.
ReadSalt ==
  /\ Reads("salt") /\ torn' = (torn \/ u.kind # "salt")
  /\ IF proto = "ss" THEN in' = [in EXCEPT !.once = TRUE] /\ Await("length") ELSE Await("header") /\ UNCHANGED in
  /\ UNCHANGED <<got, faults>>

Refused == Return("refused") /\ faults < Faults /\ faults' = faults + 1

\* The header of shadowsocks 2022: type, time or the echoed salt may be refused.
ReadHeader ==
  /\ Reads("header") /\ UNCHANGED got
  /\ \/ ~Opens /\ Return("auth") /\ torn' = TRUE /\ UNCHANGED <<in, faults>>
     \/ Opens /\ Await("body") /\ in' = [in EXCEPT !.once = TRUE, !.nonce = @ + 1] /\ UNCHANGED <<torn, faults>>
     \/ Opens /\ Refused /\ in' = [in EXCEPT !.nonce = @ + 1] /\ UNCHANGED torn

\* The response header of vmess: it is not valid, or has another authentication value.
ReadResp ==
  /\ Reads("respLength") \/ Reads("respHeader")
  /\ UNCHANGED got
  /\ \/ /\ Opens /\ UNCHANGED <<torn, faults>>
        /\ IF stage = "respLength" THEN Await("respHeader") /\ UNCHANGED in
           ELSE Await("length") /\ in' = [in EXCEPT !.once = TRUE]
     \/ Refused /\ in' = [in EXCEPT !.dead = TRUE] /\ UNCHANGED torn

\* The length of a chunk.  It is sealed by the shadowsocks protocols; vmess only masks it, so
\* that a wrong one can be anything, the end of the stream included.
ReadLength ==
  /\ ~Vmess /\ Reads("length") /\ UNCHANGED <<got, faults>>
  /\ IF Opens THEN Await("body") /\ in' = [in EXCEPT !.nonce = @ + 1] /\ UNCHANGED torn
     ELSE Return("auth") /\ torn' = TRUE /\ UNCHANGED in
ReadSize ==
  /\ Vmess /\ Reads("length") /\ UNCHANGED <<got, faults>> /\ in' = [in EXCEPT !.draw = @ + 1]
  /\ IF ~torn /\ u.kind \in {"length", "end"} /\ u.nonce = in.draw
     THEN UNCHANGED torn /\ IF u.kind = "end" THEN Return("eof") ELSE Await("body")
     ELSE torn' = TRUE /\ (Return("auth") \/ Return("eof") \/ Await("body"))

\* The body.  vmess takes a nonce whether or not the body opens.
ReadChunk ==
  /\ Reads("body") /\ UNCHANGED faults
  /\ IF Opens THEN UNCHANGED torn /\ Deliver(u.data, Min({cap, Len(u.data)}), [in EXCEPT !.nonce = @ + 1])
     ELSE Return("auth") /\ torn' = TRUE /\ UNCHANGED got /\ in' = [in EXCEPT !.nonce = @ + (IF Vmess THEN 1 ELSE 0)]

\* The read of a unit fails, with a part of it consumed or with none.
Fault ==
  /\ stage # "idle" /\ faults < Faults /\ faults' = faults + 1
  /\ Return("timeout") /\ torn' \in {torn, TRUE}
  /\ in' = [in EXCEPT !.dead = @ \/ stage \in {"respLength", "respHeader"}]
  /\ UNCHANGED <<proto, pos, cap, got>>

Next == Call \/ ReadSalt \/ ReadHeader \/ ReadResp \/ ReadLength \/ ReadSize \/ ReadChunk \/ Fault

Spec == Init /\ [][Next]_vars

-----------------------------------------------------------------------------
(* Properties.                                                             *)

Total == FoldLeft(+, 0, Replies)
Sent == [i \in 1..Total |-> i]

\* Whatever the buffers and wherever a read fails, the bytes returned are those the peer sent,
\* from the first on and without a gap: a chunk read out of its place does not open.
ReadIsPrefix == proto # "vmessUdp" => IsPrefix(FlattenSeq(got), Sent)

\* A datagram is returned whole, and in the order of the peer.
DatagramsWhole ==
  proto = "vmessUdp" =>
    /\ \A i \in 1..Len(got) : \E k \in 1..Len(Replies) : got[i] = Body(k)
    /\ \A i \in 2..Len(got) : got[i-1][1] < got[i][1]

\* Without a failed read, the end is reported behind the last byte, and every unit opens.
EndIsEnd ==
  faults = 0 =>
    /\ result # "auth"
    /\ result = "eof" /\ proto = "vmess" => FlattenSeq(got) = Sent

\* A read that failed before the first byte of a chunk was only early: the stream goes on.
\* This holds at every chunk but the first of shadowsocks 2022 and vmess.
RetryIsClean ==
  ~torn /\ stage = "length" /\ pos < Len(Stream) /\ u.kind \in {"length", "end"} =>
    u.nonce = IF Vmess THEN in.draw ELSE in.nonce
=============================================================================
