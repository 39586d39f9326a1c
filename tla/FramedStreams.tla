---------------------------- MODULE FramedStreams ----------------------------
(***************************************************************************)
(* Two unencrypted framings over a byte stream: the TLS records of         *)
(* simple-obfs (TLSObfs) and the v2ray-plugin mux (mux.Conn).  A call is a *)
(* series of raw reads or writes, each of which may fail; a raw read may   *)
(* return less than was asked for, or bytes together with its error.       *)
(***************************************************************************)
EXTENDS Integers, Sequences

CONSTANTS Kinds,      \* subset of {"obfs", "mux"}
          Lengths,    \* payload of the peer's frames; -1 is a mux frame without data
          Caps,       \* lengths of the caller's buffer
          Chunks,     \* chunks of one Write
          Faults      \* bound on failing calls

VARIABLES kind, stream, pos,
          remain, firstResponse,          \* the conn
          at, cap, want, got, tail,       \* the Read in progress; tail: it continues a frame
          out, empty, faults, lastErr,    \* what was handed out; Reads that returned (0, nil)
          otb, sent, todo, reported, torn,\* the greeting still to send; frames that left; the Write
          closing, closed

reads == <<kind, stream, pos, remain, firstResponse, at, cap, want, got, tail, out, empty, lastErr>>
writes == <<otb, sent, todo, reported, torn, closing, closed>>
vars == <<reads, faults, writes>>

\* The peer's stream: the header of frame i in two parts, then its payload.
Frame(i) ==
  IF Lengths[i] = -1 THEN <<[t |-> "meta", n |-> -1]>>
  ELSE <<[t |-> "meta", n |-> i], [t |-> "size", n |-> Lengths[i]]>>
       \o [j \in 1..Lengths[i] |-> [t |-> "data", n |-> Lengths[i] - j + 1]]

Peer(k) ==
  LET S[i \in 0..Len(Lengths)] ==
        IF i = 0 THEN <<>>
        ELSE S[i - 1] \o IF k = "obfs" /\ Lengths[i] = -1 THEN <<>> ELSE Frame(i)
  IN  S[Len(Lengths)]

Init ==
  /\ kind \in Kinds /\ stream = Peer(kind) /\ pos = 1 /\ remain = 0 /\ firstResponse = (kind = "obfs")
  /\ at = "idle" /\ cap = 0 /\ want = 0 /\ got = 0 /\ tail = FALSE /\ out = <<>> /\ empty = 0
  /\ faults = 0 /\ lastErr = "none" /\ otb = TRUE /\ sent = <<>> /\ todo = 0 /\ reported = 0
  /\ torn = FALSE /\ closing = "no" /\ closed = FALSE

Min2(a, b) == IF a < b THEN a ELSE b

\* Where the stream stands between two calls: inside a frame, remain counts its rest.
Aligned ==
  \/ pos > Len(stream) /\ remain = 0
  \/ /\ pos <= Len(stream)
     /\ CASE stream[pos].t = "meta" -> remain = 0 /\ (firstResponse <=> kind = "obfs" /\ pos = 1)
          [] stream[pos].t = "size" -> FALSE
          [] stream[pos].t = "data" -> remain = stream[pos].n

ReadStart ==
  /\ at = "idle" /\ Aligned /\ pos <= Len(stream) /\ \E c \in Caps : cap' = c
  /\ tail' = (remain > 0) /\ got' = 0 /\ firstResponse' = (firstResponse /\ remain > 0)
  /\ IF remain > 0 THEN at' = "body" /\ want' = Min2(remain, cap') ELSE at' = "head" /\ want' = 0
  /\ UNCHANGED <<kind, stream, pos, remain, out, empty, faults, lastErr, writes>>

\* A part of a header; the size of a frame that is not skipped starts its payload.
HeaderPart(next) ==
  /\ at \in {"head", "size"} /\ pos <= Len(stream) /\ pos' = pos + 1 /\ at' = next
  /\ IF next = "body" THEN want' = Min2(stream[pos].n, cap) /\ remain' = stream[pos].n
     ELSE UNCHANGED <<want, remain>>
  /\ UNCHANGED <<kind, stream, firstResponse, cap, got, tail, out, empty, faults, lastErr, writes>>

\* simple-obfs skips empty records, mux the frames without data.
ObfsHeader ==
  kind = "obfs" /\ HeaderPart(IF at = "head" THEN "size" ELSE IF stream[pos].n = 0 THEN "head" ELSE "body")
MuxHeader ==
  kind = "mux" /\ HeaderPart(IF at = "size" THEN "body" ELSE IF stream[pos].n = -1 THEN "head" ELSE "size")

\* A payload byte of the raw read, or reads, that this call makes.
ReadByte ==
  /\ at = "body" /\ got < want /\ pos <= Len(stream)
  /\ pos' = pos + 1 /\ got' = got + 1 /\ out' = Append(out, pos)
  /\ UNCHANGED <<kind, stream, remain, firstResponse, at, cap, want, tail, empty, faults, lastErr, writes>>

\* io.ReadFull: the rest of a frame, and a record that fits the buffer, in simple-obfs.
Full == kind = "obfs" /\ (tail \/ remain <= cap)

\* remain, as the end of a call leaves it.
RemainAfter(failed) ==
  IF kind = "obfs" /\ Full /\ ~tail THEN 0
  ELSE IF kind = "mux" /\ tail /\ failed THEN remain
  ELSE remain - got

ReadReturns ==
  /\ at = "body" /\ (got = want \/ (~Full /\ got > 0)) /\ at' = "idle"
  /\ remain' = RemainAfter(FALSE) /\ empty' = IF got = 0 THEN empty + 1 ELSE empty
  /\ UNCHANGED <<kind, stream, pos, firstResponse, cap, want, got, tail, out, faults, lastErr, writes>>

ReadFails ==
  /\ at # "idle" /\ faults < Faults /\ faults' = faults + 1 /\ at' = "idle"
  /\ (at = "body" => got < want \/ ~Full)
  /\ remain' = IF at = "body" THEN RemainAfter(TRUE) ELSE remain
  /\ lastErr' = CASE at = "size" -> "header"
                  [] at = "head" -> IF pos = 1 THEN "first" ELSE "between"
                  [] at = "body" /\ Full /\ ~tail -> "fitting"
                  [] OTHER -> IF kind = "mux" /\ tail /\ got > 0 THEN "both" ELSE "inside"
  /\ UNCHANGED <<kind, stream, pos, firstResponse, cap, want, got, tail, out, empty, writes>>

(***************************************************************************)
(* Writes: simple-obfs cuts a Write into chunks, the first of which rides  *)
(* in the client hello; mux opens the sub-connection before its first      *)
(* frame.  A failing raw write may leave part of a frame behind.           *)
(***************************************************************************)
WriteStart ==
  /\ todo = 0 /\ ~torn /\ closing = "no" /\ Len(sent) < 3 /\ todo' \in (IF kind = "mux" THEN {1} ELSE 1..Chunks)
  /\ UNCHANGED <<reads, faults, otb, sent, reported, torn, closing, closed>>

WriteOtb ==
  /\ todo > 0 /\ otb /\ ~closed /\ otb' = FALSE
  /\ IF kind = "obfs"
     THEN sent' = Append(sent, "hello") /\ reported' = reported + 1 /\ todo' = todo - 1
     ELSE sent' = Append(sent, "open") /\ UNCHANGED <<reported, todo>>
  /\ UNCHANGED <<reads, faults, torn, closing, closed>>

WriteChunk ==
  /\ todo > 0 /\ ~otb /\ ~closed
  /\ sent' = Append(sent, "data") /\ reported' = reported + 1 /\ todo' = todo - 1
  /\ UNCHANGED <<reads, faults, otb, torn, closing, closed>>

WriteFails ==
  /\ todo > 0 /\ (closed \/ faults < Faults) /\ faults' = IF closed THEN faults ELSE faults + 1
  /\ todo' = 0 /\ torn' = TRUE
  /\ UNCHANGED <<reads, otb, sent, reported, closing, closed>>

\* mux.Conn.Close, once: the underlay closes also when the END frame cannot be sent.
CloseEnd ==
  /\ closing = "no" /\ closing' = "end"
  /\ \/ kind = "mux" /\ sent' = Append(sent, "end") /\ UNCHANGED <<faults, torn>>
     \/ kind = "mux" /\ faults < Faults /\ faults' = faults + 1 /\ torn' = TRUE /\ UNCHANGED sent
     \/ kind = "obfs" /\ UNCHANGED <<sent, faults, torn>>
  /\ UNCHANGED <<reads, otb, todo, reported, closed>>

CloseUnderlay ==
  /\ closing = "end" /\ closing' = "done" /\ closed' = TRUE
  /\ UNCHANGED <<reads, faults, otb, sent, todo, reported, torn>>

Next ==
  \/ ReadStart \/ ObfsHeader \/ MuxHeader \/ ReadByte \/ ReadReturns \/ ReadFails
  \/ WriteStart \/ WriteOtb \/ WriteChunk \/ WriteFails \/ CloseEnd \/ CloseUnderlay

Spec == Init /\ [][Next]_vars

\* Every byte handed out is payload, and none is skipped: partial raw reads, small buffers,
\* empty records and keep-alives never shift the frames.
PayloadInOrder ==
  out = SelectSeq([i \in 1..Len(stream) |-> IF stream[i].t = "data" /\ i < pos THEN i ELSE 0],
                  LAMBDA i : i > 0)

\* Between two calls the reader stands on a frame boundary or knows the rest of its frame,
\* also after an error between frames or inside one.  What loses the place is an error within a
\* header, before the server hello arrived, inside a record read whole, or together with bytes.
KeepsItsPlace ==
  (at = "idle" /\ ~Aligned) =>
    lastErr \in (IF kind = "obfs" THEN {"header", "first", "fitting"} ELSE {"header", "both"})

\* A Read of simple-obfs never succeeds without data, which would spin a relay loop.
ObfsMakesProgress == kind = "obfs" => empty = 0

\* The peer is greeted once, before any chunk; a Write reports the chunks that left whole,
\* and no more than one END is sent.
WritesAreCounted ==
  /\ LET frames == SelectSeq(sent, LAMBDA f : f # "end") IN
     \A i \in DOMAIN frames : i = 1 <=> frames[i] = IF kind = "obfs" THEN "hello" ELSE "open"
  /\ reported = Len(SelectSeq(sent, LAMBDA f : f \in {"hello", "data"}))
  /\ Len(SelectSeq(sent, LAMBDA f : f = "end")) <= 1
=============================================================================
