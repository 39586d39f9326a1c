---------------------------- MODULE StreamReads -----------------------------
(***************************************************************************)
(* UDP datagrams read from a stream: ReadFrom of trojanc, juicity, vless   *)
(* and vision, for the client and for the server side.  The stream opens   *)
(* with a header of the protocol, which is read once and whose failure is  *)
(* final; then come frames, each a header that holds the length, and a     *)
(* payload.  The caller's buffer may be too small for the datagram, and    *)
(* the read of any unit may fail, as at a read deadline.  A caller goes on *)
(* after ErrDatagramDropped and ErrDomainResolution, may try again after   *)
(* the opening header failed, and gives up after any other error.          *)
(*                                                                         *)
(* A unit is what one io.ReadFull of a header takes, or an element of a    *)
(* payload: the stream is a sequence of <<i, 0>> for a unit of the header  *)
(* of frame i (i = 0: the opening header) and <<i, k>> for its payload.    *)
(***************************************************************************)
EXTENDS Integers, Sequences, SequencesExt

CONSTANTS Protocols,  \* of "vless", "vlessServer", "trojanc", "trojancServer", "juicity",
                      \* "juicityServer" and "vision"
          Frames,     \* the payload length of each frame
          NoData,     \* the length that stands for a vision frame without a payload
          Caps,       \* buffer sizes of the caller
          Faults      \* bound on the reads that fail

VARIABLES
  proto,
  pos,        \* units consumed
  phase,      \* what ReadFrom is reading
  left,       \* units of that which are missing
  cap,        \* the buffer of the call
  frame,      \* the frame whose header was read
  buf,        \* units in the caller's buffer
  greeted,    \* readHeaderDone
  headerErr,
  result,     \* of the last call: "none", "ok", "dropped", "unresolved", "refused" or "error"
  faults

vars == <<proto, pos, phase, left, cap, frame, buf, greeted, headerErr, result, faults>>

\* The reads of the opening headers.  A client of vless reads version and addons; servers read
\* the key, addons, command and address, or the hash, the command, the address and two
\* CRLFs, or the network and the address.
ReadRespHeader == 2
ReadReqHeader == 4
TrojanReadReqHeader == 5
JuicityReadReqHeader == 2

Greeting ==
  CASE proto = "vless" -> ReadRespHeader
    [] proto = "vlessServer" -> ReadReqHeader
    [] proto = "trojancServer" -> TrojanReadReqHeader
    [] proto = "juicityServer" -> JuicityReadReqHeader
    [] OTHER -> 0

IsVless == proto \in {"vless", "vlessServer"}
\* The reads of a frame header: length; metadata and length; length, header and length of
\* the data, which is missing in a frame without data.
HeadLen == IF IsVless THEN 1 ELSE 2
Payload(i) == IF Frames[i] = NoData THEN 0 ELSE Frames[i]
Frame(i) ==
  [k \in 1..(HeadLen + (IF proto = "vision" /\ Frames[i] # NoData THEN 1 ELSE 0)) |-> <<i, 0>>]
    \o [k \in 1..Payload(i) |-> <<i, k>>]
Stream == [k \in 1..Greeting |-> <<0, 0>>] \o FlattenSeq([i \in 1..Len(Frames) |-> Frame(i)])

TypeOK ==
  /\ proto \in Protocols /\ pos \in 0..Len(Stream) /\ left \in 0..Len(Stream) /\ cap \in Caps
  /\ phase \in {"idle", "greeting", "header", "length", "body", "fill", "discard", "over"}
  /\ frame \in 0..Len(Frames) /\ buf \in Seq((0..Len(Frames)) \X Nat) /\ {greeted, headerErr} \subseteq BOOLEAN
  /\ result \in {"none", "ok", "dropped", "unresolved", "refused", "error"} /\ faults \in 0..Faults

Init ==
  /\ proto \in Protocols /\ pos = 0 /\ phase = "idle" /\ left = 0 /\ cap \in Caps /\ frame = 0 /\ buf = <<>>
  /\ greeted = (Greeting = 0) /\ headerErr = FALSE /\ result = "none" /\ faults = 0

Return(r) == phase' = (IF r = "error" THEN "over" ELSE "idle") /\ result' = r /\ left' = 0
Enter(p, n) == phase' = p /\ left' = n /\ UNCHANGED result

\* ReadFrom is called with a buffer; the opening header is read first.
Call ==
  /\ phase = "idle" /\ cap' \in Caps /\ buf' = <<>>
  /\ IF headerErr THEN Return("refused")
     ELSE IF greeted THEN Enter("header", HeadLen) ELSE Enter("greeting", Greeting)
  /\ UNCHANGED <<proto, pos, frame, greeted, headerErr, faults>>

\* One more unit arrives.
ReadUnit ==
  /\ left > 0 /\ pos < Len(Stream)
  /\ pos' = pos + 1 /\ left' = left - 1
  /\ frame' = IF phase = "header" THEN Stream[pos + 1][1] ELSE frame
  /\ buf' = IF phase \in {"body", "fill"} THEN Append(buf, Stream[pos + 1]) ELSE buf
  /\ UNCHANGED <<proto, phase, cap, greeted, headerErr, result, faults>>

\* Where ReadFrom goes after the length n of the payload.  vless and vision discard a datagram
\* that does not fit; trojanc and juicity fill the buffer first and discard the rest.
VlessFrame(n) == IF n > cap THEN Enter("discard", n) ELSE Enter("body", n)
VisionFrame(n) ==
  IF phase = "header"
  THEN IF Frames[frame] = NoData THEN Enter("header", HeadLen) ELSE Enter("length", 1)
  ELSE IF n > cap THEN Enter("discard", n) ELSE Enter("body", n)
TrojanFrameNoDrain(n) == IF n > cap THEN Return("dropped") ELSE Enter("body", n)
TrojanFrame(n) == IF n > cap THEN Enter("fill", cap) ELSE Enter("body", n)
JuicityFrame(n) == IF n > cap THEN Enter("fill", cap) ELSE Enter("body", n)

AfterHeader(n) ==
  CASE IsVless -> VlessFrame(n)
    [] proto = "vision" -> VisionFrame(n)
    [] proto \in {"trojanc", "trojancServer"} -> TrojanFrame(n)
    [] OTHER -> JuicityFrame(n)

Fills == proto \notin {"vless", "vlessServer", "vision"}

\* trojanc and juicity resolve the source of a frame they have consumed.
DomainIpMapping(r) == Return(r) \/ (Fills /\ Return("unresolved"))

\* What was asked for has been read.
Whole ==
  /\ left = 0 /\ phase \notin {"idle", "greeting", "over"}
  /\ CASE phase \in {"header", "length"} -> AfterHeader(Payload(frame))
       [] phase = "fill" -> Enter("discard", Payload(frame) - cap)
       [] phase = "discard" -> DomainIpMapping("dropped")
       [] phase = "body" -> DomainIpMapping("ok")
  /\ UNCHANGED <<proto, pos, cap, frame, buf, greeted, headerErr, faults>>

\* The opening header is complete: it is accepted, or it is not valid.
Greeted ==
  /\ phase = "greeting" /\ left = 0
  /\ \/ greeted' = TRUE /\ Enter("header", HeadLen) /\ UNCHANGED headerErr
     \/ headerErr' = TRUE /\ Return("refused") /\ UNCHANGED greeted
  /\ UNCHANGED <<proto, pos, cap, frame, buf, faults>>

\* The read of the next unit fails.  trojanc and juicity ignore it while they discard.
Fault ==
  /\ left > 0 /\ faults < Faults /\ faults' = faults + 1
  /\ IF phase = "greeting" THEN Return("refused") ELSE IF phase = "discard" /\ Fills THEN Return("dropped")
     ELSE Return("error")
  /\ headerErr' = (headerErr \/ phase = "greeting")
  /\ UNCHANGED <<proto, pos, cap, frame, buf, greeted>>

Next == Call \/ ReadUnit \/ Whole \/ Greeted \/ Fault

Spec == Init /\ [][Next]_vars

-----------------------------------------------------------------------------
(* Properties.                                                             *)

Boundary == pos < Len(Stream) => Stream[pos + 1][2] = 0 /\ (pos > 0 => Stream[pos][1] # Stream[pos + 1][1])

\* When a call returns and the caller goes on, the next call starts at the first unit of a
\* frame: whatever the size of the buffer and whether or not the source resolves.
NextCallIsAligned == phase = "idle" /\ result \in {"ok", "dropped", "unresolved"} => Boundary

\* A datagram returned as read is the whole payload of one frame and fits the buffer.
DatagramIsFrame ==
  phase = "idle" /\ result = "ok" =>
    buf = [k \in 1..Payload(frame) |-> <<frame, k>>] /\ Len(buf) <= cap

\* A connection whose opening header failed never takes the rest of it for a frame: a
\* frame header is read behind the whole opening header only.
NoFrameInHeader == phase \in {"header", "length", "body", "fill", "discard"} => pos >= Greeting
=============================================================================
