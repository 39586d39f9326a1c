---------------------------- MODULE StreamWrites ----------------------------
(***************************************************************************)
(* The request header of vless, trojanc, juicity and vision on the way     *)
(* out: it goes before the first frame, whoever writes first.  Several     *)
(* goroutines write under writeMutex, among them the ones that only flush  *)
(* the header: the timer of vless.NewConn, the first Read of trojanc and   *)
(* the handshake timer of vision.  A frame goes out in one or more writes  *)
(* of the underlying connection, each of which may fail.                   *)
(***************************************************************************)
EXTENDS Integers, Sequences, FiniteSets

CONSTANTS Protocols, \* of "vless", "trojanc", "juicity" and "vision"
          Writers,   \* goroutines that write datagrams
          Flushers,  \* goroutines that write the header alone
          Faults,    \* bound on the writes that fail
          Free

All == Writers \cup Flushers

VARIABLES
  proto,
  mutex,      \* writeMutex
  onceWrite,  \* onceWrite, or the negation of needHandshake
  pc,         \* per goroutine: "start", "write", "ok" or "failed"
  todo,       \* the pieces it has still to write: "header" or part numbers
  wire,       \* pieces written, with their writer
  faults

vars == <<proto, mutex, onceWrite, pc, todo, wire, faults>>

TypeOK ==
  /\ mutex \in All \cup {Free} /\ onceWrite \in BOOLEAN /\ faults \in 0..Faults
  /\ pc \in [All -> {"start", "write", "ok", "failed"}]
  /\ proto \in Protocols
  /\ \A w \in All : \A i \in 1..Len(todo[w]) : todo[w][i] \in 0..3
  /\ \A i \in 1..Len(wire) : wire[i] \in All \X (0..3)

Init ==
  /\ proto \in Protocols /\ mutex = Free /\ onceWrite = FALSE /\ pc = [w \in All |-> "start"] /\ todo = [w \in All |-> <<>>]
  /\ wire = <<>> /\ faults = 0

\* Piece 0 is the header, pieces 1, 2, 3 the frame: vless writes length and payload, vision
\* prefix, length and payload, trojanc and juicity a sealed frame.  A batch is one piece.
VlessWriteTo == <<1, 2>>
VlessWriteBatch == <<1>>
TrojanWriteTo == <<1>>
TrojanWriteBatch == <<1>>
JuicityWriteTo == <<1>>
JuicityWriteBatch == <<1>>
VisionWriteTo == <<1, 2, 3>>
VisionWriteBatch == <<1>>
Bodies ==
  CASE proto = "vless" -> {VlessWriteTo, VlessWriteBatch}
    [] proto = "trojanc" -> {TrojanWriteTo, TrojanWriteBatch}
    [] proto = "juicity" -> {JuicityWriteTo, JuicityWriteBatch}
    [] proto = "vision" -> {VisionWriteTo, VisionWriteBatch}

\* Vision clears needHandshake before it writes, the others set onceWrite after.
Early == proto = "vision"

\* The goroutine takes the lock and decides from onceWrite what it writes.
LockUnlocked(w) ==
  /\ pc[w] = "start" /\ pc' = [pc EXCEPT ![w] = "write"] /\ mutex' = mutex
  /\ \E body \in IF w \in Flushers THEN {<<>>} ELSE Bodies :
       todo' = [todo EXCEPT ![w] = (IF onceWrite THEN <<>> ELSE <<0>>) \o body]
  /\ onceWrite' = (onceWrite \/ Early)
  /\ UNCHANGED <<proto, wire, faults>>
Lock(w) ==
  /\ pc[w] = "start" /\ mutex = Free /\ mutex' = w /\ pc' = [pc EXCEPT ![w] = "write"]
  /\ \E body \in IF w \in Flushers THEN {<<>>} ELSE Bodies :
       todo' = [todo EXCEPT ![w] = (IF onceWrite THEN <<>> ELSE <<0>>) \o body]
  /\ onceWrite' = (onceWrite \/ Early)
  /\ UNCHANGED <<proto, wire, faults>>

\* One piece is written.  The header and the first part of the frame go through one
\* net.Buffers, so onceWrite is set with the part, or with a header that goes alone.
WritePiece(w) ==
  /\ pc[w] = "write" /\ todo[w] # <<>>
  /\ wire' = Append(wire, <<w, Head(todo[w])>>) /\ todo' = [todo EXCEPT ![w] = Tail(@)]
  /\ onceWrite' = (onceWrite \/ Head(todo[w]) = 1 \/ Len(todo[w]) = 1)
  /\ UNCHANGED <<proto, mutex, pc, faults>>

Unlock(w) ==
  /\ pc[w] = "write" /\ todo[w] = <<>>
  /\ pc' = [pc EXCEPT ![w] = "ok"] /\ mutex' = Free
  /\ UNCHANGED <<proto, onceWrite, todo, wire, faults>>

\* A write fails before anything left; the call returns its error.
WriteFails(w) ==
  /\ pc[w] = "write" /\ todo[w] # <<>> /\ faults < Faults /\ faults' = faults + 1
  /\ pc' = [pc EXCEPT ![w] = "failed"] /\ mutex' = Free /\ todo' = [todo EXCEPT ![w] = <<>>]
  /\ UNCHANGED <<proto, onceWrite, wire>>

Next == \E w \in All : Lock(w) \/ WritePiece(w) \/ Unlock(w) \/ WriteFails(w)

Spec == Init /\ [][Next]_vars

-----------------------------------------------------------------------------
(* Properties.                                                             *)

\* Until a write fails, the wire holds the header once and first, and then whole frames,
\* not torn by each other or by the goroutines that flush the header.
WireIsFramed ==
  faults = 0 =>
    \A i \in 1..Len(wire) :
      /\ wire[i][2] = 0 <=> i = 1
      /\ wire[i][2] > 1 => wire[i-1] = <<wire[i][1], wire[i][2] - 1>>

\* A datagram whose write returned success has a complete header somewhere before it, also
\* after another write has failed.  Vision gives this up: it clears needHandshake first.
HeaderBeforeData ==
  proto # "vision" => \A w \in Writers : pc[w] = "ok" =>
    \E i, j \in 1..Len(wire) : wire[i][2] = 0 /\ wire[j] = <<w, 1>> /\ i < j
=============================================================================
