----------------------------- MODULE AnytlsStream -----------------------------
(***************************************************************************)
(* One stream of an AnyTLS session (protocol/anytls/stream.go) and the     *)
(* read loop that feeds it (session.go): chunks in pooled buffers pass     *)
(* from the loop through a bounded channel to Read; the stream is closed   *)
(* by the application, the peer or the session; writes, CloseWrite and     *)
(* Close share the sending side; read deadlines wake a waiting Read.       *)
(*                                                                         *)
(* A chunk is its arrival number and has ChunkLen bytes, which a Read may  *)
(* take in parts.  The frames of this stream are listed as they are        *)
(* written.                                                                *)
(***************************************************************************)
EXTENDS Integers, Sequences, TLAPS

CONSTANTS
  Chunks,      \* bound: PSH frames that arrive
  ChunkLen,
  Cap,         \* capacity of inbound
  MaxWrites,   \* bound: Writes
  MaxDeadlines,\* bound: calls of SetReadDeadline
  HalfClose,   \* bound: whether the application calls CloseWrite
  Packet,      \* whether the stream is a packetStream, whose WriteTo looks at closed only
  None

App == "app"   \* the application as closer
Run == "run"   \* the read loop as closer
Closers == {App, Run}

VARIABLES
  arrived, run, inRun,          \* session.run
  inbound, readBuf, left,       \* the channel, the chunk being read and its bytes left
  reader,                       \* Read
  closed, closeErr, done, inMap,\* stream.closed, its error, session.done, streams[id]
  sesStep,                      \* session.Close: "no", "take", "mark", "end"
  close, first,                 \* closeLocal, and whether its markClosed was the first
  writer, half, writeMu,        \* Write, CloseWrite; writeMutex
  writeClosed, wire, writes,
  deadline, changed, sets, setter,\* readDeadline, deadlineChanged, calls and pc of SetReadDeadline
  put, got, ended               \* buffers put back; bytes read, by chunk; the error Read returned

runVars   == <<arrived, run, inRun>>
readVars  == <<reader, readBuf, left, got, ended>>
lifeVars  == <<closed, closeErr, done, inMap, sesStep>>
closeVars == <<close, first>>
writeVars == <<writer, half, writeMu, writeClosed, wire, writes>>
dlVars    == <<deadline, changed, sets, setter>>
vars == <<runVars, inbound, readVars, lifeVars, closeVars, writeVars, dlVars, put>>

Msgs == 1..Chunks

TypeOK ==
  /\ arrived \in 0..Chunks
  /\ run \in {"read", "look", "enter", "send", "fin", "remove", "synack", "close", "end"}
  /\ inRun \in Msgs \cup {None} /\ readBuf \in Msgs \cup {None} /\ left \in 0..ChunkLen
  /\ inbound \in Seq(Msgs) /\ Len(inbound) <= Cap
  /\ reader \in {"idle", "lock", "poll", "sync", "arm", "park", "timed"}
  /\ closed \in BOOLEAN /\ done \in BOOLEAN /\ inMap \in BOOLEAN /\ writeClosed \in BOOLEAN
  /\ closeErr \in {None, "eof", "closed"} /\ ended \in {None, "eof", "closed", "deadline"}
  /\ sesStep \in {"no", "take", "mark", "end"}
  /\ close \in [Closers -> {"no", "enqueued", "read", "fin", "remove", "done"}]
  /\ first \in [Closers -> BOOLEAN]
  /\ writer \in {"idle", "lock", "write"} /\ half \in {"no", "swap", "lock", "done"}
  /\ writeMu \in BOOLEAN
  /\ wire \in Seq({"PSH", "FIN"})
  /\ deadline \in {None, "past", "later"} /\ changed \in BOOLEAN
  /\ put \subseteq Msgs
  /\ got \in Seq(Msgs)

Init ==
  /\ arrived = 0 /\ run = "read" /\ inRun = None
  /\ inbound = <<>> /\ readBuf = None /\ left = 0
  /\ reader = "idle"
  /\ closed = FALSE /\ closeErr = None /\ done = FALSE /\ inMap = TRUE /\ sesStep = "no"
  /\ close = [g \in Closers |-> "no"] /\ first = [g \in Closers |-> FALSE]
  /\ writer = "idle" /\ half = "no" /\ writeMu = FALSE
  /\ writeClosed = FALSE /\ wire = <<>> /\ writes = 0
  /\ deadline = None /\ changed = FALSE /\ sets = 0 /\ setter = "idle"
  /\ put = {} /\ got = <<>> /\ ended = None

\* writeFrame: the frame is written, or the write fails.
Send(f) == wire' \in {wire, Append(wire, f)}

Put(ms) == put' = put \cup ms
\* readMutex is held from the lock to the return of Read.
ReadMutexHeld == reader \in {"poll", "sync", "arm", "park", "timed"}

Range(s) == {s[i] : i \in 1..Len(s)}

\* markClosed.
Mark(err) ==
  /\ closed' = TRUE
  /\ closeErr' = IF closed THEN closeErr ELSE err

-----------------------------------------------------------------------------
(* session.run and enqueue                                                 *)

RunPSH ==
  /\ run = "read" /\ arrived < Chunks
  /\ arrived' = arrived + 1
  /\ inRun' = arrived + 1
  /\ run' = "look"
  /\ UNCHANGED <<inbound, readVars, lifeVars, closeVars, writeVars, dlVars, put>>

RunLook ==
  /\ run = "look"
  /\ IF inMap
     THEN run' = "enter" /\ UNCHANGED <<inRun, put>>
     ELSE run' = "read" /\ inRun' = None /\ Put({inRun})
  /\ UNCHANGED <<arrived, inbound, readVars, lifeVars, closeVars, writeVars, dlVars>>

\* enqueue up to its first select, with enqueueMu read-locked from here on.
RunEnter ==
  /\ run = "enter"
  /\ IF closed \/ done
     THEN run' = (IF closed THEN "read" ELSE "end") /\ inRun' = None /\ Put({inRun})
     ELSE run' = "send" /\ UNCHANGED <<inRun, put>>
  /\ UNCHANGED <<arrived, inbound, readVars, lifeVars, closeVars, writeVars, dlVars>>

\* Mutant of RunSend: a full channel is waited for and nothing else.
RunSendDeaf ==
  /\ run = "send"
  /\ Len(inbound) < Cap
  /\ inRun' = None
  /\ inbound' = Append(inbound, inRun)
  /\ run' = "read"
  /\ UNCHANGED <<arrived, readVars, lifeVars, closeVars, writeVars, dlVars, put>>

RunSend ==
  /\ run = "send"
  /\ inRun' = None
  /\ \/ Len(inbound) < Cap /\ inbound' = Append(inbound, inRun) /\ run' = "read" /\ UNCHANGED put
     \/ closed /\ Put({inRun}) /\ run' = "read" /\ UNCHANGED inbound
     \/ done /\ Put({inRun}) /\ run' = "end" /\ UNCHANGED inbound
  /\ UNCHANGED <<arrived, readVars, lifeVars, closeVars, writeVars, dlVars>>

\* A FIN of the peer, or a SYNACK that carries an error: the stream is looked up.
RunControl ==
  /\ run = "read" /\ inMap
  /\ run' \in {"fin", "synack"}
  /\ UNCHANGED <<arrived, inRun, inbound, readVars, lifeVars, closeVars, writeVars, dlVars, put>>

RemoteClose ==
  /\ run = "fin"
  /\ Mark("eof")
  /\ run' = "remove"
  /\ UNCHANGED <<arrived, inRun, inbound, readVars, done, inMap, sesStep, closeVars, writeVars, dlVars, put>>

RunRemove ==
  /\ run = "remove"
  /\ inMap' = FALSE
  /\ run' = "read"
  /\ UNCHANGED <<arrived, inRun, inbound, readVars, closed, closeErr, done, sesStep, closeVars, writeVars,
                 dlVars, put>>

\* The loop itself closes the stream.
RunCloses ==
  /\ run = "synack"
  /\ run' = "close"
  /\ Mark("closed")
  /\ close' = [close EXCEPT ![Run] = "enqueued"]
  /\ first' = [first EXCEPT ![Run] = ~closed]
  /\ UNCHANGED <<arrived, inRun, inbound, readVars, done, inMap, sesStep, writeVars, dlVars, put>>

\* The loop meets the closed session.
RunEnds ==
  /\ run = "read" /\ done
  /\ run' = "end"
  /\ UNCHANGED <<arrived, inRun, inbound, readVars, lifeVars, closeVars, writeVars, dlVars, put>>

\* session.Close: done, then the streams are taken from the map and marked.
SessionDone ==
  /\ sesStep = "no"
  /\ done' = TRUE
  /\ sesStep' = "take"
  /\ UNCHANGED <<runVars, inbound, readVars, closed, closeErr, inMap, closeVars, writeVars, dlVars, put>>

SessionTakes ==
  /\ sesStep = "take"
  /\ inMap' = FALSE
  /\ sesStep' = IF inMap THEN "mark" ELSE "end"
  /\ UNCHANGED <<runVars, inbound, readVars, closed, closeErr, done, closeVars, writeVars, dlVars, put>>

SessionMarks ==
  /\ sesStep = "mark"
  /\ Mark("closed")
  /\ sesStep' = "end"
  /\ UNCHANGED <<runVars, inbound, readVars, done, inMap, closeVars, writeVars, dlVars, put>>

-----------------------------------------------------------------------------
(* Read                                                                    *)

Read ==
  /\ reader = "idle"
  /\ reader' = "lock"
  /\ UNCHANGED <<runVars, inbound, readBuf, left, got, ended, lifeVars, closeVars, writeVars, dlVars,
                 put>>

\* n bytes of the chunk are copied; an empty one goes back to the pool.
Copy(m, len) ==
  \E n \in 1..len :
    /\ got' = got \o [i \in 1..n |-> m]
    /\ left' = len - n
    /\ readBuf' = IF n = len THEN None ELSE m
    /\ IF n = len THEN Put({m}) ELSE UNCHANGED put
    /\ reader' = "idle" /\ ended' = None

ReadLock ==
  /\ reader = "lock"
  /\ IF readBuf # None
     THEN Copy(readBuf, left)
     ELSE reader' = "poll" /\ UNCHANGED <<readBuf, left, got, ended, put>>
  /\ UNCHANGED <<runVars, inbound, lifeVars, closeVars, writeVars, dlVars>>

ReadTake ==
  /\ reader \in {"poll", "sync", "park", "timed"}
  /\ reader = "sync" => run # "send"
  /\ inbound # <<>>
  /\ inbound' = Tail(inbound)
  /\ Copy(Head(inbound), ChunkLen)
  /\ UNCHANGED <<runVars, lifeVars, closeVars, writeVars, dlVars>>

ReadEnds(err) ==
  /\ reader' = "idle" /\ ended' = err
  /\ UNCHANGED <<readBuf, left, got>>

\* Mutant of ReadPoll: a closed stream ends the Read without a second look.
ReadPollHasty ==
  /\ reader = "poll" /\ inbound = <<>>
  /\ IF closed
     THEN ReadEnds(closeErr)
     ELSE reader' = "arm" /\ UNCHANGED <<readBuf, left, got, ended>>
  /\ UNCHANGED <<runVars, inbound, lifeVars, closeVars, writeVars, dlVars, put>>

\* Nothing queued: a closed stream sends Read through enqueueMu first.
ReadPoll ==
  /\ reader = "poll" /\ inbound = <<>>
  /\ reader' = IF closed THEN "sync" ELSE "arm"
  /\ UNCHANGED <<runVars, inbound, readBuf, left, got, ended, lifeVars, closeVars, writeVars, dlVars,
                 put>>

ReadSync ==
  /\ reader = "sync" /\ run # "send" /\ inbound = <<>>
  /\ ReadEnds(closeErr)
  /\ UNCHANGED <<runVars, inbound, lifeVars, closeVars, writeVars, dlVars, put>>

\* The deadline is read; one that passed ends the Read.
ReadArm ==
  /\ reader = "arm"
  /\ IF deadline = "past"
     THEN ReadEnds("deadline")
     ELSE reader' = (IF deadline = None THEN "park" ELSE "timed") /\ UNCHANGED <<readBuf, left, got, ended>>
  /\ UNCHANGED <<runVars, inbound, lifeVars, closeVars, writeVars, dlVars, put>>

\* The timer of a deadline that was ahead fires.
ReadExpires ==
  /\ reader = "timed"
  /\ ReadEnds("deadline")
  /\ UNCHANGED <<runVars, inbound, lifeVars, closeVars, writeVars, dlVars, put>>

ReadWakes ==
  /\ reader \in {"park", "timed"}
  /\ \/ closed /\ UNCHANGED changed
     \/ changed /\ changed' = FALSE
  /\ reader' = "poll"
  /\ UNCHANGED <<runVars, inbound, readBuf, left, got, ended, lifeVars, closeVars, writeVars,
                 deadline, sets, setter, put>>

\* SetReadDeadline: the store, and then the token.
SetDeadline(d) ==
  /\ setter = "idle" /\ sets < MaxDeadlines
  /\ deadline' = d
  /\ sets' = sets + 1
  /\ setter' = "notify"
  /\ UNCHANGED <<runVars, inbound, readVars, lifeVars, closeVars, writeVars, changed, put>>

Notify ==
  /\ setter = "notify"
  /\ changed' = TRUE
  /\ setter' = "idle"
  /\ UNCHANGED <<runVars, inbound, readVars, lifeVars, closeVars, writeVars, deadline, sets, put>>

-----------------------------------------------------------------------------
(* closeLocal                                                              *)

Close ==
  /\ close[App] = "no"
  /\ Mark("closed")
  /\ close' = [close EXCEPT ![App] = "enqueued"]
  /\ first' = [first EXCEPT ![App] = ~closed]
  /\ UNCHANGED <<runVars, inbound, readVars, done, inMap, sesStep, writeVars, dlVars, put>>

CloseSync(g) ==
  /\ close[g] = "enqueued" /\ run # "send"
  /\ close' = [close EXCEPT ![g] = "read"]
  /\ UNCHANGED <<runVars, inbound, readVars, lifeVars, first, writeVars, dlVars, put>>

\* readMutex, and the buffers of the reader and the channel put back.
CloseDrain(g) ==
  /\ close[g] = "read" /\ ~ReadMutexHeld
  /\ close' = [close EXCEPT ![g] = IF first[g] THEN "fin" ELSE "remove"]
  /\ readBuf' = None /\ left' = 0
  /\ inbound' = <<>>
  /\ Put(Range(inbound) \cup ({readBuf} \ {None}))
  /\ UNCHANGED <<runVars, reader, got, ended, lifeVars, first, writeVars, dlVars>>

CloseFIN(g) ==
  /\ close[g] = "fin" /\ ~writeMu
  /\ writeClosed' = TRUE
  /\ IF writeClosed \/ done THEN UNCHANGED wire ELSE Send("FIN")
  /\ close' = [close EXCEPT ![g] = "remove"]
  /\ UNCHANGED <<runVars, inbound, readVars, lifeVars, first, writer, half, writeMu, writes, dlVars, put>>

CloseRemove(g) ==
  /\ close[g] = "remove"
  /\ inMap' = FALSE
  /\ close' = [close EXCEPT ![g] = "done"]
  /\ run' = IF g = Run THEN "read" ELSE run
  /\ UNCHANGED <<arrived, inRun, inbound, readVars, closed, closeErr, done, sesStep, first, writeVars, dlVars,
                 put>>

-----------------------------------------------------------------------------
(* Write and CloseWrite                                                    *)

Write ==
  /\ writer = "idle" /\ writes < MaxWrites
  /\ ~closed /\ (~Packet => ~writeClosed)
  /\ writes' = writes + 1
  /\ writer' = "lock"
  /\ UNCHANGED <<runVars, inbound, readVars, lifeVars, closeVars, half, writeMu, writeClosed, wire, dlVars, put>>

\* Mutant of WriteLock: no second look under writeMutex.
WriteLockUnchecked ==
  /\ writer = "lock" /\ ~writeMu
  /\ writer' = "write" /\ writeMu' = TRUE
  /\ UNCHANGED <<runVars, inbound, readVars, lifeVars, closeVars, half, writeClosed, wire, writes, dlVars, put>>

WriteLock ==
  /\ writer = "lock" /\ ~writeMu
  /\ IF closed \/ (~Packet /\ writeClosed)
     THEN writer' = "idle" /\ UNCHANGED writeMu
     ELSE writer' = "write" /\ writeMu' = TRUE
  /\ UNCHANGED <<runVars, inbound, readVars, lifeVars, closeVars, half, writeClosed, wire, writes, dlVars, put>>

WriteFrame ==
  /\ writer = "write"
  /\ Send("PSH")
  /\ writer' = "idle" /\ writeMu' = FALSE
  /\ UNCHANGED <<runVars, inbound, readVars, lifeVars, closeVars, half, writeClosed, writes, dlVars, put>>

CloseWrite ==
  /\ half = "no" /\ HalfClose /\ ~closed
  /\ half' = "swap"
  /\ UNCHANGED <<runVars, inbound, readVars, lifeVars, closeVars, writer, writeMu, writeClosed, wire, writes,
                 dlVars, put>>

CloseWriteSwap ==
  /\ half = "swap"
  /\ writeClosed' = TRUE
  /\ half' = IF writeClosed THEN "done" ELSE "lock"
  /\ UNCHANGED <<runVars, inbound, readVars, lifeVars, closeVars, writer, writeMu, wire, writes, dlVars, put>>

CloseWriteFIN ==
  /\ half = "lock" /\ ~writeMu
  /\ IF done THEN UNCHANGED wire ELSE Send("FIN")
  /\ half' = "done"
  /\ UNCHANGED <<runVars, inbound, readVars, lifeVars, closeVars, writer, writeMu, writeClosed, writes, dlVars,
                 put>>

-----------------------------------------------------------------------------
RunStep == RunLook \/ RunEnter \/ RunSend \/ RemoteClose \/ RunRemove \/ RunCloses \/ RunEnds
ReadStep == ReadLock \/ ReadTake \/ ReadPoll \/ ReadSync \/ ReadArm \/ ReadWakes \/ ReadExpires
CloseStep(g) == CloseSync(g) \/ CloseDrain(g) \/ CloseFIN(g) \/ CloseRemove(g)
WriteStep == WriteLock \/ WriteFrame
HalfStep == CloseWriteSwap \/ CloseWriteFIN

Next ==
  \/ RunPSH \/ RunControl \/ RunStep
  \/ SessionDone \/ SessionTakes \/ SessionMarks
  \/ Read \/ ReadStep
  \/ \E d \in {None, "past", "later"} : SetDeadline(d)
  \/ Notify
  \/ Close \/ \E g \in Closers : CloseStep(g)
  \/ Write \/ WriteStep \/ CloseWrite \/ HalfStep

Spec == Init /\ [][Next]_vars

-----------------------------------------------------------------------------
(* Who answers for the buffer of chunk m: the peer until the loop reads it, *)
(* the loop, the channel, the reader or the pool.                          *)
Places == {"peer", "loop", "channel", "reader", "pool"}
\* Place p has chunk m.
Owns(p, m) ==
  \/ p = "peer" /\ m > arrived
  \/ p = "loop" /\ m = inRun
  \/ p = "channel" /\ m \in Range(inbound)
  \/ p = "reader" /\ m = readBuf
  \/ p = "pool" /\ m \in put

\* Every chunk is at one place.
OneOwner == \A m \in Msgs : \E p \in Places : \A q \in Places : Owns(q, m) <=> q = p

(* A pooled buffer has one owner: no path of enqueue, Read or Close puts   *)
(* it back twice or loses it.                                              *)
BufferHasOneOwner ==
  /\ OneOwner
  /\ \A i, j \in 1..Len(inbound) : inbound[i] = inbound[j] => i = j

(* Read delivers the chunks in order and complete: byte i that was read is *)
(* of the chunk that has byte i of the stream.  Nothing is skipped,        *)
(* whatever is closed meanwhile.                                           *)
ReadInOrder == \A i \in 1..Len(got) : (got[i] - 1) * ChunkLen < i /\ i <= got[i] * ChunkLen

(* A Read that reports the end of the stream leaves nothing behind it: no  *)
(* chunk is in the channel or still gets there (the turn through enqueueMu *)
(* in nextChunkLocked).                                                    *)
EndIsFinal == ended \in {"eof", "closed"} => inbound = <<>> /\ run # "send"

(* After a local Close nothing is left in a buffer nobody will read        *)
(* (closeLocal waits for the enqueues admitted before it drains).          *)
CloseLeavesNothing == (\E g \in Closers : close[g] = "done") => inbound = <<>> /\ readBuf = None

(* A FIN is the last frame of the stream and there is one at most, for     *)
(* every race of Write, CloseWrite and Close.                              *)
FINIsLast == \A i \in 1..Len(wire) - 1 : wire[i] # "FIN"

(* A Close returns: neither a blocked enqueue nor a blocked Read keeps it. *)
CloseReturns == \A g \in Closers : close[g] = "enqueued" ~> close[g] = "done"

(* A Read whose deadline is set to the past returns, wherever it was: the  *)
(* token of SetReadDeadline reaches a Read that was waiting already.       *)
DeadlineEndsRead == (reader # "idle" /\ deadline = "past") ~> (reader = "idle" \/ deadline # "past")

-----------------------------------------------------------------------------
(* Proofs about AnytlsStream, for any number of chunks, writes and         *)
(* deadlines and any capacity of the channel: what is left behind the end  *)
(* of a stream and behind a Close, and that a FIN is the last frame.       *)

\* What the proofs assume of the constants.  A packetStream is not half-closed:
\* netproxy.PacketConn has no CloseWrite, and its WriteTo would not notice one.
Setting ==
  /\ Chunks \in Nat /\ ChunkLen \in Nat /\ Cap \in Nat
  /\ HalfClose \in BOOLEAN /\ Packet \in BOOLEAN
  /\ ~(HalfClose /\ Packet)
  /\ None \notin Msgs /\ None \notin {"eof", "closed"}

-----------------------------------------------------------------------------
(* The inductive invariant                                                 *)

\* Whoever is under way with a chunk has one.
LoopHasChunk == run \in {"look", "enter", "send"} => inRun \in Msgs

\* closed is set before anybody acts on it.
ClosedFirst ==
  /\ reader = "sync" => closed
  /\ ended \in {"eof", "closed"} => closed
  /\ \A g \in Closers : close[g] # "no" => closed

\* Past the turn through enqueueMu no enqueue is left that was admitted before
\* the close, and past the drain there is nothing to read.
NothingBehindTheEnd ==
  /\ ended \in {"eof", "closed"} => inbound = <<>> /\ run # "send"
  /\ \A g \in Closers : close[g] \in {"read", "fin", "remove", "done"} => run # "send"
  /\ \A g \in Closers :
       close[g] \in {"fin", "remove", "done"} => inbound = <<>> /\ readBuf = None

HasFIN == \E i \in 1..Len(wire) : wire[i] = "FIN"

\* writeClosed is swapped before a FIN is sent, and writeMutex keeps the writer
\* away that looked before the swap.
OneFIN ==
  /\ writer = "write" <=> writeMu
  /\ half = "lock" => writeClosed
  /\ half # "no" => HalfClose
  /\ HasFIN => writeClosed /\ half # "lock" /\ writer # "write" /\ (Packet => closed)
  /\ FINIsLast

\* TypeOK, a group of variables at a time.
RunTyped ==
  /\ arrived \in 0..Chunks
  /\ run \in {"read", "look", "enter", "send", "fin", "remove", "synack", "close", "end"}
  /\ inRun \in Msgs \cup {None}
InTyped == inbound \in Seq(Msgs) /\ Len(inbound) <= Cap
ReadTyped ==
  /\ reader \in {"idle", "lock", "poll", "sync", "arm", "park", "timed"}
  /\ readBuf \in Msgs \cup {None} /\ left \in 0..ChunkLen
  /\ got \in Seq(Msgs)
  /\ ended \in {None, "eof", "closed", "deadline"}
LifeTyped ==
  /\ closed \in BOOLEAN /\ done \in BOOLEAN /\ inMap \in BOOLEAN
  /\ closeErr \in {None, "eof", "closed"}
  /\ sesStep \in {"no", "take", "mark", "end"}
CloseTyped ==
  /\ close \in [Closers -> {"no", "enqueued", "read", "fin", "remove", "done"}]
  /\ first \in [Closers -> BOOLEAN]
WriteTyped ==
  /\ writer \in {"idle", "lock", "write"} /\ half \in {"no", "swap", "lock", "done"}
  /\ writeMu \in BOOLEAN /\ writeClosed \in BOOLEAN
  /\ wire \in Seq({"PSH", "FIN"})
DeadlineTyped == deadline \in {None, "past", "later"} /\ changed \in BOOLEAN
PutTyped == put \subseteq Msgs

StreamInv ==
  /\ RunTyped /\ InTyped /\ ReadTyped /\ LifeTyped /\ CloseTyped /\ WriteTyped /\ DeadlineTyped /\ PutTyped
  /\ LoopHasChunk
  /\ ClosedFirst
  /\ NothingBehindTheEnd
  /\ OneFIN

-----------------------------------------------------------------------------
(* Lemmas about the operators                                              *)

\* What a step leaves alone of the invariant.
LEMMA Frames ==
  ASSUME StreamInv
  PROVE  /\ UNCHANGED runVars => RunTyped'
         /\ UNCHANGED inbound => InTyped'
         /\ UNCHANGED readVars => ReadTyped'
         /\ UNCHANGED lifeVars => LifeTyped'
         /\ UNCHANGED closeVars => CloseTyped'
         /\ UNCHANGED writeVars => WriteTyped'
         /\ UNCHANGED dlVars => DeadlineTyped'
         /\ UNCHANGED put => PutTyped'
         /\ UNCHANGED <<run, inRun>> => LoopHasChunk'
         /\ UNCHANGED <<reader, ended, closed, close>> => ClosedFirst'
         /\ UNCHANGED <<ended, inbound, run, close, readBuf>> => NothingBehindTheEnd'
         /\ UNCHANGED <<writer, half, writeMu, writeClosed, wire, closed>> => OneFIN'
<1> USE DEF StreamInv
<1>1. UNCHANGED runVars => RunTyped'
  BY Zenon DEF RunTyped, runVars
<1>2. UNCHANGED inbound => InTyped'
  BY Zenon DEF InTyped
<1>3. UNCHANGED readVars => ReadTyped'
  BY Zenon DEF ReadTyped, readVars
<1>4. UNCHANGED lifeVars => LifeTyped'
  BY Zenon DEF LifeTyped, lifeVars
<1>5. UNCHANGED closeVars => CloseTyped'
  BY Zenon DEF CloseTyped, closeVars
<1>6. UNCHANGED writeVars => WriteTyped'
  BY Zenon DEF WriteTyped, writeVars
<1>7. UNCHANGED dlVars => DeadlineTyped'
  BY Zenon DEF DeadlineTyped, dlVars
<1>8. UNCHANGED put => PutTyped'
  BY Zenon DEF PutTyped
<1>9. UNCHANGED <<run, inRun>> => LoopHasChunk'
  BY Zenon DEF LoopHasChunk
<1>10. UNCHANGED <<reader, ended, closed, close>> => ClosedFirst'
  BY DEF ClosedFirst
<1>11. UNCHANGED <<ended, inbound, run, close, readBuf>> => NothingBehindTheEnd'
  BY Zenon DEF NothingBehindTheEnd
<1>12. UNCHANGED <<writer, half, writeMu, writeClosed, wire, closed>> => OneFIN'
  BY DEF OneFIN, HasFIN, FINIsLast
<1> QED
  BY <1>1, <1>2, <1>3, <1>4, <1>5, <1>6, <1>7, <1>8, <1>9, <1>10, <1>11, <1>12, Zenon

\* The channel: what a receive takes and leaves, and what a drain takes.
LEMMA ChannelTypes ==
  ASSUME NEW S, NEW q \in Seq(S)
  PROVE  /\ Range(q) \subseteq S
         /\ <<>> \in Seq(S) /\ Len(<<>>) = 0 /\ Len(q) \in Nat
         /\ q # <<>> => Head(q) \in S /\ Tail(q) \in Seq(S) /\ Len(Tail(q)) = Len(q) - 1
BY DEF Range

\* A copy out of a chunk takes bytes of that chunk.
LEMMA CopyKeepsTypes ==
  ASSUME Setting, StreamInv, NEW m \in Msgs, NEW len \in 0..ChunkLen, Copy(m, len)
  PROVE  ReadTyped' /\ PutTyped'
<1>1. PICK n \in 1..len : /\ got' = got \o [i \in 1..n |-> m]
                          /\ left' = len - n
                          /\ readBuf' = IF n = len THEN None ELSE m
                          /\ IF n = len THEN Put({m}) ELSE UNCHANGED put
                          /\ reader' = "idle" /\ ended' = None
  BY Zenon DEF Copy
<1>2. [i \in 1..n |-> m] \in Seq(Msgs)
  BY DEF Setting
<1>3. got' \in Seq(Msgs)
  BY <1>1, <1>2 DEF StreamInv, ReadTyped
<1>4. PutTyped'
  BY <1>1, Zenon DEF StreamInv, PutTyped, Put
<1>5. left' \in 0..ChunkLen /\ readBuf' \in Msgs \cup {None}
  BY <1>1 DEF Setting
<1> QED
  BY <1>1, <1>3, <1>4, <1>5, Zenon DEF ReadTyped

\* Frames are all that is on the wire.
LEMMA SendKeepsType ==
  ASSUME wire \in Seq({"PSH", "FIN"}), NEW f \in {"PSH", "FIN"}, Send(f)
  PROVE  wire' \in Seq({"PSH", "FIN"})
<1>1. Append(wire, f) \in Seq({"PSH", "FIN"})
  OBVIOUS
<1> QED
  BY <1>1, Zenon DEF Send

\* A frame sent on a stream without a FIN is the only one that can be a FIN.
LEMMA SendExtends ==
  ASSUME wire \in Seq({"PSH", "FIN"}), NEW f \in {"PSH", "FIN"}, Send(f), ~HasFIN
  PROVE  /\ wire' \in Seq({"PSH", "FIN"})
         /\ FINIsLast'
         /\ f = "PSH" => ~HasFIN'
<1>1. CASE wire' = wire
  BY <1>1 DEF HasFIN, FINIsLast
<1>2. CASE wire' = Append(wire, f)
  <2>1. /\ Len(wire') = Len(wire) + 1 /\ wire'[Len(wire) + 1] = f
        /\ \A i \in 1..Len(wire) : wire'[i] = wire[i]
        /\ wire' \in Seq({"PSH", "FIN"}) /\ Len(wire) \in Nat
    BY <1>2
  <2> QED
    BY <2>1 DEF HasFIN, FINIsLast
<1> QED
  BY <1>1, <1>2, Zenon DEF Send

-----------------------------------------------------------------------------
(* Every step preserves it                                                 *)

\* The read loop.  It enqueues nothing on a stream it finds closed.
LEMMA LoopSteps ==
  ASSUME Setting, StreamInv,
         RunPSH \/ RunLook \/ RunEnter \/ RunSend \/ RunControl \/ RemoteClose \/ RunRemove \/
         RunCloses \/ RunEnds
  PROVE  StreamInv'
<1> USE DEF StreamInv, runVars, readVars, lifeVars, closeVars, writeVars, dlVars
<1>1. CASE RunPSH
  <2>1. RunTyped'
    BY <1>1 DEF Setting, RunPSH, RunTyped, LoopHasChunk, Msgs
  <2>2. LoopHasChunk'
    BY <1>1 DEF Setting, RunPSH, LoopHasChunk, RunTyped, Msgs
  <2>3. NothingBehindTheEnd'
    BY <1>1, Zenon DEF Setting, RunPSH, NothingBehindTheEnd, CloseTyped, LoopHasChunk, ClosedFirst
  <2> QED
    BY <1>1, <2>1, <2>2, <2>3, Frames, Zenon DEF RunPSH
<1>2. CASE RunLook
  <2>1. RunTyped'
    BY <1>2, Zenon DEF Setting, RunLook, Put, RunTyped
  <2>2. PutTyped'
    BY <1>2, Zenon DEF RunLook, Put, PutTyped, LoopHasChunk, InTyped, ReadTyped
  <2>3. LoopHasChunk'
    BY <1>2, Zenon DEF RunLook, Put, LoopHasChunk, RunTyped
  <2>4. NothingBehindTheEnd'
    BY <1>2, Zenon DEF Setting, RunLook, Put, NothingBehindTheEnd, CloseTyped, LoopHasChunk,
           ClosedFirst
  <2> QED
    BY <1>2, <2>1, <2>2, <2>3, <2>4, Frames, Zenon DEF RunLook
<1>3. CASE RunEnter
  <2>1. RunTyped'
    BY <1>3, Zenon DEF Setting, RunEnter, Put, RunTyped
  <2>2. PutTyped'
    BY <1>3, Zenon DEF RunEnter, Put, PutTyped, LoopHasChunk, InTyped, ReadTyped
  <2>3. LoopHasChunk'
    BY <1>3, Zenon DEF RunEnter, Put, LoopHasChunk, RunTyped
  <2>4. NothingBehindTheEnd'
    BY <1>3, Zenon DEF Setting, RunEnter, Put, NothingBehindTheEnd, CloseTyped, LoopHasChunk,
           ClosedFirst
  <2> QED
    BY <1>3, <2>1, <2>2, <2>3, <2>4, Frames, Zenon DEF RunEnter
<1>4. CASE RunSend
  <2>1. RunTyped'
    BY <1>4, Zenon DEF Setting, RunSend, Put, RunTyped
  <2>2. InTyped'
    BY <1>4 DEF Setting, RunSend, Put, InTyped, LoopHasChunk, RunTyped
  <2>3. PutTyped'
    BY <1>4, Zenon DEF RunSend, Put, PutTyped, LoopHasChunk, InTyped, ReadTyped
  <2>4. LoopHasChunk'
    BY <1>4, Zenon DEF RunSend, Put, LoopHasChunk, RunTyped
  <2>5. NothingBehindTheEnd'
    BY <1>4, Zenon DEF Setting, RunSend, Put, NothingBehindTheEnd, CloseTyped, LoopHasChunk,
           ClosedFirst
  <2> QED
    BY <1>4, <2>1, <2>2, <2>3, <2>4, <2>5, Frames, Zenon DEF RunSend
<1>5. CASE RunControl
  <2>1. RunTyped'
    BY <1>5, Zenon DEF Setting, RunControl, RunTyped
  <2>2. LoopHasChunk'
    BY <1>5, Zenon DEF RunControl, LoopHasChunk, RunTyped
  <2>3. NothingBehindTheEnd'
    BY <1>5, Zenon DEF Setting, RunControl, NothingBehindTheEnd, CloseTyped, LoopHasChunk, ClosedFirst
  <2> QED
    BY <1>5, <2>1, <2>2, <2>3, Frames, Zenon DEF RunControl
<1>6. CASE RemoteClose
  <2>1. RunTyped'
    BY <1>6, Zenon DEF Setting, RemoteClose, Mark, RunTyped
  <2>2. LifeTyped'
    BY <1>6, Zenon DEF RemoteClose, Mark, LifeTyped
  <2>3. LoopHasChunk'
    BY <1>6, Zenon DEF RemoteClose, Mark, LoopHasChunk, RunTyped
  <2>4. ClosedFirst'
    BY <1>6, Zenon DEF Setting, RemoteClose, Mark, ClosedFirst, CloseTyped
  <2>5. NothingBehindTheEnd'
    BY <1>6, Zenon DEF Setting, RemoteClose, Mark, NothingBehindTheEnd, CloseTyped, LoopHasChunk,
           ClosedFirst
  <2>6. OneFIN'
    BY <1>6, Zenon DEF Setting, RemoteClose, Mark, OneFIN, HasFIN, FINIsLast, WriteTyped
  <2> QED
    BY <1>6, <2>1, <2>2, <2>3, <2>4, <2>5, <2>6, Frames, Zenon DEF RemoteClose, Mark
<1>7. CASE RunRemove
  <2>1. RunTyped'
    BY <1>7, Zenon DEF Setting, RunRemove, RunTyped
  <2>2. LifeTyped'
    BY <1>7, Zenon DEF RunRemove, LifeTyped
  <2>3. LoopHasChunk'
    BY <1>7, Zenon DEF RunRemove, LoopHasChunk, RunTyped
  <2>4. NothingBehindTheEnd'
    BY <1>7, Zenon DEF Setting, RunRemove, NothingBehindTheEnd, CloseTyped, LoopHasChunk, ClosedFirst
  <2> QED
    BY <1>7, <2>1, <2>2, <2>3, <2>4, Frames, Zenon DEF RunRemove
<1>8. CASE RunCloses
  <2>1. RunTyped'
    BY <1>8, Zenon DEF Setting, RunCloses, Mark, RunTyped
  <2>2. LifeTyped'
    BY <1>8, Zenon DEF RunCloses, Mark, LifeTyped
  <2>3. CloseTyped'
    BY <1>8, Zenon DEF RunCloses, Mark, CloseTyped, Closers, App, Run
  <2>4. LoopHasChunk'
    BY <1>8, Zenon DEF RunCloses, Mark, LoopHasChunk, RunTyped
  <2>5. ClosedFirst'
    BY <1>8, Zenon DEF Setting, RunCloses, Mark, ClosedFirst, CloseTyped, Closers, App, Run
  <2>6. NothingBehindTheEnd'
    BY <1>8, Zenon DEF Setting, RunCloses, Mark, NothingBehindTheEnd, CloseTyped, LoopHasChunk,
           ClosedFirst, Closers, App, Run
  <2>7. OneFIN'
    BY <1>8, Zenon DEF Setting, RunCloses, Mark, OneFIN, HasFIN, FINIsLast, WriteTyped
  <2> QED
    BY <1>8, <2>1, <2>2, <2>3, <2>4, <2>5, <2>6, <2>7, Frames, Zenon DEF RunCloses, Mark
<1>9. CASE RunEnds
  <2>1. RunTyped'
    BY <1>9, Zenon DEF Setting, RunEnds, RunTyped
  <2>2. LoopHasChunk'
    BY <1>9, Zenon DEF RunEnds, LoopHasChunk, RunTyped
  <2>3. NothingBehindTheEnd'
    BY <1>9, Zenon DEF Setting, RunEnds, NothingBehindTheEnd, CloseTyped, LoopHasChunk, ClosedFirst
  <2> QED
    BY <1>9, <2>1, <2>2, <2>3, Frames, Zenon DEF RunEnds
<1> QED
  BY <1>1, <1>2, <1>3, <1>4, <1>5, <1>6, <1>7, <1>8, <1>9, Zenon

\* session.Close.
LEMMA SessionSteps ==
  ASSUME Setting, StreamInv,
         SessionDone \/ SessionTakes \/ SessionMarks
  PROVE  StreamInv'
<1> USE DEF StreamInv, runVars, readVars, lifeVars, closeVars, writeVars, dlVars
<1>1. CASE SessionDone
  <2>1. LifeTyped'
    BY <1>1, Zenon DEF SessionDone, LifeTyped
  <2> QED
    BY <1>1, <2>1, Frames, Zenon DEF SessionDone
<1>2. CASE SessionTakes
  <2>1. LifeTyped'
    BY <1>2, Zenon DEF SessionTakes, LifeTyped
  <2> QED
    BY <1>2, <2>1, Frames, Zenon DEF SessionTakes
<1>3. CASE SessionMarks
  <2>1. LifeTyped'
    BY <1>3, Zenon DEF SessionMarks, Mark, LifeTyped
  <2>2. ClosedFirst'
    BY <1>3, Zenon DEF Setting, SessionMarks, Mark, ClosedFirst, CloseTyped
  <2>3. OneFIN'
    BY <1>3, Zenon DEF Setting, SessionMarks, Mark, OneFIN, HasFIN, FINIsLast, WriteTyped
  <2> QED
    BY <1>3, <2>1, <2>2, <2>3, Frames, Zenon DEF SessionMarks, Mark
<1> QED
  BY <1>1, <1>2, <1>3, Zenon

\* Read.  A Read that reports the end went through enqueueMu on a closed stream and
\* found the channel empty.
LEMMA ReadSteps ==
  ASSUME Setting, StreamInv,
         Read \/ ReadLock \/ ReadTake \/ ReadPoll \/ ReadSync \/ ReadArm \/ ReadWakes \/
         ReadExpires
  PROVE  StreamInv'
<1> USE DEF StreamInv, runVars, readVars, lifeVars, closeVars, writeVars, dlVars
<1>1. CASE Read
  <2>1. ReadTyped'
    BY <1>1, Zenon DEF Setting, Read, ReadTyped
  <2>2. ClosedFirst'
    BY <1>1, Zenon DEF Setting, Read, ClosedFirst, CloseTyped
  <2> QED
    BY <1>1, <2>1, <2>2, Frames, Zenon DEF Read
<1>2. CASE ReadLock
  <2>1. ReadTyped' /\ PutTyped'
    <3>1. CASE readBuf # None
      BY <1>2, <3>1, CopyKeepsTypes, Zenon DEF ReadLock, ReadTyped
    <3>2. CASE readBuf = None
      BY <1>2, <3>2, Zenon DEF ReadLock, ReadTyped, PutTyped
    <3> QED
      BY <3>1, <3>2, Zenon
  <2>2. ClosedFirst'
    BY <1>2, Zenon DEF Setting, ReadLock, Copy, ClosedFirst, CloseTyped
  <2>3. NothingBehindTheEnd'
    BY <1>2, Zenon DEF Setting, ReadLock, Copy, NothingBehindTheEnd, CloseTyped, LoopHasChunk,
           ClosedFirst
  <2> QED
    BY <1>2, <2>1, <2>2, <2>3, Frames, Zenon DEF ReadLock, Copy
<1>3. CASE ReadTake
  <2>1. InTyped'
    <3>1. inbound # <<>> /\ inbound' = Tail(inbound)
      BY <1>3, Zenon DEF ReadTake
    <3> QED
      BY <3>1, ChannelTypes DEF Setting, InTyped
  <2>2. ReadTyped' /\ PutTyped'
    <3>1. Head(inbound) \in Msgs /\ ChunkLen \in 0..ChunkLen /\ Copy(Head(inbound), ChunkLen)
      BY <1>3, ChannelTypes DEF Setting, ReadTake, InTyped
    <3> QED
      BY <3>1, CopyKeepsTypes, Zenon
  <2>3. ClosedFirst'
    BY <1>3, Zenon DEF Setting, ReadTake, Copy, ClosedFirst, CloseTyped
  <2>4. NothingBehindTheEnd'
    BY <1>3, Zenon DEF Setting, ReadTake, Copy, NothingBehindTheEnd, CloseTyped, LoopHasChunk,
           ClosedFirst
  <2> QED
    BY <1>3, <2>1, <2>2, <2>3, <2>4, Frames, Zenon DEF ReadTake, Copy
<1>4. CASE ReadPoll
  <2>1. ReadTyped'
    BY <1>4, Zenon DEF Setting, ReadPoll, ReadTyped
  <2>2. ClosedFirst'
    BY <1>4, Zenon DEF Setting, ReadPoll, ClosedFirst, CloseTyped
  <2> QED
    BY <1>4, <2>1, <2>2, Frames, Zenon DEF ReadPoll
<1>5. CASE ReadSync
  <2>1. ReadTyped'
    BY <1>5, Zenon DEF Setting, ReadSync, ReadEnds, ReadTyped, LifeTyped
  <2>2. ClosedFirst'
    BY <1>5, Zenon DEF Setting, ReadSync, ReadEnds, ClosedFirst, CloseTyped
  <2>3. NothingBehindTheEnd'
    BY <1>5, Zenon DEF Setting, ReadSync, ReadEnds, NothingBehindTheEnd, CloseTyped, LoopHasChunk,
           ClosedFirst
  <2> QED
    BY <1>5, <2>1, <2>2, <2>3, Frames, Zenon DEF ReadSync, ReadEnds
<1>6. CASE ReadArm
  <2>1. ReadTyped'
    BY <1>6, Zenon DEF Setting, ReadArm, ReadEnds, ReadTyped
  <2>2. ClosedFirst'
    BY <1>6, Zenon DEF Setting, ReadArm, ReadEnds, ClosedFirst, CloseTyped
  <2>3. NothingBehindTheEnd'
    BY <1>6, Zenon DEF Setting, ReadArm, ReadEnds, NothingBehindTheEnd, CloseTyped, LoopHasChunk,
           ClosedFirst
  <2> QED
    BY <1>6, <2>1, <2>2, <2>3, Frames, Zenon DEF ReadArm, ReadEnds
<1>7. CASE ReadWakes
  <2>1. ReadTyped'
    BY <1>7, Zenon DEF Setting, ReadWakes, ReadTyped
  <2>2. DeadlineTyped'
    BY <1>7, Zenon DEF ReadWakes, DeadlineTyped
  <2>3. ClosedFirst'
    BY <1>7, Zenon DEF Setting, ReadWakes, ClosedFirst, CloseTyped
  <2> QED
    BY <1>7, <2>1, <2>2, <2>3, Frames, Zenon DEF ReadWakes
<1>8. CASE ReadExpires
  <2>1. ReadTyped'
    BY <1>8, Zenon DEF Setting, ReadExpires, ReadEnds, ReadTyped
  <2>2. ClosedFirst'
    BY <1>8, Zenon DEF Setting, ReadExpires, ReadEnds, ClosedFirst, CloseTyped
  <2>3. NothingBehindTheEnd'
    BY <1>8, Zenon DEF Setting, ReadExpires, ReadEnds, NothingBehindTheEnd, CloseTyped, LoopHasChunk,
           ClosedFirst
  <2> QED
    BY <1>8, <2>1, <2>2, <2>3, Frames, Zenon DEF ReadExpires, ReadEnds
<1> QED
  BY <1>1, <1>2, <1>3, <1>4, <1>5, <1>6, <1>7, <1>8, Zenon

\* SetReadDeadline.
LEMMA DeadlineSteps ==
  ASSUME Setting, StreamInv,
         (\E d \in {None, "past", "later"} : SetDeadline(d)) \/ Notify
  PROVE  StreamInv'
<1> USE DEF StreamInv, runVars, readVars, lifeVars, closeVars, writeVars, dlVars
<1>1. CASE (\E d \in {None, "past", "later"} : SetDeadline(d))
  <2>1. DeadlineTyped'
    BY <1>1, Zenon DEF SetDeadline, DeadlineTyped
  <2> QED
    BY <1>1, <2>1, Frames, Zenon DEF SetDeadline
<1>2. CASE Notify
  <2>1. DeadlineTyped'
    BY <1>2, Zenon DEF Notify, DeadlineTyped
  <2> QED
    BY <1>2, <2>1, Frames, Zenon DEF Notify
<1> QED
  BY <1>1, <1>2, Zenon

\* Close.  The drain comes behind the enqueues admitted before it, the FIN behind
\* the Write that holds writeMutex.
LEMMA CloseSteps ==
  ASSUME Setting, StreamInv, NEW g \in Closers,
         Close \/ CloseSync(g) \/ CloseDrain(g) \/ CloseFIN(g) \/ CloseRemove(g)
  PROVE  StreamInv'
<1> USE DEF StreamInv, runVars, readVars, lifeVars, closeVars, writeVars, dlVars
<1>1. CASE Close
  <2>1. LifeTyped'
    BY <1>1, Zenon DEF Close, Mark, LifeTyped
  <2>2. CloseTyped'
    BY <1>1, Zenon DEF Close, Mark, CloseTyped, Closers, App, Run
  <2>3. ClosedFirst'
    BY <1>1, Zenon DEF Setting, Close, Mark, ClosedFirst, CloseTyped, Closers, App, Run
  <2>4. NothingBehindTheEnd'
    BY <1>1, Zenon DEF Setting, Close, Mark, NothingBehindTheEnd, CloseTyped, LoopHasChunk,
           ClosedFirst, Closers, App, Run
  <2>5. OneFIN'
    BY <1>1, Zenon DEF Setting, Close, Mark, OneFIN, HasFIN, FINIsLast, WriteTyped
  <2> QED
    BY <1>1, <2>1, <2>2, <2>3, <2>4, <2>5, Frames, Zenon DEF Close, Mark
<1>2. CASE CloseSync(g)
  <2>1. CloseTyped'
    BY <1>2, Zenon DEF CloseSync, CloseTyped, Closers, App, Run
  <2>2. ClosedFirst'
    BY <1>2, Zenon DEF Setting, CloseSync, ClosedFirst, CloseTyped, Closers, App, Run
  <2>3. NothingBehindTheEnd'
    BY <1>2, Zenon DEF Setting, CloseSync, NothingBehindTheEnd, CloseTyped, LoopHasChunk, ClosedFirst,
           Closers, App, Run
  <2> QED
    BY <1>2, <2>1, <2>2, <2>3, Frames, Zenon DEF CloseSync
<1>3. CASE CloseDrain(g)
  <2>1. InTyped'
    <3>1. inbound' = <<>>
      BY <1>3, Zenon DEF CloseDrain
    <3> QED
      BY <3>1, ChannelTypes DEF Setting, InTyped
  <2>2. ReadTyped'
    <3>1. UNCHANGED <<reader, got, ended>> /\ readBuf' = None /\ left' = 0
      BY <1>3, Zenon DEF CloseDrain
    <3> QED
      BY <3>1 DEF Setting, ReadTyped
  <2>3. CloseTyped'
    BY <1>3, Zenon DEF CloseDrain, CloseTyped, Closers, App, Run
  <2>4. PutTyped'
    <3>1. put' = put \cup Range(inbound) \cup ({readBuf} \ {None})
      BY <1>3, Zenon DEF CloseDrain, Put
    <3>2. Range(inbound) \subseteq Msgs
      BY ChannelTypes, Zenon DEF InTyped
    <3> QED
      BY <3>1, <3>2, Zenon DEF PutTyped, ReadTyped
  <2>5. ClosedFirst'
    BY <1>3, Zenon DEF Setting, CloseDrain, ClosedFirst, CloseTyped, Closers, App, Run
  <2>6. NothingBehindTheEnd'
    BY <1>3, Zenon DEF Setting, CloseDrain, NothingBehindTheEnd, CloseTyped, ClosedFirst,
           Closers, App, Run
  <2> QED
    BY <1>3, <2>1, <2>2, <2>3, <2>4, <2>5, <2>6, Frames, Zenon DEF CloseDrain
<1>4. CASE CloseFIN(g)
  <2>1. CloseTyped'
    BY <1>4, Zenon DEF CloseFIN, CloseTyped, Closers, App, Run
  <2>2. WriteTyped'
    <3>1. wire' \in Seq({"PSH", "FIN"})
      BY <1>4, SendKeepsType, Zenon DEF CloseFIN, WriteTyped
    <3> QED
      BY <1>4, <3>1, Zenon DEF CloseFIN, WriteTyped
  <2>3. ClosedFirst'
    BY <1>4, Zenon DEF Setting, CloseFIN, ClosedFirst, CloseTyped, Closers, App, Run
  <2>4. NothingBehindTheEnd'
    BY <1>4, Zenon DEF Setting, CloseFIN, NothingBehindTheEnd, CloseTyped, LoopHasChunk,
           ClosedFirst, Closers, App, Run
  <2>5. OneFIN'
    <3>1. CASE wire' = wire
      BY <1>4, <3>1, Zenon DEF CloseFIN, OneFIN, HasFIN, FINIsLast
    <3>2. CASE wire' # wire
      <4>1. ~HasFIN /\ Send("FIN")
        BY <1>4, <3>2, Zenon DEF CloseFIN, OneFIN
      <4>2. FINIsLast'
        BY <4>1, SendExtends, Zenon DEF WriteTyped
      <4> QED
        BY <1>4, <3>2, <4>1, <4>2, Zenon DEF CloseFIN, ClosedFirst, OneFIN
    <3> QED
      BY <3>1, <3>2, Zenon
  <2> QED
    BY <1>4, <2>1, <2>2, <2>3, <2>4, <2>5, Frames, Zenon DEF CloseFIN
<1>5. CASE CloseRemove(g)
  <2>1. RunTyped'
    BY <1>5, Zenon DEF Setting, CloseRemove, RunTyped
  <2>2. LifeTyped'
    BY <1>5, Zenon DEF CloseRemove, LifeTyped
  <2>3. CloseTyped'
    BY <1>5, Zenon DEF CloseRemove, CloseTyped, Closers, App, Run
  <2>4. LoopHasChunk'
    BY <1>5, Zenon DEF CloseRemove, LoopHasChunk, RunTyped
  <2>5. ClosedFirst'
    BY <1>5, Zenon DEF Setting, CloseRemove, ClosedFirst, CloseTyped, Closers, App, Run
  <2>6. NothingBehindTheEnd'
    BY <1>5, Zenon DEF Setting, CloseRemove, NothingBehindTheEnd, CloseTyped, LoopHasChunk,
           ClosedFirst, Closers, App, Run
  <2> QED
    BY <1>5, <2>1, <2>2, <2>3, <2>4, <2>5, <2>6, Frames, Zenon DEF CloseRemove
<1> QED
  BY <1>1, <1>2, <1>3, <1>4, <1>5, Zenon

\* Write and CloseWrite.
LEMMA WriteSteps ==
  ASSUME Setting, StreamInv,
         Write \/ WriteLock \/ WriteFrame \/ CloseWrite \/ CloseWriteSwap \/ CloseWriteFIN
  PROVE  StreamInv'
<1> USE DEF StreamInv, runVars, readVars, lifeVars, closeVars, writeVars, dlVars
<1>1. CASE Write
  <2>1. WriteTyped'
    BY <1>1, Zenon DEF Write, WriteTyped
  <2>2. OneFIN'
    BY <1>1, Zenon DEF Setting, Write, OneFIN, HasFIN, FINIsLast, WriteTyped
  <2> QED
    BY <1>1, <2>1, <2>2, Frames, Zenon DEF Write
<1>2. CASE WriteLock
  <2>1. WriteTyped'
    BY <1>2, Zenon DEF WriteLock, WriteTyped
  <2>2. OneFIN'
    BY <1>2, Zenon DEF Setting, WriteLock, OneFIN, HasFIN, FINIsLast, WriteTyped
  <2> QED
    BY <1>2, <2>1, <2>2, Frames, Zenon DEF WriteLock
<1>3. CASE WriteFrame
  <2>1. WriteTyped'
    <3>1. wire' \in Seq({"PSH", "FIN"})
      BY <1>3, SendKeepsType, Zenon DEF WriteFrame, WriteTyped
    <3> QED
      BY <1>3, <3>1, Zenon DEF WriteFrame, WriteTyped
  <2>2. OneFIN'
    <3>1. CASE wire' = wire
      BY <1>3, <3>1, Zenon DEF WriteFrame, OneFIN, HasFIN, FINIsLast
    <3>2. CASE wire' # wire
      <4>1. ~HasFIN /\ Send("PSH")
        BY <1>3, <3>2, Zenon DEF WriteFrame, OneFIN
      <4>2. FINIsLast' /\ ~HasFIN'
        BY <4>1, SendExtends, Zenon DEF WriteTyped
      <4> QED
        BY <1>3, <3>2, <4>1, <4>2, Zenon DEF Setting, WriteFrame, OneFIN
    <3> QED
      BY <3>1, <3>2, Zenon
  <2> QED
    BY <1>3, <2>1, <2>2, Frames, Zenon DEF WriteFrame
<1>4. CASE CloseWrite
  <2>1. WriteTyped'
    BY <1>4, Zenon DEF CloseWrite, WriteTyped
  <2>2. OneFIN'
    BY <1>4, Zenon DEF Setting, CloseWrite, OneFIN, HasFIN, FINIsLast, WriteTyped
  <2> QED
    BY <1>4, <2>1, <2>2, Frames, Zenon DEF CloseWrite
<1>5. CASE CloseWriteSwap
  <2>1. WriteTyped'
    BY <1>5, Zenon DEF CloseWriteSwap, WriteTyped
  <2>2. OneFIN'
    BY <1>5, Zenon DEF Setting, CloseWriteSwap, OneFIN, HasFIN, FINIsLast, WriteTyped
  <2> QED
    BY <1>5, <2>1, <2>2, Frames, Zenon DEF CloseWriteSwap
<1>6. CASE CloseWriteFIN
  <2>1. WriteTyped'
    <3>1. wire' \in Seq({"PSH", "FIN"})
      BY <1>6, SendKeepsType, Zenon DEF CloseWriteFIN, WriteTyped
    <3> QED
      BY <1>6, <3>1, Zenon DEF CloseWriteFIN, WriteTyped
  <2>2. OneFIN'
    <3>1. CASE wire' = wire
      BY <1>6, <3>1, Zenon DEF CloseWriteFIN, OneFIN, HasFIN, FINIsLast
    <3>2. CASE wire' # wire
      <4>1. ~HasFIN /\ Send("FIN")
        BY <1>6, <3>2, Zenon DEF CloseWriteFIN, OneFIN
      <4>2. FINIsLast'
        BY <4>1, SendExtends, Zenon DEF WriteTyped
      <4> QED
        BY <1>6, <3>2, <4>1, <4>2, Zenon DEF Setting, CloseWriteFIN, OneFIN
    <3> QED
      BY <3>1, <3>2, Zenon
  <2> QED
    BY <1>6, <2>1, <2>2, Frames, Zenon DEF CloseWriteFIN
<1> QED
  BY <1>1, <1>2, <1>3, <1>4, <1>5, <1>6, Zenon

\* Every step, and stuttering.
LEMMA StreamStep ==
  ASSUME Setting, StreamInv, [Next]_vars
  PROVE  StreamInv'
<1>1. CASE UNCHANGED vars
  BY <1>1, Frames, Zenon DEF vars, StreamInv, runVars, readVars, lifeVars, closeVars, writeVars, dlVars
<1>2. CASE Next
  BY <1>2, LoopSteps, SessionSteps, ReadSteps, DeadlineSteps, CloseSteps, WriteSteps, Zenon
  DEF Next, RunStep, ReadStep, CloseStep, WriteStep, HalfStep, Closers
<1> QED
  BY <1>1, <1>2, Zenon

-----------------------------------------------------------------------------
(* The theorems                                                            *)

\* However the receive loop, reads, writes, deadlines and the three ways to close
\* interleave, the loop holds a chunk when it delivers one, what is closed was
\* closed in session.go's order, and nothing is queued behind the end.
THEOREM StreamInvariant ==
  ASSUME Setting
  PROVE  Spec => []StreamInv
<1>1. ASSUME Init
      PROVE  StreamInv
  <2>1. RunTyped /\ InTyped /\ ReadTyped
    BY <1>1 DEF Setting, Init, RunTyped, InTyped, ReadTyped
  <2>2. LifeTyped /\ DeadlineTyped
    BY <1>1, Zenon DEF Init, LifeTyped, DeadlineTyped
  <2>3. CloseTyped /\ PutTyped
    BY <1>1, Zenon DEF Init, CloseTyped, PutTyped
  <2>4. WriteTyped
    <3>1. writeMu \in BOOLEAN /\ writeClosed \in BOOLEAN
      BY <1>1, Zenon DEF Init
    <3> QED
      BY <1>1, <3>1 DEF Init, WriteTyped
  <2>5. LoopHasChunk /\ ClosedFirst /\ NothingBehindTheEnd
    BY <1>1, Zenon DEF Setting, Init, LoopHasChunk, ClosedFirst, NothingBehindTheEnd
  <2>6. OneFIN
    BY <1>1 DEF Init, OneFIN, HasFIN, FINIsLast
  <2> QED
    BY <2>1, <2>2, <2>3, <2>4, <2>5, <2>6, Zenon DEF StreamInv
<1>2. StreamInv /\ [Next]_vars => StreamInv'
  BY StreamStep, Zenon
<1> QED
  BY <1>1, <1>2, PTL DEF Spec

\* A Read that reports the end of the stream leaves nothing in the channel and
\* nobody who puts something there, and a local Close leaves nothing unread.
THEOREM EndsAreClean ==
  ASSUME Setting
  PROVE  Spec => [](TypeOK /\ EndIsFinal /\ CloseLeavesNothing)
<1>1. StreamInv => TypeOK /\ EndIsFinal /\ CloseLeavesNothing
  BY Zenon DEF StreamInv, TypeOK, RunTyped, InTyped, ReadTyped, LifeTyped, CloseTyped, WriteTyped, DeadlineTyped,
         PutTyped, NothingBehindTheEnd, EndIsFinal, CloseLeavesNothing
<1> QED
  BY <1>1, StreamInvariant, PTL

\* The FIN of a stream is its last frame and there is one at most, for every race of
\* Write, CloseWrite and Close.
THEOREM FINEndsTheStream ==
  ASSUME Setting
  PROVE  Spec => []FINIsLast
<1>1. StreamInv => FINIsLast
  BY Zenon DEF StreamInv, OneFIN
<1> QED
  BY <1>1, StreamInvariant, PTL

-----------------------------------------------------------------------------
(* The way of the chunks                                                   *)

\* Who handles a chunk has it: the loop the last one that arrived, the reader one it has
\* not copied all of.  A Read that waits for a chunk has none.
Handling ==
  /\ inRun = None <=> run \notin {"look", "enter", "send"}
  /\ inRun # None => inRun = arrived
  /\ readBuf = None <=> left = 0
  /\ ReadMutexHeld => readBuf = None

\* A Close has put back what was not read.
Drained == \E g \in Closers : close[g] \in {"fin", "remove", "done"}

(* The reader was given the chunks up to k.  The channel has those behind  *)
(* k, the loop puts the next one, and until the stream is closed or taken  *)
(* from the map none of those that arrived is missing.                     *)
Handed(k) ==
  /\ \A i \in 1..Len(inbound) : inbound[i] = k + i
  /\ readBuf # None => readBuf = k
  /\ run = "send" \/ (run = "enter" /\ ~closed /\ ~done) => inRun = k + Len(inbound) + 1
  /\ inMap /\ ~closed /\ ~done => arrived = k + Len(inbound) + (IF inRun = None THEN 0 ELSE 1)
  /\ Drained \/ Len(got) + left = k * ChunkLen

\* The loop closes the stream once, and does nothing else meanwhile.
LoopCloses ==
  /\ close[Run] \in {"enqueued", "read", "fin", "remove"} => run = "close"
  /\ close[Run] = "done" => ~inMap
  /\ run = "synack" => close[Run] = "no"

\* Chunks have one owner and reach the reader in order.
ChunksInv ==
  /\ Handling /\ LoopCloses
  /\ \E k \in 0..Chunks : Handed(k)
  /\ ReadInOrder
  /\ OneOwner

-----------------------------------------------------------------------------
(* Chunks that change hands                                                *)

\* Each place, before a step.
LEMMA OwnsIs ==
  \A m : /\ Owns("peer", m) <=> m > arrived
         /\ Owns("loop", m) <=> m = inRun
         /\ Owns("channel", m) <=> m \in Range(inbound)
         /\ Owns("reader", m) <=> m = readBuf
         /\ Owns("pool", m) <=> m \in put
BY DEF Owns

\* Each place, after a step.
LEMMA OwnsNext ==
  \A m : /\ Owns("peer", m)' <=> m > arrived'
         /\ Owns("loop", m)' <=> m = inRun'
         /\ Owns("channel", m)' <=> m \in Range(inbound')
         /\ Owns("reader", m)' <=> m = readBuf'
         /\ Owns("pool", m)' <=> m \in put'
BY DEF Owns

\* Nothing but the places of A changes.
Still(A) ==
  /\ "peer" \in A \/ UNCHANGED arrived
  /\ "loop" \in A \/ UNCHANGED inRun
  /\ "channel" \in A \/ UNCHANGED inbound
  /\ "reader" \in A \/ UNCHANGED readBuf
  /\ "pool" \in A \/ UNCHANGED put

\* Where nothing but A changes, the other places have what they had.
LEMMA OthersStay ==
  ASSUME NEW A, Still(A), NEW q \in Places \ A, NEW m
  PROVE  Owns(q, m)' <=> Owns(q, m)
<1>1. /\ UNCHANGED arrived => (Owns("peer", m)' <=> Owns("peer", m))
      /\ UNCHANGED inRun => (Owns("loop", m)' <=> Owns("loop", m))
      /\ UNCHANGED inbound => (Owns("channel", m)' <=> Owns("channel", m))
      /\ UNCHANGED readBuf => (Owns("reader", m)' <=> Owns("reader", m))
      /\ UNCHANGED put => (Owns("pool", m)' <=> Owns("pool", m))
  BY OwnsIs, OwnsNext
<1> QED
  BY <1>1, Zenon DEF Still, Places

\* The chunks of S go from the places of A to b and the rest stay.
Moves(A, b, S) ==
  /\ Still(A \cup {b})
  /\ \A m \in S : Owns(b, m)' /\ (\E a \in A : Owns(a, m)) /\ \A a \in A : ~Owns(a, m)'
  /\ \A m \in Msgs \ S : \A q \in A \cup {b} : Owns(q, m)' <=> Owns(q, m)

\* A move leaves every chunk with one owner.
LEMMA MoveKeepsOwner ==
  ASSUME OneOwner, NEW A \in SUBSET Places, NEW b \in Places \ A, NEW S, Moves(A, b, S)
  PROVE  OneOwner'
<1> SUFFICES ASSUME NEW m \in Msgs
             PROVE  \E p \in Places : \A q \in Places : Owns(q, m)' <=> q = p
  BY Zenon DEF OneOwner
<1>1. PICK p \in Places : \A q \in Places : Owns(q, m) <=> q = p
  BY Zenon DEF OneOwner
<1>2. CASE m \in S
  <2>1. p \in A
    BY <1>1, <1>2, Zenon DEF Moves
  <2>2. ASSUME NEW q \in Places PROVE Owns(q, m)' <=> q = b
    <3>1. CASE q \in A \cup {b}
      BY <1>2, <3>1, Zenon DEF Moves
    <3>2. CASE q \notin A \cup {b}
      BY <1>1, <2>1, <3>2, OthersStay, Zenon DEF Moves
    <3> QED
      BY <3>1, <3>2, Zenon
  <2> QED
    BY <2>2, Zenon
<1>3. CASE m \notin S
  <2>1. ASSUME NEW q \in Places PROVE Owns(q, m)' <=> Owns(q, m)
    <3>1. CASE q \in A \cup {b}
      BY <1>3, <3>1, Zenon DEF Moves
    <3>2. CASE q \notin A \cup {b}
      BY <3>2, OthersStay, Zenon DEF Moves
    <3> QED
      BY <3>1, <3>2, Zenon
  <2> QED
    BY <1>1, <2>1, Zenon
<1> QED
  BY <1>2, <1>3, Zenon

\* One chunk moves from a to b.
LEMMA MoveOne ==
  ASSUME OneOwner, NEW a \in Places, NEW b \in Places, a # b, NEW x, Still({a, b}),
         Owns(a, x), Owns(b, x)', ~Owns(a, x)',
         \A m \in Msgs : m # x => (Owns(a, m)' <=> Owns(a, m)) /\ (Owns(b, m)' <=> Owns(b, m))
  PROVE  OneOwner'
<1>1. {a} \cup {b} = {a, b}
  OBVIOUS
<1>2. Moves({a}, b, {x})
  BY <1>1, Zenon DEF Moves
<1>3. {a} \in SUBSET Places /\ b \in Places \ {a}
  OBVIOUS
<1> QED
  BY <1>2, <1>3, MoveKeepsOwner, Zenon

\* A step that touches no buffer leaves every chunk with its owner.
LEMMA KeepOwner ==
  ASSUME OneOwner, UNCHANGED <<arrived, inRun, inbound, readBuf, put>>
  PROVE  OneOwner'
<1>1. \A p, m : Owns(p, m)' <=> Owns(p, m)
  BY DEF Owns, Range
<1> QED
  BY <1>1, Zenon DEF OneOwner

\* A chunk is a number and not None.
LEMMA ChunksAreNumbers == ASSUME Setting PROVE \A m \in Msgs : m \in Int /\ m # None
BY DEF Msgs, Setting

\* A receive takes the first of the chunks behind k.
LEMMA TakeOne ==
  ASSUME NEW q \in Seq(Msgs), q # <<>>, NEW k \in Nat, \A i \in 1..Len(q) : q[i] = k + i
  PROVE  /\ Head(q) = k + 1 /\ Head(q) \in Msgs
         /\ Len(Tail(q)) = Len(q) - 1
         /\ \A i \in 1..Len(Tail(q)) : Tail(q)[i] = k + 1 + i
         /\ \A y : y \in Range(q) <=> y = Head(q) \/ y \in Range(Tail(q))
         /\ Head(q) \notin Range(Tail(q))
<1> DEFINE t == Tail(q)
           x == Head(q)
<1>1. /\ Len(t) = Len(q) - 1 /\ Len(q) \in Nat /\ Len(q) > 0
      /\ \A i \in 1..Len(t) : t[i] = q[i + 1]
      /\ x = q[1] /\ x \in Msgs
  OBVIOUS
<1> HIDE DEF t, x
<1>2. x = k + 1 /\ \A i \in 1..Len(t) : t[i] = k + 1 + i
  <2>1. 1 \in 1..Len(q) /\ \A i \in 1..Len(t) : i + 1 \in 1..Len(q)
    BY <1>1
  <2> QED
    BY <1>1, <2>1
<1>3. ASSUME NEW y
      PROVE  y \in Range(q) <=> y = x \/ y \in Range(t)
  <2>1. ASSUME y \in Range(q) PROVE y = x \/ y \in Range(t)
    <3>1. PICK i \in 1..Len(q) : y = q[i]
      BY <2>1, Zenon DEF Range
    <3>2. i = 1 \/ (i - 1 \in 1..Len(t) /\ t[i - 1] = q[i])
      BY <1>1
    <3> QED
      BY <1>1, <3>1, <3>2, Zenon DEF Range
  <2>2. ASSUME y \in Range(t) PROVE y \in Range(q)
    <3>1. PICK i \in 1..Len(t) : y = t[i]
      BY <2>2, Zenon DEF Range
    <3>2. i + 1 \in 1..Len(q) /\ q[i + 1] = y
      BY <1>1, <3>1
    <3> QED
      BY <3>2, Zenon DEF Range
  <2>3. x \in Range(q)
    <3>1. 1 \in 1..Len(q)
      BY <1>1
    <3> QED
      BY <1>1, <3>1, Zenon DEF Range
  <2> QED
    BY <2>1, <2>2, <2>3, Zenon
<1>4. x \notin Range(t)
  BY <1>1, <1>2 DEF Range
<1> QED
  BY <1>1, <1>2, <1>3, <1>4, Zenon DEF t, x

\* A send puts a chunk behind those in the channel.
LEMMA PutOne ==
  ASSUME NEW q \in Seq(Msgs), NEW x \in Msgs
  PROVE  /\ Len(Append(q, x)) = Len(q) + 1
         /\ \A i \in 1..Len(q) : Append(q, x)[i] = q[i]
         /\ Append(q, x)[Len(q) + 1] = x
         /\ \A y : y \in Range(Append(q, x)) <=> y \in Range(q) \/ y = x
<1> DEFINE t == Append(q, x)
<1>1. /\ Len(t) = Len(q) + 1 /\ Len(q) \in Nat
      /\ \A i \in 1..Len(q) : t[i] = q[i]
      /\ t[Len(q) + 1] = x
  OBVIOUS
<1> HIDE DEF t
<1>2. ASSUME NEW y
      PROVE  y \in Range(t) <=> y \in Range(q) \/ y = x
  <2>1. ASSUME y \in Range(t) PROVE y \in Range(q) \/ y = x
    <3>1. PICK i \in 1..Len(t) : y = t[i]
      BY <2>1, Zenon DEF Range
    <3>2. i \in 1..Len(q) \/ i = Len(q) + 1
      BY <1>1
    <3> QED
      BY <1>1, <3>1, <3>2, Zenon DEF Range
  <2>2. ASSUME y \in Range(q) PROVE y \in Range(t)
    <3>1. PICK i \in 1..Len(q) : y = q[i]
      BY <2>2, Zenon DEF Range
    <3>2. i \in 1..Len(t) /\ t[i] = y
      BY <1>1, <3>1
    <3> QED
      BY <3>2, Zenon DEF Range
  <2>3. x \in Range(t)
    <3>1. Len(q) + 1 \in 1..Len(t)
      BY <1>1
    <3> QED
      BY <1>1, <3>1, Zenon DEF Range
  <2> QED
    BY <2>1, <2>2, <2>3, Zenon
<1> QED
  BY <1>1, <1>2, Zenon DEF t

\* The bytes of a chunk and of the next.
LEMMA NextChunk ==
  ASSUME NEW a \in Int, NEW b \in Int
  PROVE  (a - 1) * b = a * b - b /\ (a + 1) * b = a * b + b /\ a * b \in Int
OBVIOUS

\* What is read goes behind what was read.
LEMMA Joined ==
  ASSUME NEW S, NEW s \in Seq(S), NEW t \in Seq(S)
  PROVE  /\ Len(s \o t) = Len(s) + Len(t)
         /\ \A i \in 1..Len(s) : (s \o t)[i] = s[i]
         /\ \A i \in Len(s) + 1..Len(s) + Len(t) : (s \o t)[i] = t[i - Len(s)]
OBVIOUS

\* What is copied out of chunk m are the bytes of the stream that come next.
LEMMA CopyInOrder ==
  ASSUME Setting, StreamInv, ReadInOrder, NEW m \in Msgs, NEW len \in 0..ChunkLen, Copy(m, len),
         Len(got) + len = m * ChunkLen
  PROVE  /\ ReadInOrder' /\ Len(got') + left' = m * ChunkLen
         /\ readBuf' = None <=> left' = 0
         /\ reader' = "idle"
         /\ \/ readBuf' = None /\ put' = put \cup {m}
            \/ readBuf' = m /\ put' = put
<1>1. PICK n \in 1..len : /\ got' = got \o [i \in 1..n |-> m]
                          /\ left' = len - n
                          /\ readBuf' = IF n = len THEN None ELSE m
                          /\ IF n = len THEN Put({m}) ELSE UNCHANGED put
                          /\ reader' = "idle" /\ ended' = None
  BY Zenon DEF Copy
<1> DEFINE c == [i \in 1..n |-> m]
           P == m * ChunkLen
<1>2. len \in Nat /\ ChunkLen \in Nat /\ n \in Nat /\ n <= len /\ len <= ChunkLen /\ m # None /\ m \in Int
  BY ChunksAreNumbers DEF Setting
<1>3. got \in Seq(Msgs) /\ Len(got) \in Nat
  BY DEF StreamInv, ReadTyped
<1>4. c \in Seq(Msgs) /\ Len(c) = n /\ \A i \in 1..n : c[i] = m
  BY <1>2
<1>5. /\ Len(got') = Len(got) + n
      /\ \A i \in 1..Len(got) : got'[i] = got[i]
      /\ \A i \in Len(got) + 1..Len(got) + n : got'[i] = m
  <2> HIDE DEF c
  <2>1. got' = got \o c
    BY <1>1 DEF c
  <2>2. \A i \in Len(got) + 1..Len(got) + n : i - Len(got) \in 1..n
    BY <1>2, <1>3
  <2>3. /\ Len(got \o c) = Len(got) + Len(c)
        /\ \A i \in 1..Len(got) : (got \o c)[i] = got[i]
        /\ \A i \in Len(got) + 1..Len(got) + Len(c) : (got \o c)[i] = c[i - Len(got)]
    BY <1>3, <1>4, Joined, Zenon
  <2> QED
    BY <1>4, <2>1, <2>2, <2>3, Zenon
<1>6. (m - 1) * ChunkLen = P - ChunkLen /\ P \in Int
  BY <1>2, NextChunk
<1>7. Len(got) + len = P
  OBVIOUS
<1> HIDE DEF P, c
<1>8. ASSUME NEW i \in 1..Len(got')
      PROVE  (got'[i] - 1) * ChunkLen < i /\ i <= got'[i] * ChunkLen
  <2>1. CASE i \in 1..Len(got)
    BY <1>5, <2>1, Zenon DEF ReadInOrder
  <2>2. CASE i \in Len(got) + 1..Len(got) + n
    <3>1. P - ChunkLen < i /\ i <= P
      BY <1>2, <1>3, <1>6, <1>7, <2>2
    <3>2. got'[i] = m
      BY <1>5, <2>2, Zenon
    <3> QED
      BY <1>6, <3>1, <3>2, Zenon DEF P
  <2> QED
    BY <1>2, <1>3, <1>5, <2>1, <2>2
<1>9. Len(got') + left' = P
  BY <1>1, <1>2, <1>3, <1>5, <1>7
<1>10. readBuf' = None <=> left' = 0
  BY <1>1, <1>2
<1> QED
  BY <1>1, <1>8, <1>9, <1>10, Zenon DEF ReadInOrder, Put, P

-----------------------------------------------------------------------------
(* Every step preserves ChunksInv                                          *)

\* What a step does to the marks of a stream.
LEMMA MarksStay ==
  ASSUME StreamInv, LoopCloses, Next
  PROVE  /\ closed => closed'
         /\ done => done'
         /\ inMap' => inMap
         /\ LoopCloses'
         /\ Drained => Drained'
<1> USE DEF StreamInv, CloseTyped
<1>1. ASSUME UNCHANGED <<close, run>>, inMap' => inMap PROVE LoopCloses' /\ (Drained => Drained')
  BY <1>1 DEF LoopCloses, Drained
<1>2. CASE RunPSH \/ RunLook \/ RunEnter \/ RunSend \/ RunControl \/ RemoteClose \/ RunRemove \/ RunEnds
  <2>1. UNCHANGED <<close, done>> /\ (closed' = TRUE \/ closed' = closed) /\ (inMap' = FALSE \/ inMap' = inMap)
    BY <1>2, Zenon DEF RunPSH, RunLook, RunEnter, RunSend, RunControl, RemoteClose, RunRemove, RunEnds, Mark,
           closeVars, lifeVars
  <2>2. run # "close" /\ (run' = "synack" => run = "read" /\ inMap)
    BY <1>2 DEF RunPSH, RunLook, RunEnter, RunSend, RunControl, RemoteClose, RunRemove, RunEnds
  <2>3. LoopCloses'
    BY <2>1, <2>2 DEF LoopCloses, Closers, App, Run
  <2> QED
    BY <2>1, <2>3 DEF Drained
<1>3. CASE RunCloses
  <2>1. close[Run] = "no" /\ run = "synack"
    BY <1>3, Zenon DEF RunCloses, LoopCloses
  <2>2. close' = [close EXCEPT ![Run] = "enqueued"] /\ run' = "close" /\ UNCHANGED <<done, inMap>> /\ closed' = TRUE
    BY <1>3, Zenon DEF RunCloses, Mark
  <2>3. close'[Run] = "enqueued" /\ close'[App] = close[App]
    BY <2>2 DEF Closers, App, Run
  <2>4. LoopCloses'
    BY <2>2, <2>3 DEF LoopCloses
  <2>5. Drained => Drained'
    BY <2>1, <2>3 DEF Drained, Closers
  <2> QED
    BY <2>2, <2>4, <2>5
<1>4. CASE SessionDone \/ SessionTakes \/ SessionMarks
  <2>1. /\ UNCHANGED <<close, run>> /\ (done' = TRUE \/ done' = done) /\ (closed' = TRUE \/ closed' = closed)
        /\ inMap' = FALSE \/ inMap' = inMap
    BY <1>4, Zenon DEF SessionDone, SessionTakes, SessionMarks, Mark, closeVars, runVars
  <2> QED
    BY <1>1, <2>1
<1>5. CASE Read \/ ReadStep \/ (\E d \in {None, "past", "later"} : SetDeadline(d)) \/ Notify
           \/ Write \/ WriteStep \/ CloseWrite \/ HalfStep
  <2>1. UNCHANGED <<close, run, closed, done, inMap>>
    BY <1>5, Zenon DEF Read, ReadStep, ReadLock, ReadTake, ReadPoll, ReadSync, ReadArm, ReadWakes, ReadExpires,
           SetDeadline, Notify, Write, WriteStep, WriteLock, WriteFrame, CloseWrite, HalfStep, CloseWriteSwap,
           CloseWriteFIN, closeVars, runVars, lifeVars
  <2> QED
    BY <1>1, <2>1
<1>6. CASE Close
  <2>1. /\ close[App] = "no" /\ close' = [close EXCEPT ![App] = "enqueued"] /\ closed' = TRUE
        /\ UNCHANGED <<run, done, inMap>>
    BY <1>6, Zenon DEF Close, Mark, runVars
  <2>2. close'[App] = "enqueued" /\ close'[Run] = close[Run]
    BY <2>1 DEF Closers, App, Run
  <2> QED
    BY <2>1, <2>2 DEF LoopCloses, Drained, Closers
<1>7. ASSUME NEW g \in Closers, CloseStep(g)
      PROVE  /\ closed => closed'
             /\ done => done'
             /\ inMap' => inMap
             /\ LoopCloses'
             /\ Drained => Drained'
  <2>1. PICK p \in {"read", "fin", "remove", "done"} :
          /\ close' = [close EXCEPT ![g] = p]
          /\ close[g] \in {"enqueued", "read", "fin", "remove"}
          /\ close[g] \in {"fin", "remove"} => p \in {"remove", "done"}
          /\ p = "done" => inMap' = FALSE /\ (g = App => UNCHANGED run)
          /\ p # "done" => inMap' = inMap /\ UNCHANGED run
          /\ UNCHANGED <<closed, done>>
          /\ run' \in {run, "read"}
    BY <1>7, Zenon DEF CloseStep, CloseSync, CloseDrain, CloseFIN, CloseRemove, lifeVars, runVars, App, Run
  <2>2. close'[g] = p /\ \A h \in Closers \ {g} : close'[h] = close[h]
    BY <2>1, Zenon
  <2>3. Drained => Drained'
    BY <2>1, <2>2, Zenon DEF Drained
  <2>4. inMap' => inMap
    BY <2>1, Zenon
  <2>5. LoopCloses'
    <3>1. CASE g = Run
      BY <2>1, <2>2, <2>4, <3>1 DEF LoopCloses, Run
    <3>2. CASE g = App
      BY <2>1, <2>2, <2>4, <3>2 DEF LoopCloses, Closers, App, Run
    <3> QED
      BY <3>1, <3>2, Zenon DEF Closers
  <2> QED
    BY <2>1, <2>3, <2>4, <2>5
<1> QED
  BY <1>2, <1>3, <1>4, <1>5, <1>6, <1>7, Zenon DEF Next, RunStep

\* Steps that leave every chunk where it is.
LEMMA QuietStep ==
  ASSUME StreamInv, ChunksInv, Next,
         UNCHANGED <<arrived, inRun, inbound, readBuf, left, got, put>>,
         run' = run \/ (run \notin {"look", "enter", "send"} /\ run' \notin {"look", "enter", "send"}),
         ReadMutexHeld' => readBuf = None
  PROVE  ChunksInv'
<1> USE DEF ChunksInv
<1>1. /\ closed => closed'
      /\ done => done'
      /\ inMap' => inMap
      /\ LoopCloses'
      /\ Drained => Drained'
  BY MarksStay, Zenon
<1>2. Handling'
  BY Zenon DEF Handling
<1>3. PICK k \in 0..Chunks : Handed(k)
  BY Zenon
<1>4. Handed(k)'
  BY <1>1, <1>3 DEF Handed
<1>5. ReadInOrder'
  BY Zenon DEF ReadInOrder
<1>6. OneOwner'
  BY KeepOwner, Zenon
<1> QED
  BY <1>1, <1>2, <1>3, <1>4, <1>5, <1>6, Zenon

\* The loop puts its chunk back, which it does on a stream nobody feeds any more.
LEMMA DiscardStep ==
  ASSUME Setting, StreamInv, ChunksInv, Next,
         run \in {"look", "enter", "send"}, run' \in {"read", "end"}, inRun' = None, put' = put \cup {inRun},
         UNCHANGED <<arrived, inbound, reader, readBuf, left, got, lifeVars>>,
         closed \/ done \/ ~inMap
  PROVE  ChunksInv'
<1> USE DEF ChunksInv, lifeVars
<1>1. LoopCloses' /\ (Drained => Drained')
  BY MarksStay, Zenon
<1>2. Handling'
  BY Zenon DEF Handling, ReadMutexHeld
<1>3. PICK k \in 0..Chunks : Handed(k)
  BY Zenon
<1>4. Handed(k)'
  BY <1>1, <1>3 DEF Handed
<1>5. ReadInOrder'
  BY Zenon DEF ReadInOrder
<1>6. OneOwner'
  <2>1. inRun \in Msgs
    BY Zenon DEF StreamInv, LoopHasChunk
  <2>2. Moves({"loop"}, "pool", {inRun})
    BY <2>1, ChunksAreNumbers, OwnsIs, OwnsNext, Zenon DEF Moves, Still
  <2> QED
    BY <2>2, MoveKeepsOwner, Zenon DEF Places
<1> QED
  BY <1>1, <1>2, <1>3, <1>4, <1>5, <1>6, Zenon

\* The read loop.
LEMMA LoopKeepsChunks ==
  ASSUME Setting, StreamInv, ChunksInv, Next, RunPSH \/ RunLook \/ RunEnter \/ RunSend
  PROVE  ChunksInv'
<1> USE DEF ChunksInv, runVars, readVars, lifeVars, closeVars
<1>1. CASE RunPSH
  <2> DEFINE x == arrived + 1
  <2>1. /\ run = "read" /\ run' = "look" /\ arrived' = x /\ inRun' = x /\ inRun = None
        /\ UNCHANGED <<inbound, readVars, lifeVars, closeVars, put>>
    BY <1>1, Zenon DEF RunPSH, Handling
  <2>2. arrived \in Nat /\ x \in Msgs /\ x # None
    BY <1>1, ChunksAreNumbers DEF RunPSH, StreamInv, RunTyped, Msgs, Setting
  <2>3. LoopCloses' /\ (Drained => Drained')
    BY MarksStay, Zenon
  <2>4. Handling'
    BY <2>1, <2>2, Zenon DEF Handling, ReadMutexHeld
  <2>5. PICK k \in 0..Chunks : Handed(k)
    BY Zenon
  <2>6. Handed(k)'
    BY <2>1, <2>2, <2>3, <2>5 DEF Handed, StreamInv, InTyped
  <2>7. ReadInOrder'
    BY <2>1, Zenon DEF ReadInOrder
  <2>8. Moves({"peer"}, "loop", {x})
    <3>1. ~(x > arrived') /\ x > arrived /\ \A m \in Msgs \ {x} : m > arrived' <=> m > arrived
      BY <2>1, <2>2, ChunksAreNumbers
    <3> HIDE DEF x
    <3> QED
      BY <2>1, <2>2, <3>1, ChunksAreNumbers, OwnsIs, OwnsNext, Zenon DEF Moves, Still
  <2>9. OneOwner'
    BY <2>8, MoveKeepsOwner, Zenon DEF Places
  <2> QED
    BY <2>3, <2>4, <2>5, <2>6, <2>7, <2>9, Zenon
<1>2. CASE RunLook
  <2>1. CASE ~inMap
    BY <1>2, <2>1, DiscardStep, Zenon DEF RunLook, Put
  <2>2. CASE inMap
    <3>1. run = "look" /\ run' = "enter" /\ UNCHANGED <<arrived, inRun, inbound, readVars, lifeVars, closeVars, put>>
      BY <1>2, <2>2, Zenon DEF RunLook
    <3>2. LoopCloses' /\ (Drained => Drained')
      BY MarksStay, Zenon
    <3>3. Handling'
      BY <3>1, Zenon DEF Handling, ReadMutexHeld
    <3>4. PICK k \in 0..Chunks : Handed(k)
      BY Zenon
    <3>5. inRun # None /\ inRun = arrived
      BY <3>1, Zenon DEF Handling
    <3>6. Handed(k)'
      BY <2>2, <3>1, <3>2, <3>4, <3>5 DEF Handed
    <3>7. ReadInOrder'
      BY <3>1, Zenon DEF ReadInOrder
    <3>8. OneOwner'
      BY <3>1, KeepOwner, Zenon
    <3> QED
      BY <3>2, <3>3, <3>4, <3>6, <3>7, <3>8, Zenon
  <2> QED
    BY <2>1, <2>2, Zenon
<1>3. CASE RunEnter
  <2>1. CASE closed \/ done
    BY <1>3, <2>1, DiscardStep, Zenon DEF RunEnter, Put
  <2>2. CASE ~(closed \/ done)
    <3>1. run = "enter" /\ run' = "send" /\ UNCHANGED <<arrived, inRun, inbound, readVars, lifeVars, closeVars, put>>
      BY <1>3, <2>2, Zenon DEF RunEnter
    <3>2. LoopCloses' /\ (Drained => Drained')
      BY MarksStay, Zenon
    <3>3. Handling'
      BY <3>1, Zenon DEF Handling, ReadMutexHeld
    <3>4. PICK k \in 0..Chunks : Handed(k)
      BY Zenon
    <3>5. Handed(k)'
      BY <2>2, <3>1, <3>2, <3>4 DEF Handed
    <3>6. ReadInOrder'
      BY <3>1, Zenon DEF ReadInOrder
    <3>7. OneOwner'
      BY <3>1, KeepOwner, Zenon
    <3> QED
      BY <3>2, <3>3, <3>4, <3>5, <3>6, <3>7, Zenon
  <2> QED
    BY <2>1, <2>2, Zenon
<1>4. CASE RunSend
  <2>1. CASE put' = put \cup {inRun} /\ UNCHANGED inbound /\ run' \in {"read", "end"} /\ (closed \/ done)
    BY <1>4, <2>1, DiscardStep, Zenon DEF RunSend
  <2>2. CASE inbound' = Append(inbound, inRun) /\ run' = "read" /\ UNCHANGED put
    <3> DEFINE x == inRun
    <3>1. run = "send" /\ inRun' = None /\ UNCHANGED <<arrived, readVars, lifeVars, closeVars>>
      BY <1>4, Zenon DEF RunSend
    <3>2. x \in Msgs /\ x # None /\ inbound \in Seq(Msgs)
      BY <3>1, ChunksAreNumbers, Zenon DEF StreamInv, LoopHasChunk, InTyped
    <3>3. LoopCloses' /\ (Drained => Drained')
      BY MarksStay, Zenon
    <3>4. Handling'
      BY <2>2, <3>1, Zenon DEF Handling, ReadMutexHeld
    <3>5. PICK k \in 0..Chunks : Handed(k)
      BY Zenon
    <3>6. k \in Nat /\ x = k + Len(inbound) + 1 /\ \A i \in 1..Len(inbound) : inbound[i] = k + i
      BY <3>1, <3>5 DEF Handed, Setting
    <3>7. /\ Len(inbound') = Len(inbound) + 1
          /\ \A i \in 1..Len(inbound') : inbound'[i] = k + i
          /\ \A y : y \in Range(inbound') <=> y \in Range(inbound) \/ y = x
      <4>1. /\ Len(Append(inbound, x)) = Len(inbound) + 1
            /\ \A i \in 1..Len(inbound) : Append(inbound, x)[i] = inbound[i]
            /\ Append(inbound, x)[Len(inbound) + 1] = x
            /\ \A y : y \in Range(Append(inbound, x)) <=> y \in Range(inbound) \/ y = x
        BY <3>2, PutOne, Zenon
      <4>2. /\ Len(inbound') = Len(inbound) + 1
            /\ \A i \in 1..Len(inbound) : inbound'[i] = inbound[i]
            /\ inbound'[Len(inbound) + 1] = x
            /\ \A y : y \in Range(inbound') <=> y \in Range(inbound) \/ y = x
        BY <2>2, <4>1, Zenon
      <4>3. Len(inbound) \in Nat
        BY <3>2
      <4>4. \A i \in 1..Len(inbound') : inbound'[i] = k + i
        BY <3>6, <4>2, <4>3
      <4> QED
        BY <4>2, <4>4, Zenon
    <3> HIDE DEF x
    <3>8. Handed(k)'
      <4>1. Len(inbound) \in Nat
        BY <3>2
      <4> QED
        BY <2>2, <3>1, <3>2, <3>3, <3>5, <3>6, <3>7, <4>1 DEF Handed, x
    <3>9. ReadInOrder'
      BY <3>1, Zenon DEF ReadInOrder
    <3>10. Moves({"loop"}, "channel", {x})
      BY <2>2, <3>1, <3>2, <3>7, ChunksAreNumbers, OwnsIs, OwnsNext, Zenon DEF Moves, Still, x
    <3>11. OneOwner'
      BY <3>10, MoveKeepsOwner, Zenon DEF Places
    <3> QED
      BY <3>3, <3>4, <3>5, <3>8, <3>9, <3>11, Zenon
  <2> QED
    BY <1>4, <2>1, <2>2, Zenon DEF RunSend, Put
<1> QED
  BY <1>1, <1>2, <1>3, <1>4, Zenon

\* Read copies out of a chunk it has begun.
LEMMA ReadLockKeepsChunks ==
  ASSUME Setting, StreamInv, ChunksInv, Next, ReadLock, readBuf # None
  PROVE  ChunksInv'
<1> USE DEF ChunksInv, runVars, lifeVars, closeVars
<1> DEFINE m == readBuf
<1>1. Copy(m, left) /\ UNCHANGED <<runVars, inbound, lifeVars, closeVars>>
  BY Zenon DEF ReadLock
<1>2. m \in Msgs /\ m # None /\ left \in 0..ChunkLen
  BY Zenon DEF StreamInv, ReadTyped
<1>3. PICK k \in 0..Chunks : Handed(k)
  BY Zenon
<1>4. ~Drained /\ m = k
  BY <1>3, Zenon DEF Handed, Drained, StreamInv, NothingBehindTheEnd
<1>5. Len(got) + left = m * ChunkLen
  BY <1>3, <1>4, Zenon DEF Handed
<1> HIDE DEF m
<1>6. /\ ReadInOrder' /\ Len(got') + left' = m * ChunkLen
      /\ readBuf' = None <=> left' = 0
      /\ reader' = "idle"
      /\ \/ readBuf' = None /\ put' = put \cup {m}
         \/ readBuf' = m /\ put' = put
  BY <1>1, <1>2, <1>5, CopyInOrder, Zenon
<1>7. LoopCloses' /\ (Drained => Drained')
  BY MarksStay, Zenon
<1>8. Handling'
  BY <1>1, <1>6, Zenon DEF Handling, ReadMutexHeld
<1>9. Handed(k)'
  BY <1>1, <1>2, <1>3, <1>4, <1>6, <1>7 DEF Handed
<1>10. OneOwner'
  <2>1. CASE readBuf' = None /\ put' = put \cup {m}
    <3>1. Moves({"reader"}, "pool", {m})
      BY <1>1, <1>2, <2>1, ChunksAreNumbers, OwnsIs, OwnsNext, Zenon DEF Moves, Still, m
    <3> QED
      BY <3>1, MoveKeepsOwner, Zenon DEF Places
  <2>2. CASE readBuf' = m /\ put' = put
    BY <1>1, <2>2, KeepOwner, Zenon DEF m
  <2> QED
    BY <1>6, <2>1, <2>2, Zenon
<1> QED
  BY <1>3, <1>6, <1>7, <1>8, <1>9, <1>10, Zenon

\* Read takes a chunk from the channel and copies out of it.
LEMMA ReadTakeKeepsChunks ==
  ASSUME Setting, StreamInv, ChunksInv, Next, ReadTake
  PROVE  ChunksInv'
<1> USE DEF ChunksInv, runVars, lifeVars, closeVars
<1> DEFINE m == Head(inbound)
           t == Tail(inbound)
<1>1. /\ Copy(m, ChunkLen) /\ inbound # <<>> /\ inbound' = t
      /\ UNCHANGED <<runVars, lifeVars, closeVars>>
  BY Zenon DEF ReadTake
<1>2. PICK k \in 0..Chunks : Handed(k)
  BY Zenon
<1>3. inbound \in Seq(Msgs) /\ k \in Nat /\ \A i \in 1..Len(inbound) : inbound[i] = k + i
  BY <1>2 DEF StreamInv, InTyped, Handed, Setting
<1>4. /\ m = k + 1 /\ m \in Msgs
      /\ Len(t) = Len(inbound) - 1
      /\ \A i \in 1..Len(t) : t[i] = k + 1 + i
      /\ \A y : y \in Range(inbound) <=> y = m \/ y \in Range(t)
      /\ m \notin Range(t)
  BY <1>1, <1>3, TakeOne, Zenon
<1> HIDE DEF m, t
<1>5. ~Drained /\ readBuf = None /\ left = 0
  BY <1>1, Zenon DEF ReadTake, Handling, ReadMutexHeld, Drained, StreamInv, NothingBehindTheEnd
<1>6. Len(got) + ChunkLen = m * ChunkLen /\ ChunkLen \in 0..ChunkLen
  <2>1. Len(got) + left = k * ChunkLen
    BY <1>2, <1>5, Zenon DEF Handed
  <2>2. Len(got) \in Nat /\ ChunkLen \in Nat
    BY DEF StreamInv, ReadTyped, Setting
  <2>3. (k + 1) * ChunkLen = k * ChunkLen + ChunkLen
    BY <1>3, <2>2, NextChunk
  <2>4. m * ChunkLen = k * ChunkLen + ChunkLen
    BY <1>4, <2>3, Zenon
  <2>5. Len(got) = k * ChunkLen
    BY <1>5, <2>1, <2>2
  <2> QED
    BY <2>2, <2>4, <2>5
<1>7. /\ ReadInOrder' /\ Len(got') + left' = m * ChunkLen
      /\ readBuf' = None <=> left' = 0
      /\ reader' = "idle"
      /\ \/ readBuf' = None /\ put' = put \cup {m}
         \/ readBuf' = m /\ put' = put
  BY <1>1, <1>4, <1>6, CopyInOrder, Zenon
<1>8. LoopCloses' /\ (Drained => Drained')
  BY MarksStay, Zenon
<1>9. Handling'
  BY <1>1, <1>7, Zenon DEF Handling, ReadMutexHeld
<1>10. k + 1 \in 0..Chunks /\ Handed(k + 1)'
  <2>1. k + 1 \in 0..Chunks
    BY <1>3, <1>4 DEF Msgs
  <2>2. \A i \in 1..Len(inbound') : inbound'[i] = k + 1 + i
    BY <1>1, <1>4, Zenon
  <2>3. Len(inbound) \in Nat /\ Len(inbound') = Len(inbound) - 1
    BY <1>1, <1>3, <1>4
  <2>4. run' = "send" \/ (run' = "enter" /\ ~closed' /\ ~done') => inRun' = k + 1 + Len(inbound') + 1
    BY <1>1, <1>2, <1>3, <2>3 DEF Handed
  <2>5. inMap' /\ ~closed' /\ ~done' => arrived' = k + 1 + Len(inbound') + (IF inRun' = None THEN 0 ELSE 1)
    BY <1>1, <1>2, <1>3, <2>3 DEF Handed
  <2>6. (readBuf' # None => readBuf' = k + 1) /\ Len(got') + left' = (k + 1) * ChunkLen
    BY <1>4, <1>7, Zenon
  <2> QED
    BY <2>1, <2>2, <2>4, <2>5, <2>6, Zenon DEF Handed
<1>11. PICK x :
         /\ x = m /\ UNCHANGED <<arrived, inRun>> /\ x \in Range(inbound) /\ x \notin Range(inbound')
         /\ \A y : y # x => (y \in Range(inbound') <=> y \in Range(inbound))
  BY <1>1, <1>4, Zenon
<1>12. /\ Owns("channel", x) /\ ~Owns("channel", x)'
       /\ \A y \in Msgs : y # x => (Owns("channel", y)' <=> Owns("channel", y))
  BY <1>11, OwnsIs, OwnsNext, Zenon
<1>13. OneOwner'
  <2>1. CASE readBuf' = None /\ put' = put \cup {m}
    <3>1. \A y : y \in put' <=> y \in put \/ y = x
      BY <1>11, <2>1, Zenon
    <3>2. Still({"channel", "pool"})
      BY <1>5, <1>11, <2>1, Zenon DEF Still
    <3>3. Owns("pool", x)' /\ \A y \in Msgs : y # x => (Owns("pool", y)' <=> Owns("pool", y))
      BY <3>1, OwnsIs, OwnsNext, Zenon
    <3> QED
      BY <1>12, <3>2, <3>3, MoveOne, Zenon DEF Places
  <2>2. CASE readBuf' = m /\ put' = put
    <3>1. Still({"channel", "reader"})
      BY <1>11, <2>2, Zenon DEF Still
    <3>2. readBuf' = x /\ \A y \in Msgs : y # readBuf
      BY <1>5, <1>11, <2>2, ChunksAreNumbers, Zenon
    <3>3. Owns("reader", x)' /\ \A y \in Msgs : y # x => (Owns("reader", y)' <=> Owns("reader", y))
      BY <3>2, OwnsIs, OwnsNext, Zenon
    <3> QED
      BY <1>12, <3>1, <3>3, MoveOne, Zenon DEF Places
  <2> QED
    BY <1>7, <2>1, <2>2, Zenon
<1> QED
  BY <1>7, <1>8, <1>9, <1>10, <1>13, Zenon

\* Close puts back what is left, after the last enqueue.
LEMMA DrainKeepsChunks ==
  ASSUME Setting, StreamInv, ChunksInv, Next, NEW g \in Closers, CloseDrain(g)
  PROVE  ChunksInv'
<1> USE DEF ChunksInv, runVars, lifeVars
<1> DEFINE S == Range(inbound) \cup ({readBuf} \ {None})
<1>1. /\ close[g] = "read" /\ ~ReadMutexHeld /\ readBuf' = None /\ left' = 0 /\ inbound' = <<>> /\ put' = put \cup S
      /\ UNCHANGED <<runVars, reader, got, lifeVars>>
  BY Zenon DEF CloseDrain, Put
<1>2. run # "send" /\ closed
  BY <1>1, Zenon DEF StreamInv, NothingBehindTheEnd, ClosedFirst
<1>3. LoopCloses'
  BY MarksStay, Zenon
<1>4. Drained'
  <2>1. close'[g] \in {"fin", "remove"}
    BY Zenon DEF CloseDrain, StreamInv, CloseTyped
  <2> QED
    BY <2>1, Zenon DEF Drained
<1>5. Handling'
  BY <1>1, Zenon DEF Handling, ReadMutexHeld
<1>6. PICK k \in 0..Chunks : Handed(k)
  BY Zenon
<1>7. Handed(k)'
  BY <1>1, <1>2, <1>4, <1>6 DEF Handed
<1>8. ReadInOrder'
  BY <1>1, Zenon DEF ReadInOrder
<1>9. OneOwner'
  <2>1. Range(inbound') = {} /\ S \subseteq Msgs
    BY <1>1 DEF Range, StreamInv, InTyped, ReadTyped
  <2>2. \A m \in Msgs : m \in S <=> m \in Range(inbound) \/ m = readBuf
    BY ChunksAreNumbers, Zenon
  <2> HIDE DEF S
  <2>3. Moves({"channel", "reader"}, "pool", S)
    BY <1>1, <2>1, <2>2, ChunksAreNumbers, OwnsIs, OwnsNext, Zenon DEF Moves, Still
  <2> QED
    BY <2>3, MoveKeepsOwner, Zenon DEF Places
<1> QED
  BY <1>3, <1>5, <1>6, <1>7, <1>8, <1>9, Zenon

\* Every step.
LEMMA ChunksStep ==
  ASSUME Setting, StreamInv, ChunksInv, [Next]_vars
  PROVE  ChunksInv'
<1> USE DEF runVars, readVars, lifeVars, closeVars, writeVars, dlVars
<1>1. CASE UNCHANGED vars
  <2>1. OneOwner'
    BY <1>1, KeepOwner, Zenon DEF ChunksInv, vars
  <2> QED
    BY <1>1, <2>1 DEF ChunksInv, Handling, LoopCloses, Handed, Drained, ReadMutexHeld, ReadInOrder, vars
<1>2. CASE Next
  <2>1. CASE RunPSH \/ RunLook \/ RunEnter \/ RunSend
    BY <1>2, <2>1, LoopKeepsChunks, Zenon
  <2>2. CASE RunControl \/ RemoteClose \/ RunRemove \/ RunCloses \/ RunEnds
    <3>1. /\ UNCHANGED <<arrived, inRun, inbound, reader, readBuf, left, got, put>>
          /\ run \notin {"look", "enter", "send"} /\ run' \notin {"look", "enter", "send"}
      BY <2>2, Zenon DEF RunControl, RemoteClose, RunRemove, RunCloses, RunEnds
    <3> QED
      BY <1>2, <3>1, QuietStep, Zenon DEF ChunksInv, Handling, ReadMutexHeld
  <2>3. CASE \/ SessionDone \/ SessionTakes \/ SessionMarks
             \/ (\E d \in {None, "past", "later"} : SetDeadline(d)) \/ Notify
             \/ Close \/ Write \/ WriteStep \/ CloseWrite \/ HalfStep
    <3>1. UNCHANGED <<run, arrived, inRun, inbound, reader, readBuf, left, got, put>>
      BY <2>3, Zenon DEF SessionDone, SessionTakes, SessionMarks, SetDeadline, Notify, Close, Write, WriteStep,
             WriteLock, WriteFrame, CloseWrite, HalfStep, CloseWriteSwap, CloseWriteFIN
    <3> QED
      BY <1>2, <3>1, QuietStep, Zenon DEF ChunksInv, Handling, ReadMutexHeld
  <2>4. CASE Read \/ ReadPoll \/ ReadSync \/ ReadArm \/ ReadWakes \/ ReadExpires
    <3>1. /\ UNCHANGED <<run, arrived, inRun, inbound, readBuf, left, got, put>>
          /\ ReadMutexHeld' => ReadMutexHeld
      BY <2>4, Zenon DEF Read, ReadPoll, ReadSync, ReadArm, ReadWakes, ReadExpires, ReadEnds, ReadMutexHeld
    <3> QED
      BY <1>2, <3>1, QuietStep, Zenon DEF ChunksInv, Handling
  <2>5. CASE ReadLock
    <3>1. CASE readBuf # None
      BY <1>2, <2>5, <3>1, ReadLockKeepsChunks, Zenon
    <3>2. CASE readBuf = None
      <4>1. UNCHANGED <<run, arrived, inRun, inbound, readBuf, left, got, put>>
        BY <2>5, <3>2, Zenon DEF ReadLock
      <4> QED
        BY <1>2, <3>2, <4>1, QuietStep, Zenon
    <3> QED
      BY <3>1, <3>2, Zenon
  <2>6. CASE ReadTake
    BY <1>2, <2>6, ReadTakeKeepsChunks, Zenon
  <2>7. ASSUME NEW g \in Closers, CloseStep(g)
        PROVE  ChunksInv'
    <3>1. CASE CloseDrain(g)
      BY <1>2, <3>1, DrainKeepsChunks, Zenon
    <3>2. CASE CloseSync(g) \/ CloseFIN(g)
      <4>1. UNCHANGED <<run, arrived, inRun, inbound, reader, readBuf, left, got, put>>
        BY <3>2, Zenon DEF CloseSync, CloseFIN
      <4> QED
        BY <1>2, <4>1, QuietStep, Zenon DEF ChunksInv, Handling, ReadMutexHeld
    <3>3. CASE CloseRemove(g)
      <4>1. /\ UNCHANGED <<arrived, inRun, inbound, reader, readBuf, left, got, put>>
            /\ g = Run => run = "close" /\ run' = "read"
            /\ g # Run => run' = run
        BY <3>3, Zenon DEF CloseRemove, ChunksInv, LoopCloses
      <4> QED
        BY <1>2, <4>1, QuietStep, Zenon DEF ChunksInv, Handling, ReadMutexHeld
    <3> QED
      BY <2>7, <3>1, <3>2, <3>3, Zenon DEF CloseStep
  <2> QED
    BY <1>2, <2>1, <2>2, <2>3, <2>4, <2>5, <2>6, <2>7, Zenon DEF Next, RunStep, ReadStep
<1> QED
  BY <1>1, <1>2, Zenon

\* Whatever is closed, read or written meanwhile: a chunk is at one place on its way from the
\* loop through the channel to the reader and the pool, and the way keeps the order.
THEOREM ChunksInvariant ==
  ASSUME Setting
  PROVE  Spec => [](StreamInv /\ ChunksInv)
<1>1. ASSUME Init
      PROVE  ChunksInv
  <2>1. Handling /\ LoopCloses
    BY <1>1, Zenon DEF Init, Handling, LoopCloses, ReadMutexHeld, Closers, App, Run
  <2>2. 0 \in 0..Chunks /\ Handed(0)
    BY <1>1 DEF Init, Handed, Setting
  <2>3. ReadInOrder
    BY <1>1 DEF Init, ReadInOrder
  <2>4. OneOwner
    <3>1. \A m \in Msgs : m > arrived /\ m # inRun /\ m \notin Range(inbound) /\ m # readBuf /\ m \notin put
      BY <1>1 DEF Init, Msgs, Setting, Range
    <3>2. \A m \in Msgs : \A q \in Places : Owns(q, m) <=> q = "peer"
      BY <3>1, OwnsIs, Zenon DEF Places
    <3> QED
      BY <3>2, Zenon DEF OneOwner, Places
  <2> QED
    BY <2>1, <2>2, <2>3, <2>4, Zenon DEF ChunksInv
<1>2. StreamInv /\ ChunksInv /\ [Next]_vars => ChunksInv'
  BY ChunksStep, Zenon
<1> QED
  BY <1>1, <1>2, StreamInvariant, PTL DEF Spec

\* A pooled buffer is never lost and never put back while somebody has it, and Read delivers
\* the bytes of the stream in order and without a gap, for every race of the loop, Read and
\* the three ways to close.
THEOREM ReadsAreInOrder ==
  ASSUME Setting
  PROVE  Spec => [](BufferHasOneOwner /\ ReadInOrder)
<1>1. ASSUME StreamInv, ChunksInv
      PROVE  BufferHasOneOwner /\ ReadInOrder
  <2>1. PICK k \in 0..Chunks : Handed(k)
    BY <1>1, Zenon DEF ChunksInv
  <2>2. \A i \in 1..Len(inbound) : inbound[i] = k + i
    BY <2>1, Zenon DEF Handed
  <2>3. \A i, j \in 1..Len(inbound) : inbound[i] = inbound[j] => i = j
    BY <2>2
  <2> QED
    BY <1>1, <2>3, Zenon DEF ChunksInv, BufferHasOneOwner
<1> QED
  BY <1>1, ChunksInvariant, PTL
=============================================================================
