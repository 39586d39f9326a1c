------------------------------- MODULE Coalesce -------------------------------
(***************************************************************************)
(* pkg/coalesce.Conn, the write buffer between a TLS layer and its socket. *)
(* Writers append records and flush after each burst, one reader flushes   *)
(* before it blocks, and a deadline helper may Close or CloseWrite at any  *)
(* time.  Records are numbered; the socket keeps what reached it.          *)
(***************************************************************************)
EXTENDS Integers, Sequences

CONSTANTS Records,       \* records written in all
          Burst,         \* records of one burst, at most
          HardLimit,     \* bufHardLimit, in records
          Failures       \* bound on failing socket writes

VARIABLES buf, sock, fin, closed,     \* pending records, written ones, FIN sent, raw Close done
          written, burst, wpc,        \* the writer: records so far, in this burst, its step
          rpc,                        \* the reader: "idle", "flush", "blocked"
          phase,                      \* "handshake": the TLS layer writes and reads by turns
          expired, fails, lost, told  \* write deadline passed; failures; a flush failed; reported

vars == <<buf, sock, fin, closed, written, burst, wpc, rpc, expired, fails, lost, told, phase>>

Init ==
  /\ buf = <<>> /\ sock = <<>> /\ fin = FALSE /\ closed = FALSE
  /\ written = 0 /\ burst = 0 /\ wpc = "idle" /\ rpc = "idle"
  /\ expired = FALSE /\ fails = 0 /\ lost = FALSE /\ told = FALSE /\ phase = "handshake"

\* Flush under mu: the buffer is emptied whatever the socket says.
FlushOk ==
  /\ buf = <<>> \/ (~expired /\ ~closed)
  /\ sock' = sock \o buf /\ buf' = <<>>
  /\ UNCHANGED <<fails, lost>>

FlushFails ==
  /\ buf # <<>>
  /\ expired \/ closed \/ fails < Failures
  /\ fails' = IF expired \/ closed THEN fails ELSE fails + 1
  /\ buf' = <<>> /\ lost' = TRUE /\ UNCHANGED sock

\* Write appends; past the hard limit it flushes by itself and drops the error.
Write ==
  /\ wpc = "idle" /\ written < Records /\ burst < Burst /\ ~told /\ ~fin
  /\ phase = "handshake" => rpc = "idle"
  /\ written' = written + 1
  /\ burst' = IF phase = "session" THEN burst + 1 ELSE 0
  /\ buf' = Append(buf, written + 1)
  /\ wpc' = IF Len(buf) + 1 > HardLimit THEN "limit" ELSE "idle"
  /\ UNCHANGED <<sock, fin, closed, rpc, expired, fails, lost, told, phase>>

LimitFlush ==
  /\ wpc = "limit" /\ wpc' = "idle"
  /\ FlushOk \/ FlushFails
  /\ UNCHANGED <<fin, closed, written, burst, rpc, expired, told, phase>>

\* The explicit flush behind every burst; its error ends the session.
EndBurst ==
  /\ wpc = "idle" /\ burst > 0
  /\ \/ FlushOk /\ UNCHANGED told
     \/ FlushFails /\ told' = TRUE
  /\ burst' = 0
  /\ UNCHANGED <<fin, closed, written, wpc, rpc, expired, phase>>

\* The handshake is over; from now on the session flushes after every burst.
Establish ==
  /\ phase = "handshake" /\ rpc = "idle" /\ wpc = "idle" /\ phase' = "session"
  /\ UNCHANGED <<buf, sock, fin, closed, written, burst, wpc, rpc, expired, fails, lost, told>>

SetWriteDeadline ==
  /\ expired' = ~expired /\ wpc = "idle" /\ burst = 0
  /\ UNCHANGED <<buf, sock, fin, closed, written, burst, wpc, rpc, fails, lost, told, phase>>

\* Pending: nothing buffered goes straight to the socket.
Read ==
  /\ rpc = "idle"
  /\ rpc' = IF buf = <<>> THEN "blocked" ELSE "flush"
  /\ UNCHANGED <<buf, sock, fin, closed, written, burst, wpc, expired, fails, lost, told, phase>>

ReadFlush ==
  /\ rpc = "flush"
  /\ \/ FlushOk /\ rpc' = "blocked" /\ UNCHANGED told
     \/ FlushFails /\ rpc' = "idle" /\ told' = TRUE
  /\ UNCHANGED <<fin, closed, written, burst, wpc, expired, phase>>

ReadReturns ==
  /\ rpc = "blocked" /\ rpc' = "idle"
  /\ UNCHANGED <<buf, sock, fin, closed, written, burst, wpc, expired, fails, lost, told, phase>>

\* CloseWrite flushes first and gives up the half-close when that fails.
CloseWrite ==
  /\ wpc = "idle" /\ ~fin
  /\ \/ FlushOk /\ fin' = TRUE /\ UNCHANGED told
     \/ FlushFails /\ told' = TRUE /\ UNCHANGED fin
  /\ UNCHANGED <<closed, written, burst, wpc, rpc, expired, phase>>

\* Close takes no lock: it may fall between any two steps.
Close ==
  /\ ~closed /\ closed' = TRUE
  /\ UNCHANGED <<buf, sock, fin, written, burst, wpc, rpc, expired, fails, lost, told, phase>>

Next ==
  \/ Write \/ LimitFlush \/ Establish \/ EndBurst \/ SetWriteDeadline
  \/ Read \/ ReadFlush \/ ReadReturns \/ CloseWrite \/ Close

Spec == Init /\ [][Next]_vars

\* Records reach the socket in order, and without a gap until a flush failed.
RecordsInOrder ==
  /\ \A i, j \in 1 .. Len(sock) : i < j => sock[i] < sock[j]
  /\ ~lost => sock \o buf = [i \in 1 .. written |-> i]

\* A reader that waits for the peer leaves no record behind that nobody will
\* flush: whatever is buffered belongs to a burst whose own flush is to come.
NoRecordStranded == (rpc = "blocked" /\ buf # <<>>) => phase = "session" /\ burst > 0

\* The FIN never overtakes a record.
FinIsLast == (fin /\ ~lost) => buf = <<>>
=============================================================================
