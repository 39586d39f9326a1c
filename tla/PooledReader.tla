----------------------------- MODULE PooledReader -----------------------------
(***************************************************************************)
(* The pooled buffered readers of the byte streams:                        *)
(* pkg/zeroalloc/bufio.Reader and its three owners.  "plain" is            *)
(* netproxy.BufferedReaderConn, "header" is the conn of                    *)
(* transport/httpheader (it first discards an HTTP response header) and    *)
(* "sniff" is pkg/bufferred_conn.BufferedConn (peek, unread, explicit      *)
(* release).  One goroutine reads, another one closes; the backing array   *)
(* goes back to the shared pool and may then belong to another connection. *)
(*                                                                         *)
(* The stream is the numbers 1 .. newlines' last + Body.  In a "header"    *)
(* connection it starts with a header whose lines end at the bytes of      *)
(* newlines; a line of one byte is the blank line.                         *)
(***************************************************************************)
EXTENDS Integers, Sequences, FiniteSets

CONSTANTS Kinds,         \* which owners are checked
          Size,          \* len(Reader.buf)
          Caps,          \* lengths of the slices given to Read
          Headers,       \* sets of newline positions of the response header
          MaxHeader,     \* maxResponseHeader
          Body,          \* bytes of the stream behind the header
          Faults         \* bound on timeouts, resets, cancellations and panics

VARIABLES kind, newlines,
          data, r, err, last, held,     \* Reader: buf[0:w], r, err, lastByte, buf # nil
          next,                         \* next byte the underlay will give
          net,                          \* "open", "closed"
          readers, released, termErr,   \* the release gate
          headerRead, readErr, total,   \* httpheader's parse
          pc, want, result,             \* the reading goroutine
          closer,                       \* the closing goroutine
          got, puts, faults, retried

reader == <<data, r, err, last, held>>
gate == <<readers, released, termErr>>
parse == <<headerRead, readErr, total>>
vars == <<kind, newlines, reader, next, net, gate, parse, pc, want, result,
          closer, got, puts, faults, retried>>

Terminal == {"eof", "closed", "canceled"}
Retryable == {"timeout"}
Errors == Terminal \union Retryable \union {"reset", "noProgress", "tooLarge", "full"}

Highest(S) == CHOOSE x \in S : \A y \in S : y <= x
HeaderLen == IF kind = "header" THEN Highest(newlines) ELSE 0
Length == HeaderLen + Body

Init ==
  /\ kind \in Kinds
  /\ newlines \in (IF kind = "header" THEN Headers ELSE {{}})
  /\ data = <<>> /\ r = 0 /\ err = "nil" /\ last = 0 /\ held = TRUE
  /\ next = 1 /\ net = "open"
  /\ readers = 0 /\ released = FALSE /\ termErr = "nil"
  /\ headerRead = (kind # "header") /\ readErr = "nil" /\ total = 0
  /\ pc = "idle" /\ want = 0 /\ result = "nil"
  /\ closer = "idle"
  /\ got = <<>> /\ puts = 0 /\ faults = 0 /\ retried = FALSE

Buffered == Len(data) - r

IsTerminalReadErr(e) == e \in Terminal

\* One Read of the underlay into room bytes: a count and an error.
Underlay(room) ==
  IF net = "closed" THEN {[n |-> 0, e |-> "closed"]}
  ELSE {[n |-> n, e |-> "nil"] : n \in 0 .. (IF Length - next + 1 < room THEN Length - next + 1 ELSE room)}
         \union (IF next > Length THEN {[n |-> 0, e |-> "eof"]} ELSE {})
         \union (IF next = Length THEN {[n |-> 1, e |-> "eof"]} ELSE {})
         \union (IF faults < Faults THEN [n : {0}, e : {"timeout", "reset", "canceled"}] ELSE {})

Arrived(o) == [i \in 1 .. o.n |-> next + i - 1]
Counted(o) == faults' = faults + (IF o.e \in {"timeout", "reset", "canceled"} THEN 1 ELSE 0)

\* Put: the array leaves the Reader for the pool.
Put ==
  /\ held' = FALSE /\ data' = <<>> /\ r' = 0 /\ err' = "nil" /\ last' = 0
  /\ puts' = puts + (IF held THEN 1 ELSE 0)

\* releaseIfDrainedLocked, with the reader count and the terminal error of the step.
ReleaseIfDrained(rd, t) ==
  IF released \/ rd # 0 \/ t = "nil" \/ Buffered # 0
  THEN UNCHANGED <<released, reader, puts>>
  ELSE released' = TRUE /\ Put

(***************************************************************************)
(* The reading goroutine.                                                  *)
(***************************************************************************)
Enter(cap) ==
  /\ pc = "idle" /\ kind # "sniff"
  /\ want' = cap
  /\ IF released
     THEN result' = termErr /\ UNCHANGED <<pc, readers>>
     ELSE /\ readers' = readers + 1
          /\ pc' = IF headerRead THEN "read" ELSE "parse"
          /\ UNCHANGED result
  /\ total' = 0
  /\ UNCHANGED <<kind, newlines, reader, next, net, released, termErr, headerRead,
                 readErr, closer, got, puts, faults, retried>>

EnterSniff(cap) ==
  /\ pc = "idle" /\ kind = "sniff"
  /\ want' = cap
  /\ IF held THEN pc' = "read" /\ UNCHANGED result
     ELSE result' = "closed" /\ UNCHANGED pc
  /\ UNCHANGED <<kind, newlines, reader, next, net, gate, parse, closer, got,
                 puts, faults, retried>>

Leave(e) == pc' = IF IsTerminalReadErr(e) THEN "note" ELSE "exit"

Give(s) == got' = got \o s

\* Reader.Read with bytes in the window: copy what fits.
Copied(d, from) ==
  LET n == IF Len(d) - from < want THEN Len(d) - from ELSE want IN
  /\ data' = d /\ r' = from + n /\ last' = d[from + n]
  /\ Give(SubSeq(d, from + 1, from + n))
  /\ result' = "nil" /\ pc' = "exit"

ReadWindow ==
  /\ pc = "read" /\ readErr = "nil" /\ Buffered > 0
  /\ Copied(data, r)
  /\ UNCHANGED <<kind, newlines, err, held, next, net, gate, parse, want, closer,
                 puts, faults, retried>>

\* An error that came with the last bytes is reported once they are gone.
ReadPendingErr ==
  /\ pc = "read" /\ readErr = "nil" /\ Buffered = 0 /\ err # "nil"
  /\ result' = err /\ err' = "nil" /\ Leave(err)
  /\ UNCHANGED <<kind, newlines, data, r, last, held, next, net, gate, parse, want,
                 closer, got, puts, faults, retried>>

\* The large read goes straight into the caller's slice.
ReadDirect ==
  /\ pc = "read" /\ readErr = "nil" /\ Buffered = 0 /\ err = "nil" /\ want >= Size
  /\ \E o \in Underlay(want) :
       /\ next' = next + o.n /\ Give(Arrived(o)) /\ Counted(o)
       /\ last' = IF o.n > 0 THEN next + o.n - 1 ELSE last
       /\ result' = o.e /\ Leave(o.e)
  /\ UNCHANGED <<kind, newlines, data, r, err, held, net, gate, parse, want, closer,
                 puts, retried>>

ReadOnce ==
  /\ pc = "read" /\ readErr = "nil" /\ Buffered = 0 /\ err = "nil" /\ want < Size
  /\ \E o \in Underlay(Size) :
       /\ next' = next + o.n /\ Counted(o)
       /\ IF o.n = 0
          THEN /\ result' = o.e /\ Leave(o.e)
               /\ data' = <<>> /\ r' = 0
               /\ UNCHANGED <<err, last, got>>
          ELSE Copied(Arrived(o), 0) /\ err' = o.e
  /\ UNCHANGED <<kind, newlines, held, net, gate, parse, want, closer, puts, retried>>

\* A panic of the underlay unwinds through the deferred exitRead.
Panic ==
  /\ pc = "read" /\ readErr = "nil" /\ Buffered = 0 /\ err = "nil" /\ faults < Faults
  /\ kind # "sniff"
  /\ faults' = faults + 1 /\ pc' = "exit" /\ result' = "panic"
  /\ UNCHANGED <<kind, newlines, reader, next, net, gate, parse, want, closer, got,
                 puts, retried>>

Note ==
  /\ pc = "note" /\ kind # "sniff"
  /\ termErr' = IF termErr = "nil" THEN result ELSE termErr
  /\ pc' = "exit"
  /\ UNCHANGED <<kind, newlines, reader, next, net, readers, released, parse, want,
                 result, closer, got, puts, faults, retried>>

ExitRead ==
  /\ pc = "exit" /\ kind # "sniff"
  /\ readers' = readers - 1
  /\ ReleaseIfDrained(readers - 1, termErr)
  /\ pc' = "idle"
  /\ UNCHANGED <<kind, newlines, next, net, termErr, parse, want, result, closer, got,
                 faults, retried>>

(***************************************************************************)
(* fill, and the response header of httpheader: ReadSlice line by line.    *)
(***************************************************************************)
Fill(o) ==
  /\ data' = SubSeq(data, r + 1, Len(data)) \o Arrived(o) /\ r' = 0
  /\ next' = next + o.n /\ Counted(o)
  /\ err' = IF o.n = 0 /\ o.e = "nil" THEN "noProgress" ELSE o.e

Ends == {i \in r + 1 .. Len(data) : data[i] \in newlines}

HeaderFails(e) ==
  /\ result' = e
  /\ IF e \in Retryable
     THEN /\ pc' = "exit" /\ retried' = TRUE
          /\ UNCHANGED <<headerRead, readErr, termErr>>
     ELSE /\ headerRead' = TRUE /\ readErr' = e /\ pc' = "exit"
          /\ termErr' = (IF termErr = "nil" THEN e ELSE termErr)
          /\ UNCHANGED retried

ParseLine ==
  /\ pc = "parse" /\ Ends # {}
  /\ LET i == CHOOSE x \in Ends : \A y \in Ends : x <= y IN
     /\ r' = i /\ last' = data[i]
     /\ total' = total + i - r
     /\ IF total + i - r > MaxHeader
        THEN HeaderFails("tooLarge")
        ELSE /\ UNCHANGED <<readErr, termErr, result, retried>>
             /\ IF i = r + 1 THEN headerRead' = TRUE /\ pc' = "read"
                ELSE UNCHANGED <<headerRead, pc>>
  /\ UNCHANGED <<kind, newlines, data, err, held, next, net, readers, released, want,
                 closer, got, puts, faults>>

\* No newline in the window: a pending error or a full buffer ends the slice,
\* which consumes what the window holds.
ParseErr ==
  /\ pc = "parse" /\ Ends = {} /\ (err # "nil" \/ Buffered >= Size)
  /\ r' = Len(data) /\ err' = "nil"
  /\ last' = (IF Buffered > 0 THEN data[Len(data)] ELSE last)
  /\ total' = total + Buffered
  /\ HeaderFails(IF total + Buffered > MaxHeader \/ err = "nil" THEN "tooLarge" ELSE err)
  /\ UNCHANGED <<kind, newlines, data, held, next, net, readers, released, want,
                 closer, got, puts, faults>>

ParseFill ==
  /\ pc = "parse" /\ Ends = {} /\ err = "nil" /\ Buffered < Size
  /\ \E o \in Underlay(Size - Buffered) : Fill(o)
  /\ UNCHANGED <<kind, newlines, last, held, net, gate, parse, pc, want, result,
                 closer, got, puts, retried>>

\* A header that failed for good: every later Read reports it.
ReadSticky ==
  /\ pc = "read" /\ readErr # "nil"
  /\ result' = readErr /\ pc' = "exit"
  /\ UNCHANGED <<kind, newlines, reader, next, net, gate, parse, want, closer, got,
                 puts, faults, retried>>

(***************************************************************************)
(* The sniffing owner: Peek, the relay prefix, UnreadByte, ReleaseReader.  *)
(***************************************************************************)
SniffExit ==
  /\ kind = "sniff" /\ pc \in {"note", "exit"}
  /\ pc' = "idle"
  /\ UNCHANGED <<kind, newlines, reader, next, net, gate, parse, want, result,
                 closer, got, puts, faults, retried>>

Sniffs == kind = "sniff" /\ pc = "idle" /\ held

\* Peek fills until want bytes are there; the pending error is consumed only
\* when the window stays short of it.
PeekFill(n) ==
  /\ Sniffs /\ Buffered < n /\ Buffered < Size /\ err = "nil"
  /\ last' = 0
  /\ \E o \in Underlay(Size - Buffered) : Fill(o)
  /\ UNCHANGED <<kind, newlines, held, net, gate, parse, pc, want, result, closer,
                 got, puts, retried>>

Peek(n) ==
  /\ Sniffs /\ (Buffered >= n \/ Buffered >= Size \/ err # "nil")
  /\ last' = 0
  /\ result' = IF n > Size THEN "full" ELSE IF Buffered >= n THEN "nil" ELSE err
  /\ err' = IF Buffered < n /\ n <= Size THEN "nil" ELSE err
  /\ UNCHANGED <<kind, newlines, data, r, held, next, net, gate, parse, pc, want,
                 closer, got, puts, faults, retried>>

TakeRelayPrefix ==
  /\ Sniffs /\ Buffered > 0
  /\ Give(SubSeq(data, r + 1, Len(data)))
  /\ r' = Len(data) /\ last' = 0
  /\ UNCHANGED <<kind, newlines, data, err, held, next, net, gate, parse, pc, want,
                 result, closer, puts, faults, retried>>

UnreadByte ==
  /\ Sniffs /\ last # 0 /\ ~(r = 0 /\ Len(data) > 0)
  /\ IF r > 0 THEN r' = r - 1 /\ data' = [data EXCEPT ![r] = last]
     ELSE r' = 0 /\ data' = <<last>>
  /\ last' = 0 /\ got' = SubSeq(got, 1, Len(got) - 1)
  /\ UNCHANGED <<kind, newlines, err, held, next, net, gate, parse, pc, want, result,
                 closer, puts, faults, retried>>

ReleaseReader ==
  /\ kind = "sniff" /\ pc = "idle" /\ net = "closed" /\ held
  /\ Put
  /\ UNCHANGED <<kind, newlines, next, net, gate, parse, pc, want, result, closer,
                 got, faults, retried>>

(***************************************************************************)
(* The closing goroutine: first the gate, then the underlay.               *)
(***************************************************************************)
Close ==
  /\ closer = "idle" /\ closer' = "closing"
  /\ IF kind = "sniff" THEN UNCHANGED <<gate, reader, puts>>
     ELSE LET t == IF termErr = "nil" THEN "closed" ELSE termErr IN
          termErr' = t /\ ReleaseIfDrained(readers, t) /\ UNCHANGED readers
  /\ UNCHANGED <<kind, newlines, next, net, parse, pc, want, result, got, faults, retried>>

CloseUnderlay ==
  /\ closer = "closing" /\ closer' = "done" /\ net' = "closed"
  /\ UNCHANGED <<kind, newlines, reader, next, gate, parse, pc, want, result, got,
                 puts, faults, retried>>

Next ==
  \/ \E cap \in Caps : Enter(cap) \/ EnterSniff(cap) \/ Peek(cap) \/ PeekFill(cap)
  \/ ReadWindow \/ ReadPendingErr \/ ReadDirect \/ ReadOnce \/ Panic \/ Note
  \/ ExitRead \/ ParseLine \/ ParseErr \/ ParseFill \/ ReadSticky \/ SniffExit
  \/ TakeRelayPrefix \/ UnreadByte \/ ReleaseReader \/ Close \/ CloseUnderlay

Spec == Init /\ [][Next]_vars

\* The fields hold values of their types; the window lies within the array.
TypeOK ==
  /\ Len(data) <= Size /\ r \in 0 .. Len(data) /\ err \in Errors \union {"nil"}
  /\ termErr \in Errors \union {"nil"} /\ readers \in 0 .. 1 /\ puts \in 0 .. 1

\* The array is back in the pool only when no Read is inside the reader, the
\* stream has ended for this connection, and the window was drained; and it
\* is put there once (BufferedReaderConn.releaseIfDrainedLocked).
ReturnedWhenDone ==
  /\ puts = (IF held THEN 0 ELSE 1)
  /\ pc \in {"read", "parse"} => held
  /\ (kind # "sniff" /\ ~held) => released /\ termErr # "nil" /\ readers = 0

\* A connection whose read side is over, with nobody inside and nothing
\* buffered, has given its array back: neither the order of the last Read and
\* Close nor a panic leaves it behind.
DrainedIsReturned ==
  (kind # "sniff" /\ pc = "idle" /\ termErr # "nil" /\ Buffered = 0) => released

\* What Read handed out, followed by the window, is an unbroken stretch of the
\* stream up to the last byte taken from the underlay; it begins right behind
\* the response header, or inside it when a timeout interrupted the parse.
NothingLost ==
  LET out == got \o SubSeq(data, r + 1, Len(data)) IN
  (kind # "sniff" \/ held) =>
  /\ \A i \in 1 .. Len(out) : out[i] = next - 1 - Len(out) + i
  /\ (headerRead /\ readErr = "nil" /\ ~retried) => next - 1 - Len(out) = HeaderLen
  /\ (headerRead /\ readErr = "nil") => next - 1 - Len(out) <= HeaderLen
=============================================================================
