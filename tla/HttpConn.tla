------------------------------- MODULE HttpConn -------------------------------
(***************************************************************************)
(* protocol/http.Conn: the handshake with the proxy is made by the first   *)
(* Write, under muShake; the connection it yields is published for the     *)
(* reads and later writes.  Close, the deadline setters and the end of the *)
(* dial budget run concurrently with it.                                   *)
(*                                                                         *)
(* A Write carries one unit: "P" can still become an HTTP request line,    *)
(* "R" completes a request, "B" makes it malformed, "X" is no request.     *)
(* A plain proxy ("http") sniffs for a request; "http1" and "h2" are a TLS *)
(* proxy that negotiated HTTP/1.1 or a pooled HTTP/2 session, where the    *)
(* connection owned here is the request stream.                            *)
(***************************************************************************)
EXTENDS Integers, Sequences

CONSTANTS Modes, MaxWrites, MaxPending, MaxDeadlines

VARIABLES mode,
          life, published, finished,  \* life, the published slot, ctxShakeFinished
          ctx,                        \* handshake context: "none", "live", "done"
          closeCtx,                   \* closeCtx cancelled
          pending,                    \* pendingFirstWrite
          wpc, unit, payload, applied,\* the writer; finishShakeFuncsApplied
          conn, closes, owner,        \* the dialled connection, its Closes, who owns it
          dl, queued, lastSet,        \* deadline on it, finishShakeFuncs, last one accepted
          watch,                      \* watchConnCancel callback: "off", "armed", "running"
          cpc, tunnel, accepted, writes, sets

vars == <<mode, life, published, finished, ctx, closeCtx, pending, wpc, unit, payload,
          applied, conn, closes, owner, dl, queued, lastSet, watch, cpc, tunnel,
          accepted, writes, sets>>

shake == <<life, published, finished, ctx, closeCtx>>
link == <<conn, closes, owner, watch>>
timer == <<dl, queued, lastSet, applied, sets>>
bytes == <<pending, unit, payload, tunnel, accepted, writes>>

\* Deadlines: none, the handshake's own, one in the past; the n-th one set is n.
NoDeadline == 0
Budget == -1
Expired == -2

Init ==
  /\ mode \in Modes
  /\ life = "idle" /\ published = FALSE /\ finished = FALSE
  /\ ctx = "none" /\ closeCtx = FALSE
  /\ pending = <<>> /\ unit = "none" /\ payload = <<>> /\ applied = FALSE
  /\ wpc = "idle" /\ cpc = "idle"
  /\ conn = "none" /\ closes = 0 /\ owner = "none"
  /\ dl = NoDeadline /\ queued = <<>> /\ lastSet = NoDeadline /\ watch = "off"
  /\ tunnel = <<>> /\ accepted = <<>> /\ writes = 0 /\ sets = 0

Closed == life = "closed"

\* discardCandidate, or the Close of whoever took the published slot.
Discard ==
  /\ conn' = IF conn = "none" THEN "none" ELSE "closed"
  /\ closes' = IF conn = "none" THEN closes ELSE closes + 1
  /\ owner' = "none"

Return(n) ==
  /\ wpc' = "idle" /\ unit' = "none"
  /\ accepted' = IF n = 1 THEN Append(accepted, <<writes, unit>>) ELSE accepted

(***************************************************************************)
(* Write                                                                   *)
(***************************************************************************)
\* The published connection takes the bytes directly.
WritePublished(x) ==
  /\ wpc = "idle" /\ writes < MaxWrites /\ published
  /\ writes' = writes + 1
  /\ IF conn = "open" THEN tunnel' = Append(tunnel, <<writes + 1, x>>) /\ accepted' = Append(accepted, <<writes + 1, x>>)
     ELSE UNCHANGED <<tunnel, accepted>>
  /\ UNCHANGED <<mode, shake, pending, unit, payload, wpc, link, timer, cpc>>

\* Closed, or a handshake that is over without a connection: io.EOF.
WriteEof ==
  /\ wpc = "idle" /\ writes < MaxWrites /\ ~published /\ (Closed \/ finished)
  /\ writes' = writes + 1
  /\ UNCHANGED <<mode, shake, pending, unit, payload, tunnel, accepted, wpc, link, timer, cpc>>

Sniffs == mode = "http"

\* What the bytes seen so far are: still possibly a request, a request, or neither.
Kind(s) ==
  CASE \A i \in 1 .. Len(s) : s[i][2] = "P" -> "prefix"
    [] \E i \in 1 .. Len(s) : s[i][2] = "B" -> "malformed"
    [] s[Len(s)][2] = "R" -> "request"
    [] OTHER -> "raw"

\* A first write that may become a request is kept and reported as written.
WriteKept(x) ==
  /\ wpc = "idle" /\ writes < MaxWrites /\ ~published /\ ~Closed /\ ~finished
  /\ Sniffs /\ Kind(Append(pending, <<writes + 1, x>>)) = "prefix"
  /\ writes' = writes + 1
  /\ IF Len(pending) + 1 > MaxPending
     THEN pending' = <<>> /\ accepted' = <<>>     \* an error: the prefix is given up
     ELSE /\ pending' = Append(pending, <<writes + 1, x>>)
          /\ accepted' = Append(accepted, <<writes + 1, x>>)
  /\ UNCHANGED <<mode, shake, unit, payload, tunnel, wpc, link, timer, cpc>>

\* http.ReadRequest refuses the bytes; what was kept stays, this write with it.
WriteRefused(x) ==
  /\ wpc = "idle" /\ writes < MaxWrites /\ ~published /\ ~Closed /\ ~finished
  /\ Sniffs /\ Kind(Append(pending, <<writes + 1, x>>)) = "malformed"
  /\ writes' = writes + 1
  /\ pending' = IF pending = <<>> THEN <<>> ELSE Append(pending, <<writes + 1, x>>)
  /\ UNCHANGED <<mode, shake, unit, payload, tunnel, accepted, wpc, link, timer, cpc>>

Handshakes(x) == ~Sniffs \/ Kind(Append(pending, <<writes + 1, x>>)) \in {"request", "raw"}

WriteStartForgets(x) ==
  /\ wpc = "idle" /\ writes < MaxWrites /\ ~published /\ ~Closed /\ ~finished
  /\ Handshakes(x)
  /\ writes' = writes + 1 /\ unit' = x
  /\ payload' = <<<<writes + 1, x>>>>
  /\ pending' = <<>> /\ wpc' = "begin"
  /\ UNCHANGED <<mode, shake, tunnel, accepted, link, timer, cpc>>

\* The handshake starts with what was kept and this write.
WriteStart(x) ==
  /\ wpc = "idle" /\ writes < MaxWrites /\ ~published /\ ~Closed /\ ~finished
  /\ Handshakes(x)
  /\ writes' = writes + 1 /\ unit' = x
  /\ payload' = Append(pending, <<writes + 1, x>>)
  /\ pending' = <<>> /\ wpc' = "begin"
  /\ UNCHANGED <<mode, shake, tunnel, accepted, link, timer, cpc>>

\* life: idle -> handshaking, unless Close came first.
Begin ==
  /\ wpc = "begin"
  /\ life' = IF life = "idle" THEN "handshaking" ELSE life
  /\ wpc' = IF life' = "closed" THEN "fail" ELSE "context"
  /\ UNCHANGED <<mode, published, finished, ctx, closeCtx, bytes, link, timer, cpc>>

\* newHandshakeContext: bound to closeCtx and to the dial budget.
NewHandshakeContext ==
  /\ wpc = "context"
  /\ ctx' = IF closeCtx \/ Closed THEN "done" ELSE "live"
  /\ wpc' = "dial"
  /\ UNCHANGED <<mode, life, published, finished, closeCtx, bytes, link, timer, cpc>>

\* The dial may ignore its context and answer late.
Dial ==
  /\ wpc = "dial"
  /\ \/ /\ wpc' = "check"
        /\ IF mode = "h2" THEN UNCHANGED <<conn, owner>>
           ELSE conn' = "open" /\ owner' = "writer"
     \/ wpc' = "fail" /\ UNCHANGED <<conn, owner>>
  /\ UNCHANGED <<mode, shake, bytes, closes, watch, timer, cpc>>

Check ==
  /\ wpc = "check"
  /\ IF Closed THEN Discard /\ wpc' = "fail"
     ELSE wpc' = "connect" /\ UNCHANGED <<conn, closes, owner>>
  /\ UNCHANGED <<mode, shake, bytes, watch, timer, cpc>>

\* connectHttp1/2: refuse a context that is done, then arm the deadline and the watch.
Connect ==
  /\ wpc = "connect"
  /\ IF ctx = "done" THEN Discard /\ wpc' = "fail" /\ UNCHANGED <<dl, watch>>
     ELSE /\ wpc' = "talk" /\ watch' = "armed"
          /\ dl' = IF mode = "h2" THEN dl ELSE Budget
          /\ conn' = "open" /\ owner' = "writer" /\ UNCHANGED closes
  /\ UNCHANGED <<mode, shake, bytes, queued, lastSet, applied, sets, cpc>>

\* The proxy refuses, the stream breaks or the payload cannot be written.
TalkFails ==
  /\ wpc = "talk"
  /\ Discard /\ dl' = NoDeadline /\ watch' = "off" /\ wpc' = "fail"
  /\ UNCHANGED <<mode, shake, bytes, queued, lastSet, applied, sets, cpc>>

\* The tunnel stands and has taken the payload; the watch is stopped, the deadline
\* cleared.  Over HTTP/2 a context that is done by now ends the attempt.
Talk ==
  /\ wpc = "talk" /\ dl # Expired
  /\ watch' = IF mode # "h2" /\ watch = "running" THEN "running" ELSE "off"
  /\ IF mode = "h2" /\ ctx = "done"
     THEN Discard /\ wpc' = "fail" /\ UNCHANGED <<dl, tunnel>>
     ELSE /\ tunnel' = tunnel \o payload /\ dl' = NoDeadline /\ wpc' = "publish"
          /\ UNCHANGED <<conn, closes, owner>>
  /\ UNCHANGED <<mode, shake, pending, unit, payload, accepted, writes, queued,
                 lastSet, applied, sets, cpc>>

\* publishConn, one atomic operation per step.
Publish ==
  /\ wpc = "publish"
  /\ IF Closed THEN Discard /\ wpc' = "fail"
     ELSE wpc' = "install" /\ UNCHANGED <<conn, closes, owner>>
  /\ UNCHANGED <<mode, shake, bytes, watch, timer, cpc>>

Install ==
  /\ wpc = "install"
  /\ published' = TRUE /\ owner' = "slot" /\ wpc' = "ready"
  /\ UNCHANGED <<mode, life, finished, ctx, closeCtx, bytes, conn, closes, watch, timer, cpc>>

Ready ==
  /\ wpc = "ready"
  /\ life' = IF life = "handshaking" THEN "ready" ELSE life
  /\ wpc' = "recheck"
  /\ UNCHANGED <<mode, published, finished, ctx, closeCtx, bytes, link, timer, cpc>>

Recheck ==
  /\ wpc = "recheck"
  /\ wpc' = IF Closed THEN "takeBack" ELSE "apply"
  /\ UNCHANGED <<mode, shake, bytes, link, timer, cpc>>

TakeBack ==
  /\ wpc = "takeBack" /\ wpc' = "fail"
  /\ published' = FALSE
  /\ IF published THEN Discard ELSE UNCHANGED <<conn, closes, owner>>
  /\ UNCHANGED <<mode, life, finished, ctx, closeCtx, bytes, watch, timer, cpc>>

Latest == IF queued = <<>> THEN dl ELSE queued[Len(queued)]

\* applyFinishShakeFuncs replays the deadlines set during the handshake.
Apply ==
  /\ wpc = "apply" /\ wpc' = "done"
  /\ applied' = TRUE
  /\ dl' = IF mode = "h2" \/ ~published THEN dl ELSE Latest
  /\ UNCHANGED <<mode, shake, bytes, link, queued, lastSet, sets, cpc>>

\* Write returns; the deferred calls cancel the context and end the handshake.
Finish ==
  /\ wpc \in {"done", "fail"}
  /\ Return(IF wpc = "done" THEN 1 ELSE 0)
  /\ finished' = TRUE /\ ctx' = "done"
  /\ UNCHANGED <<mode, life, published, closeCtx, pending, payload, tunnel, writes,
                 link, timer, cpc>>

\* The dial budget ends, or Close cancels the context: the watch starts its callback.
Expire ==
  /\ ctx = "live" /\ ctx' = "done"
  /\ UNCHANGED <<mode, life, published, finished, closeCtx, bytes, wpc, link, timer, cpc>>

WatchStarts ==
  /\ watch = "armed" /\ ctx = "done" /\ watch' = "running"
  /\ UNCHANGED <<mode, shake, bytes, wpc, conn, closes, owner, timer, cpc>>

\* Its SetDeadline(now) wakes the handshake, or arrives once that is over.
WatchRuns ==
  /\ watch = "running" /\ watch' = "off"
  /\ dl' = IF mode = "h2" THEN dl ELSE Expired
  /\ UNCHANGED <<mode, shake, bytes, wpc, conn, closes, owner, queued, lastSet,
                 applied, sets, cpc>>

(***************************************************************************)
(* setDeadlineDuringShake and Close                                        *)
(***************************************************************************)
SetDeadline ==
  /\ sets < MaxDeadlines /\ sets' = sets + 1
  /\ IF applied \/ finished
     THEN /\ dl' = IF published /\ mode # "h2" THEN sets + 1 ELSE dl
          /\ lastSet' = IF published /\ mode # "h2" THEN sets + 1 ELSE lastSet
          /\ UNCHANGED queued
     ELSE /\ queued' = Append(queued, sets + 1) /\ lastSet' = sets + 1
          /\ UNCHANGED dl
  /\ UNCHANGED <<mode, shake, bytes, wpc, link, applied, cpc>>

Close ==
  /\ cpc = "idle" /\ cpc' = "cancel" /\ life' = "closed"
  /\ UNCHANGED <<mode, published, finished, ctx, closeCtx, bytes, wpc, link, timer>>

CloseCancel ==
  /\ cpc = "cancel" /\ cpc' = "swap"
  /\ closeCtx' = TRUE /\ finished' = TRUE
  /\ ctx' = IF ctx = "live" THEN "done" ELSE ctx
  /\ UNCHANGED <<mode, life, published, bytes, wpc, link, timer>>

CloseSwap ==
  /\ cpc = "swap" /\ cpc' = "done"
  /\ published' = FALSE
  /\ IF published THEN Discard ELSE UNCHANGED <<conn, closes, owner>>
  /\ UNCHANGED <<mode, life, finished, ctx, closeCtx, bytes, wpc, watch, timer>>

Next ==
  \/ \E x \in {"P", "R", "B", "X"} :
       WritePublished(x) \/ WriteKept(x) \/ WriteRefused(x) \/ WriteStart(x)
  \/ WriteEof \/ Begin \/ NewHandshakeContext \/ Dial \/ Check \/ Connect
  \/ TalkFails \/ Talk \/ Publish \/ Install \/ Ready \/ Recheck \/ TakeBack
  \/ Apply \/ Finish \/ Expire \/ WatchStarts \/ WatchRuns
  \/ SetDeadline \/ Close \/ CloseCancel \/ CloseSwap

Spec == Init /\ [][Next]_vars

\* Whichever of the handshake and Close comes last, the dialled connection is
\* closed exactly once and the slot is empty (publishConn, Conn.Close).
ClosedOnce ==
  /\ closes <= 1
  /\ (cpc = "done" /\ wpc = "idle") => conn # "open" /\ ~published

\* A connection is open only while the writer or the published slot holds it:
\* a handshake that failed anywhere leaves none behind.
OpenIsHeld == conn = "open" => (owner = "writer" /\ wpc # "idle") \/ (owner = "slot" /\ (published \/ wpc = "takeBack"))

\* The deadline on an established connection is the last one a setter accepted,
\* neither the handshake's own nor a forgotten one.  (A watch that was already
\* running when the handshake ended is the exception.)
DeadlineIsLastSet ==
  (published /\ ~Closed /\ wpc = "idle" /\ mode # "h2" /\ dl # Expired) => dl = lastSet

\* The bytes reported as written and the ones given to the tunnel agree: the
\* sniffed prefix is neither lost nor repeated, and goes first.
TunnelInOrder ==
  /\ \A i, j \in 1 .. Len(tunnel) : i < j => tunnel[i][1] < tunnel[j][1]
  /\ (published /\ wpc = "idle") => \A i \in 1 .. Len(accepted) :
        (\E j \in 1 .. Len(tunnel) : tunnel[j] = accepted[i])
=============================================================================
