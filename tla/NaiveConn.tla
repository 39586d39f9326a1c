------------------------------- MODULE NaiveConn -------------------------------
(***************************************************************************)
(* dialer/naive.naiveConn: the CONNECT request of a pooled HTTP/2 session  *)
(* is sent by whichever Read or Write comes first; the others wait for its *)
(* outcome.  A refused request is retried once on a fresh session.  Close  *)
(* and the end of the handshake budget run concurrently.  The request      *)
(* lives as long as the connection, the handshake context only until the   *)
(* answer: an AfterFunc on it cancels the request.                         *)
(***************************************************************************)
EXTENDS Integers, Sequences, FiniteSets

CONSTANTS Callers,   \* "r" reads, the others write
          Rounds     \* calls each of them makes

VARIABLES started, done, failed, stream, closed,   \* the state under stateMu
          saved,                                   \* requestCancel is stored
          pc, calls, attempt, owner,
          request,   \* <<status of the request of attempt 1, of attempt 2>>
          body,      \* same for the stream over its answer
          watch,     \* handshake watch: "off", "armed", "fired"
          budget,    \* the handshake context is live
          closeCtx, cpc,
          sent, told \* writes the stream took, writes reported as done

vars == <<started, done, failed, stream, closed, saved, pc, calls, attempt, owner, request, body,
          watch, budget, closeCtx, cpc, sent, told>>

Init ==
  /\ started = FALSE /\ done = FALSE /\ failed = FALSE /\ stream = 0 /\ closed = FALSE /\ saved = FALSE
  /\ pc = [c \in Callers |-> "idle"] /\ calls = [c \in Callers |-> 0]
  /\ attempt = 0 /\ owner = "none"
  /\ request = <<"none", "none">> /\ body = <<"none", "none">>
  /\ watch = "off" /\ budget = TRUE /\ closeCtx = FALSE /\ cpc = "idle" /\ sent = {} /\ told = {}

state == <<started, done, failed, stream, closed, saved>>
hs == <<attempt, owner, request, body, watch, budget>>

Return(c) == pc' = [pc EXCEPT ![c] = "idle"]
Take(c) == sent' = IF c = "r" THEN sent ELSE sent \cup {<<c, calls[c]>>}
Tell(c) == told' = IF c = "r" THEN told ELSE told \cup {<<c, calls[c]>>}

\* ensureHandshake: refused when closed, else the handshake's owner or a waiter.
Call(c) ==
  /\ pc[c] = "idle" /\ calls[c] < Rounds
  /\ calls' = [calls EXCEPT ![c] = @ + 1]
  /\ IF closed THEN UNCHANGED <<started, owner, pc>>
     ELSE IF started THEN pc' = [pc EXCEPT ![c] = "wait"] /\ UNCHANGED <<started, owner>>
     ELSE pc' = [pc EXCEPT ![c] = "request"] /\ started' = TRUE /\ owner' = c
  /\ UNCHANGED <<done, failed, stream, closed, saved, attempt, request, body, watch, budget, closeCtx, cpc, sent, told>>

\* A waiter is woken; a writer then sends its bytes itself.
Woken(c) ==
  /\ pc[c] = "wait" /\ done
  /\ IF closed \/ failed \/ stream = 0 \/ body[stream] # "open" THEN UNCHANGED <<sent, told>>
     ELSE Take(c) /\ Tell(c)
  /\ Return(c)
  /\ UNCHANGED <<state, calls, hs, closeCtx, cpc>>

\* The CONNECT request goes out, bound to closeCtx, with the watch on the handshake.
Request(c) ==
  /\ pc[c] = "request"
  /\ attempt' = attempt + 1
  /\ request' = [request EXCEPT ![attempt + 1] = IF closeCtx THEN "cancelled" ELSE "live"]
  /\ watch' = "armed" /\ pc' = [pc EXCEPT ![c] = "roundTrip"]
  /\ UNCHANGED <<state, calls, owner, body, budget, closeCtx, cpc, sent, told>>

WatchFires ==
  /\ watch = "armed" /\ ~budget /\ watch' = "fired"
  /\ request' = [request EXCEPT ![attempt] = "cancelled"]
  /\ UNCHANGED <<state, pc, calls, attempt, owner, body, budget, closeCtx, cpc, sent, told>>

Expire ==
  /\ budget /\ budget' = FALSE
  /\ UNCHANGED <<state, pc, calls, attempt, owner, request, body, watch, closeCtx, cpc, sent, told>>

\* RoundTrip fails.  A refusal the server has not acted on is retried once, on a fresh
\* session, unless the handshake was cancelled.
RoundTripFails(c) ==
  /\ pc[c] = "roundTrip"
  /\ request' = [request EXCEPT ![attempt] = "cancelled"] /\ watch' = "off"
  /\ \E retryable \in BOOLEAN :
       pc' = [pc EXCEPT ![c] = IF retryable /\ attempt = 1 /\ watch # "fired" THEN "refresh" ELSE "failed"]
  /\ UNCHANGED <<state, calls, attempt, owner, body, budget, closeCtx, cpc, sent, told>>

Refresh(c) ==
  /\ pc[c] = "refresh"
  /\ \E ok \in BOOLEAN : pc' = [pc EXCEPT ![c] = IF ok THEN "request" ELSE "failed"]
  /\ UNCHANGED <<state, calls, hs, closeCtx, cpc, sent, told>>

\* It is answered.  A handshake cancelled meanwhile, or a refusal, drops the answer.
RoundTrip(c) ==
  /\ pc[c] = "roundTrip" /\ watch' = "off"
  /\ \E ok \in BOOLEAN :
       IF watch # "fired" /\ ok
       THEN body' = [body EXCEPT ![attempt] = "open"] /\ pc' = [pc EXCEPT ![c] = "first"] /\ UNCHANGED request
       ELSE /\ request' = [request EXCEPT ![attempt] = "cancelled"]
            /\ pc' = [pc EXCEPT ![c] = "failed"] /\ UNCHANGED body
  /\ UNCHANGED <<state, calls, attempt, owner, budget, closeCtx, cpc, sent, told>>

\* The owner's own bytes go first; a stream that refuses them is closed.
FirstWrite(c) ==
  /\ pc[c] = "first"
  /\ \/ Take(c) /\ pc' = [pc EXCEPT ![c] = "publish"] /\ UNCHANGED <<request, body>>
     \/ /\ c # "r" /\ UNCHANGED sent
        /\ request' = [request EXCEPT ![attempt] = "cancelled"] /\ body' = [body EXCEPT ![attempt] = "closed"]
        /\ pc' = [pc EXCEPT ![c] = "failed"]
  /\ UNCHANGED <<state, calls, attempt, owner, watch, budget, closeCtx, cpc, told>>

\* Back under stateMu: Close may have come first, then the owner closes the stream.
Publish(c) ==
  LET ok == pc[c] = "publish" /\ ~closed IN
  /\ pc[c] \in {"publish", "failed"}
  /\ stream' = IF ok THEN attempt ELSE 0
  /\ saved' = ok /\ failed' = ~ok /\ done' = TRUE
  /\ IF closed /\ pc[c] = "publish"
     THEN request' = [request EXCEPT ![attempt] = "cancelled"] /\ body' = [body EXCEPT ![attempt] = "closed"]
     ELSE UNCHANGED <<request, body>>
  /\ IF ok THEN Tell(c) ELSE UNCHANGED told
  /\ Return(c)
  /\ UNCHANGED <<started, closed, calls, attempt, owner, watch, budget, closeCtx, cpc, sent>>

Close ==
  /\ cpc = "idle" /\ closed' = TRUE /\ saved' = FALSE
  /\ cpc' = IF stream # 0 THEN "stream" ELSE "cancel"
  /\ UNCHANGED <<started, done, failed, stream, pc, calls, hs, closeCtx, sent, told>>

CloseStream ==
  /\ cpc = "stream" /\ cpc' = "cancel"
  /\ body' = [body EXCEPT ![stream] = "closed"] /\ request' = [request EXCEPT ![stream] = "cancelled"]
  /\ UNCHANGED <<state, pc, calls, attempt, owner, watch, budget, closeCtx, sent, told>>

\* closeCancel ends every request of the connection that is under way.
CloseCancel ==
  /\ cpc = "cancel" /\ cpc' = "done" /\ closeCtx' = TRUE
  /\ request' = [i \in 1 .. 2 |-> IF request[i] = "live" THEN "cancelled" ELSE request[i]]
  /\ UNCHANGED <<state, pc, calls, attempt, owner, body, watch, budget, sent, told>>

Next ==
  \/ \E c \in Callers : Call(c) \/ Woken(c) \/ Request(c) \/ RoundTripFails(c) \/ Refresh(c) \/ RoundTrip(c)
                        \/ FirstWrite(c) \/ Publish(c)
  \/ WatchFires \/ Expire \/ Close \/ CloseStream \/ CloseCancel

Spec == Init /\ [][Next]_vars

\* A stream that is published and not closed has a live request: neither the handshake's
\* budget nor its cancelled context reaches beyond the handshake.
PublishedIsLive == (stream # 0 /\ ~closed) => request[stream] = "live" /\ body[stream] = "open"

\* Once Close and the handshake's owner are through, no request is live and no stream is
\* open, whichever came last; and a failed attempt leaves neither behind.
NothingLeftOpen ==
  /\ (cpc = "done" /\ \A c \in Callers : pc[c] \notin {"request", "roundTrip", "refresh", "first", "publish", "failed"})
       => \A i \in 1 .. 2 : request[i] # "live" /\ body[i] # "open"
  /\ \A i \in 1 .. 2 : (i < attempt \/ (done /\ i # stream)) => request[i] # "live" /\ body[i] # "open"

\* A write reported as done is in the stream, a waiter waits for an owner at work or an
\* outcome, and a second session is asked for only when the first refused.
OwnerAnswers ==
  /\ told \subseteq sent
  /\ \A c \in Callers : pc[c] = "wait" => done \/ pc[owner] \notin {"idle", "wait"}
=============================================================================
