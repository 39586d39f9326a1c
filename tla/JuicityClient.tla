--------------------------- MODULE JuicityClient ---------------------------
(***************************************************************************)
(* One Juicity client (clientImpl in protocol/juicity/client.go): lazy     *)
(* dial, detection of a dead tunnel by the dials themselves, the goroutine *)
(* that writes underlay authentications, and retirement either at once     *)
(* (closeConnectionLocked) or through Close and its ten-second timer.      *)
(*                                                                         *)
(* The ring's permit lets one dial at a time into a client, so there is    *)
(* one dialer; Close and the writer run beside it.                         *)
(***************************************************************************)
EXTENDS Integers, Sequences

CONSTANTS
  MaxConns,   \* bound: connections dialed
  AuthCap     \* capacity of an UnderlayAuth channel

Conns == 1..MaxConns
NoConn == 0

VARIABLES
  done,     \* Ctx is cancelled
  hook,     \* detachCallback: "set", "due" (goroutine started), "ran"
  quic,     \* quicConn and underConn
  state,    \* per connection: "none", "live", "dead" (its context is done)
  sock,     \* per connection, its packet conn: "none", "open", "closed"
  holding,  \* the dialer holds connMutex across a dial
  pc,       \* the dialer
  auth,     \* it runs DialAuth, not DialContext
  my,       \* the connection it was given
  result,   \* what auth.result holds for its request
  chan,     \* per connection, UnderlayAuth: requests, "mine" or "stale"
  writer,   \* per connection: writeUnderlayAuthentications
  user,     \* the ring's or owner's Close: "no", "lock", "done"
  timer,    \* Close's timer: "off", "armed", "done"
  late      \* history: the timer fired between a dial's look at Ctx and its lock

dialVars == <<pc, auth, my, result>>
lifeVars == <<done, hook, quic, state, sock>>
vars == <<lifeVars, holding, dialVars, chan, writer, user, timer, late>>

Requests == {"mine", "stale"}

TypeOK ==
  /\ done \in BOOLEAN
  /\ hook \in {"set", "due", "ran"}
  /\ quic \in Conns \cup {NoConn}
  /\ state \in [Conns -> {"none", "live", "dead"}]
  /\ sock \in [Conns -> {"none", "open", "closed"}]
  /\ holding \in BOOLEAN
  /\ pc \in {"idle", "lock", "dial", "open", "compare", "send", "wait", "retire"}
  /\ auth \in BOOLEAN
  /\ my \in Conns \cup {NoConn}
  /\ result \in {"none", "ok", "err"}
  /\ \A k \in Conns : chan[k] \in Seq(Requests) /\ Len(chan[k]) <= AuthCap
  /\ writer \in [Conns -> {"off", "run", "done", "close", "mine", "stale"}]
  /\ user \in {"no", "lock", "done"}
  /\ timer \in {"off", "armed", "done"}
  /\ late \in BOOLEAN

Init ==
  /\ done = FALSE
  /\ hook = "set"
  /\ quic = NoConn
  /\ state = [k \in Conns |-> "none"]
  /\ sock = [k \in Conns |-> "none"]
  /\ holding = FALSE
  /\ pc = "idle"
  /\ auth = FALSE
  /\ my = NoConn
  /\ result = "none"
  /\ chan = [k \in Conns |-> <<>>]
  /\ writer = [k \in Conns |-> "off"]
  /\ user = "no"
  /\ timer = "off"
  /\ late = FALSE

-----------------------------------------------------------------------------
(* Retirement                                                              *)

\* CloseWithError and Close of what is attached.
Release ==
  /\ state' = [k \in Conns |-> IF k = quic THEN "dead" ELSE state[k]]
  /\ sock' = [k \in Conns |-> IF k = quic THEN "closed" ELSE sock[k]]
  /\ quic' = NoConn

\* closeConnectionLocked: hook, cancel, close at once.
CloseConnection ==
  /\ hook' = IF hook = "set" THEN "due" ELSE hook
  /\ done' = TRUE
  /\ Release

\* Mutant of Cancel: no timer is armed for the connection.
CancelOnly ==
  /\ IF done THEN UNCHANGED <<done, hook>> ELSE done' = TRUE /\ hook' = "due"
  /\ UNCHANGED <<quic, state, sock, timer>>

\* Close: the first one cancels, starts the hook and arms the timer.
Cancel ==
  /\ IF done
     THEN UNCHANGED <<done, hook, timer>>
     ELSE /\ done' = TRUE
          /\ hook' = "due"
          /\ timer' = "armed"
  /\ UNCHANGED <<quic, state, sock>>

CloseCalled ==
  /\ user = "no"
  /\ user' = "lock"
  /\ UNCHANGED <<lifeVars, holding, dialVars, chan, writer, timer, late>>

CloseClient ==
  /\ user = "lock"
  /\ ~holding
  /\ user' = "done"
  /\ Cancel
  /\ UNCHANGED <<holding, dialVars, chan, writer, late>>

\* Ten seconds later.
TimerFires ==
  /\ timer = "armed"
  /\ ~holding
  /\ timer' = "done"
  /\ Release
  /\ late' = (late \/ pc \in {"lock", "compare"})
  /\ UNCHANGED <<done, hook, holding, dialVars, chan, writer, user>>

RunHook ==
  /\ hook = "due"
  /\ hook' = "ran"
  /\ UNCHANGED <<done, quic, state, sock, holding, dialVars, chan, writer, user, timer, late>>

\* The peer closes the connection, or it times out.
ConnDies(k) ==
  /\ state[k] = "live"
  /\ state' = [state EXCEPT ![k] = "dead"]
  /\ UNCHANGED <<done, hook, quic, sock, holding, dialVars, chan, writer, user, timer, late>>

-----------------------------------------------------------------------------
(* DialContext and DialAuth                                                *)

\* The dial returns.  A request it leaves in the channel will be written, and
\* its answer falls into a channel nobody reads.
Return ==
  /\ pc' = "idle"
  /\ my' = NoConn
  /\ auth' = FALSE
  /\ result' = "none"
  /\ chan' = [k \in Conns |-> [i \in 1..Len(chan[k]) |-> "stale"]]
  /\ writer' = [k \in Conns |-> IF writer[k] = "mine" THEN "stale" ELSE writer[k]]

Call ==
  /\ pc = "idle"
  /\ ~done
  /\ pc' = "lock"
  /\ auth' \in BOOLEAN
  /\ UNCHANGED <<lifeVars, holding, my, result, chan, writer, user, timer, late>>

\* What a dial does with the connection it got.
Given(k) ==
  /\ my' = k
  /\ pc' = IF auth THEN "compare" ELSE "open"
  /\ UNCHANGED <<auth, result>>

\* getQuicConn up to the dial.  It does not look at Ctx again.
GetConn ==
  /\ pc = "lock"
  /\ ~holding
  /\ \/ /\ quic # NoConn
        /\ state[quic] = "dead"
        /\ CloseConnection
        /\ Return
        /\ UNCHANGED holding
     \/ /\ quic # NoConn
        /\ state[quic] = "live"
        /\ Given(quic)
        /\ UNCHANGED <<lifeVars, holding, chan, writer>>
     \/ /\ quic = NoConn
        /\ holding' = TRUE
        /\ pc' = "dial"
        /\ UNCHANGED <<lifeVars, auth, my, result, chan, writer>>
  /\ UNCHANGED <<user, timer, late>>

\* A failed dial closes its own transport and leaves the client as it was.
DialFails ==
  /\ pc = "dial"
  /\ holding' = FALSE
  /\ Return
  /\ UNCHANGED <<lifeVars, user, timer, late>>

\* The tunnel is up and its authentication writer started.
DialSucceeds ==
  /\ pc = "dial"
  /\ holding' = FALSE
  /\ \E k \in Conns :
       /\ state[k] = "none"
       /\ \A j \in 1..(k - 1) : state[j] # "none"
       /\ state' = [state EXCEPT ![k] = "live"]
       /\ sock' = [sock EXCEPT ![k] = "open"]
       /\ quic' = k
       /\ writer' = [writer EXCEPT ![k] = "run"]
       /\ Given(k)
  /\ UNCHANGED <<done, hook, chan, user, timer, late>>

\* OpenStream: a stream, the stream limit or a passing error end the dial; a
\* permanent error goes through handleIfConnectionClosed.
Open ==
  /\ pc = "open"
  /\ \/ Return
     \/ pc' = "retire" /\ UNCHANGED <<auth, my, result, chan, writer>>
  /\ UNCHANGED <<lifeVars, holding, user, timer, late>>

\* Retire the client if the failed connection is still the attached one.
RetireOrigin ==
  /\ pc = "retire"
  /\ ~holding
  /\ IF quic = my THEN CloseConnection ELSE UNCHANGED lifeVars
  /\ Return
  /\ UNCHANGED <<holding, user, timer, late>>

\* DialAuth takes the channel of the connection it was given, or starts over.
Compare ==
  /\ pc = "compare"
  /\ ~holding
  /\ pc' = IF quic = my THEN "send" ELSE "lock"
  /\ UNCHANGED <<lifeVars, holding, auth, my, result, chan, writer, user, timer, late>>

\* The first select of DialAuth; the client or the caller may be cancelled at
\* any time.
Send ==
  /\ pc = "send"
  /\ \/ /\ Len(chan[my]) < AuthCap
        /\ chan' = [chan EXCEPT ![my] = Append(@, "mine")]
        /\ pc' = "wait"
        /\ UNCHANGED <<auth, my, result, writer>>
     \/ /\ state[my] = "dead"
        /\ pc' = "retire"
        /\ UNCHANGED <<auth, my, result, chan, writer>>
     \/ Return
  /\ UNCHANGED <<lifeVars, holding, user, timer, late>>

\* The second select.
Wait ==
  /\ pc = "wait"
  /\ result # "none" \/ state[my] = "dead" \/ done
  /\ Return
  /\ UNCHANGED <<lifeVars, holding, user, timer, late>>

\* The caller's context ends while it waits.
Abandon ==
  /\ pc = "wait"
  /\ Return
  /\ UNCHANGED <<lifeVars, holding, user, timer, late>>

-----------------------------------------------------------------------------
(* writeUnderlayAuthentications                                            *)

WriterStep(k) ==
  /\ writer[k] = "run"
  /\ \/ /\ done \/ state[k] = "dead"
        /\ writer' = [writer EXCEPT ![k] = "done"]
        /\ UNCHANGED chan
     \/ /\ chan[k] # <<>>
        /\ writer' = [writer EXCEPT ![k] = Head(chan[k])]
        /\ chan' = [chan EXCEPT ![k] = Tail(@)]
  /\ UNCHANGED <<lifeVars, holding, dialVars, user, timer, late>>

\* Mutant of WriterAnswers: the answer is never sent.
WriterKeepsSilent(k) ==
  /\ writer[k] \in Requests
  /\ writer' = [writer EXCEPT ![k] = "run"]
  /\ UNCHANGED <<lifeVars, holding, dialVars, chan, user, timer, late>>

\* The write is over: answer the request; behind an error close the client.
WriterAnswers(k) ==
  /\ writer[k] \in Requests
  /\ \E out \in {"ok", "err"} :
       /\ result' = IF writer[k] = "mine" THEN out ELSE result
       /\ writer' = [writer EXCEPT ![k] = IF out = "ok" THEN "run" ELSE "close"]
  /\ UNCHANGED <<lifeVars, holding, pc, auth, my, chan, user, timer, late>>

WriterCloses(k) ==
  /\ writer[k] = "close"
  /\ ~holding
  /\ writer' = [writer EXCEPT ![k] = "done"]
  /\ Cancel
  /\ UNCHANGED <<holding, dialVars, chan, user, late>>

-----------------------------------------------------------------------------
DialStep == GetConn \/ DialFails \/ DialSucceeds \/ Open \/ RetireOrigin \/ Compare \/ Send
WriterWork(k) == WriterStep(k) \/ WriterAnswers(k) \/ WriterCloses(k)

Next ==
  \/ Call \/ DialStep \/ Wait \/ Abandon
  \/ CloseCalled \/ CloseClient \/ TimerFires \/ RunHook
  \/ \E k \in Conns : ConnDies(k) \/ WriterWork(k)

Spec == Init /\ [][Next]_vars

-----------------------------------------------------------------------------
\* An open packet conn is the attached one: whichever of the three ways a
\* client retires, its socket goes with the connection.
SocketIsAttached == \A k \in Conns : sock[k] = "open" => quic = k

\* A retired client with no dial inside and no timer pending holds no tunnel,
\* unless the timer fired between a dial's look at Ctx and its lock, which takes
\* that dial ten seconds.
RetiredHoldsNothing ==
  done /\ pc = "idle" /\ timer # "armed" /\ ~late => quic = NoConn

\* A client holds its socket through the attached connection only, and none at all
\* once its retirement is complete.
JuicityClientSafe == TypeOK /\ SocketIsAttached /\ RetiredHoldsNothing

\* The client does what the ring relies on.
life == IF done THEN "closed" ELSE IF quic # NoConn THEN "up" ELSE "fresh"
Ring == INSTANCE RingClient
ImplementsRingClient == Ring!Spec

\* Every dial returns, also one whose request was accepted by a writer that then
\* stopped.
DialReturns == pc # "idle" ~> pc = "idle"

\* A retired client gives its tunnel up and reports to the ring.
RetirementCompletes == done ~> (quic = NoConn \/ late) /\ hook = "ran"

\* What the proofs assume of the constants.
Setting == MaxConns \in Nat /\ AuthCap \in Nat
=============================================================================
