------------------------------- MODULE MCTuic -------------------------------
(* The TUIC and Juicity clients on small instances, for safety and, with   *)
(* the receive queue of an association, for liveness.                      *)
(* Each behaviour is one of a single component, chosen by which; the       *)
(* variables of the others keep their initial values.                      *)
EXTENDS TuicClient, Sequences, TLC

CONSTANTS p1, p2, g1, r1, Nil

VARIABLES
  which,
  pQueue, pClosed, receiver, active, deliverMu, pushPc, pushed, seen, regPc, prefix, readPc, arrived,
  order, out, fate,
  done, jHook, quic, state, sock, holding, jPc, auth, my, result, chan, writer, user, jTimer, late

(* One goroutine stands for the uni-stream readers and the writers of a    *)
(* TUIC client: both call forceClose at any time.                          *)

\* Two connections and an authentication channel of two.
Juicity == INSTANCE JuicityClient WITH MaxConns <- 2, AuthCap <- 2, hook <- jHook, pc <- jPc, timer <- jTimer

\* Two pushers, one registration and one reader.
Packets == INSTANCE TuicPackets WITH Pushers <- {p1, p2}, Registrars <- {g1}, Readers <- {r1},
                                     MaxPackets <- 3, Cap <- 2, queue <- pQueue, closed <- pClosed

\* Two connections and an authentication channel of one.
LiveJuicity == INSTANCE JuicityClient WITH MaxConns <- 2, AuthCap <- 1, hook <- jHook, pc <- jPc, timer <- jTimer

\* The instances are among those the proofs are about.
ASSUME Instances == Setting /\ Juicity!Setting /\ LiveJuicity!Setting /\ Packets!Setting

juicityVars == <<done, jHook, quic, state, sock, holding, jPc, auth, my, result, chan, writer, user, jTimer, late>>
packetsVars == <<pQueue, pClosed, receiver, active, deliverMu, pushPc, pushed, seen, regPc, prefix, readPc,
                 arrived, order, out, fate>>
allVars == <<which, vars, packetsVars, juicityVars>>

\* What a behaviour of the TUIC client does not use at the same time: two callers with
\* malformed datagrams, two associations, deadlines.
OneCaller == window = 0 /\ Cardinality({c \in Callers : pc[c] # "idle" \/ force[c] # "no"}) <= 1
OneAssoc == Cardinality({a \in Assocs : apc[a] # "none"}) <= 1
NoDeadlines == \A a \in Assocs : gens[a] = 0
Within ==
  CASE which = "callers" -> OneAssoc /\ NoDeadlines
    [] which = "assocs" -> OneCaller /\ NoDeadlines
    [] which = "deadlines" -> OneCaller /\ OneAssoc
    [] OTHER -> TRUE

SafetyInit ==
  /\ which \in {"callers", "assocs", "deadlines", "juicity"}
  /\ Init /\ Juicity!Init /\ Packets!Init

SafetyNext ==
  \/ which # "juicity" /\ UNCHANGED <<which, packetsVars, juicityVars>> /\ Next /\ Within'
  \/ which = "juicity" /\ Juicity!Next /\ UNCHANGED <<which, vars, packetsVars>>

SafetySpec == SafetyInit /\ [][SafetyNext]_allVars

\* Callers and associations are interchangeable.
Symmetry == Permutations(Callers) \cup Permutations(Assocs)

LiveInit ==
  /\ which \in {"client", "packets", "juicity"}
  /\ Init /\ Packets!Init /\ LiveJuicity!Init

LiveNext ==
  \/ which = "client" /\ Next /\ UNCHANGED <<which, packetsVars, juicityVars>>
  \/ which = "packets" /\ Packets!Next /\ UNCHANGED <<which, vars, juicityVars>>
  \/ which = "juicity" /\ LiveJuicity!Next /\ UNCHANGED <<which, vars, packetsVars>>

(* TuicClient: every goroutine under way goes on, a dial ends (its context *)
(* has a deadline), timers fire and closed queues wake their readers.      *)
(* Nobody has to call, read, close or kill the connection.                 *)
ClientFairness ==
  /\ \A c \in Callers : WF_vars(which = "client" /\ CallStep(c))
  /\ \A g \in Goroutines : WF_vars(which = "client" /\ ForceStep(g))
  /\ WF_vars(which = "client" /\ LoopEnds)
  /\ WF_vars(which = "client" /\ TimerDetaches)
  /\ WF_vars(which = "client" /\ TimerCloses)
  /\ WF_vars(which = "client" /\ RunHook)
  /\ \A a \in Assocs : /\ WF_vars(which = "client" /\ ReadReturns(a))
                       /\ WF_vars(which = "client" /\ CloseStep(a))

(* TuicPackets: a goroutine that can run does, and a handler returns.  A   *)
(* Go mutex hands itself to a starving waiter, so the two lock steps are   *)
(* strongly fair.  Nobody has to push, register, unregister, read or close.*)
PacketsFairness ==
  /\ \A p \in {p1, p2} : /\ SF_packetsVars(which = "packets" /\ Packets!LockDeliver(p))
                         /\ WF_packetsVars(which = "packets" /\ Packets!PushStep(p))
  /\ SF_packetsVars(which = "packets" /\ Packets!RegLock(g1))
  /\ WF_packetsVars(which = "packets" /\ Packets!RegStep(g1))
  /\ WF_packetsVars(which = "packets" /\ Packets!PopCheck(r1))

(* JuicityClient: a dial ends, a write on the authentication stream ends,  *)
(* the timer fires and the goroutines run.  Callers need not lose patience *)
(* and connections need not die.                                           *)
JuicityFairness ==
  /\ WF_juicityVars(which = "juicity" /\ LiveJuicity!DialStep)
  /\ WF_juicityVars(which = "juicity" /\ LiveJuicity!Wait)
  /\ WF_juicityVars(which = "juicity" /\ LiveJuicity!CloseClient)
  /\ WF_juicityVars(which = "juicity" /\ LiveJuicity!TimerFires)
  /\ WF_juicityVars(which = "juicity" /\ LiveJuicity!RunHook)
  /\ \A k \in {1, 2} : WF_juicityVars(which = "juicity" /\ LiveJuicity!WriterWork(k))

LiveSpec == LiveInit /\ [][LiveNext]_allVars /\ ClientFairness /\ PacketsFairness /\ JuicityFairness

-----------------------------------------------------------------------------
(* The properties of the other components, which explain them.             *)

\* An open socket of a Juicity client is the one attached, a client whose retirement is
\* complete holds no tunnel, and the client is one as the ring expects it.
JuicityIsSound == [](which = "juicity" => Juicity!JuicityClientSafe) /\ Juicity!ImplementsRingClient

\* A TUIC client whose tunnel died retires, and the retirement of a TUIC or Juicity
\* client completes: hook, queues, tunnel and socket.
QuicRetires == DeadTunnelRetires /\ RetirementCompletes /\ LiveJuicity!RetirementCompletes
\* PushBack returns, so the demultiplexing loop goes on; a reader blocked on an
\* association of a retired client returns, and after the Close of a queue its pushers,
\* registrars and readers come to rest.
\* A dial through a Juicity client returns.
CallsReturn ==
  Packets!PushReturns /\ ReadersReturn /\ Packets!CloseSettles /\ LiveJuicity!DialReturns
=============================================================================
