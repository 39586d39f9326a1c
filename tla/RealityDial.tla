----------------------------- MODULE RealityDial -----------------------------
(***************************************************************************)
(* Reality.DialContext, run by several dials that share the ClientHello    *)
(* shape that last authenticated (pqHybrid) and the time until which the   *)
(* other shape is not probed (pqRetryAfter); and the set of paths that the *)
(* spiders of refused dials harvest from the cover site.                   *)
(***************************************************************************)
EXTENDS Integers, FiniteSets, Sequences

CONSTANTS Dials, Attempts,
          Hrefs, Size, Dotted,       \* hrefs of the cover site, their lengths, those with a dot
          SpiderX, Bodies, MaxPaths, MaxBytes, MaxRequests

VARIABLES server,                    \* the shape the server authenticates: "hybrid", "plain", "neither"
          pqHybrid, backoff,         \* now < pqRetryAfter
          pc, hybrid, retryHybrid, builds, open,
          lost, skipped,             \* history: the second dial failed; the other shape was not probed
          paths, bytes, requests     \* the harvested paths, maps.bytes

shared == <<server, pqHybrid, backoff>>
spider == <<paths, bytes, requests>>
vars == <<shared, pc, hybrid, retryHybrid, builds, open, lost, skipped, spider>>

Init ==
  /\ server \in {"hybrid", "plain", "neither"} /\ pqHybrid = FALSE /\ backoff = FALSE
  /\ pc = [d \in Dials |-> "dial"] /\ hybrid = [d \in Dials |-> FALSE]
  /\ retryHybrid = [d \in Dials |-> FALSE] /\ builds = [d \in Dials |-> 1] /\ open = [d \in Dials |-> 0]
  /\ lost = [d \in Dials |-> FALSE] /\ skipped = [d \in Dials |-> FALSE]
  /\ paths = {} /\ bytes = 0 /\ requests = 0

Goes(d, from, to) == pc[d] = from /\ pc' = [pc EXCEPT ![d] = to]
Opens(d, k) == open' = [open EXCEPT ![d] = @ + k]

Dial(d) ==
  /\ \/ Goes(d, "dial", "hello") /\ Opens(d, 1) /\ hybrid' = [hybrid EXCEPT ![d] = pqHybrid]
     \/ Goes(d, "dial", "err") /\ UNCHANGED <<open, hybrid>>
  /\ UNCHANGED <<shared, retryHybrid, builds, lost, skipped, spider>>

\* A hello without a usable key share is rebuilt on the same underlay, so many times.
BuildHello(d) ==
  /\ \/ Goes(d, "hello", "shake") /\ UNCHANGED <<builds, open>>
     \/ /\ pc[d] = "hello" /\ builds[d] < Attempts /\ builds' = [builds EXCEPT ![d] = @ + 1]
        /\ UNCHANGED <<pc, open>>
     \/ Goes(d, "hello", "err") /\ Opens(d, -1) /\ UNCHANGED builds
  /\ UNCHANGED <<shared, hybrid, retryHybrid, lost, skipped, spider>>

Accepts(d) == server = IF hybrid[d] THEN "hybrid" ELSE "plain"

Handshake(d) ==
  /\ \/ Goes(d, "shake", "err") /\ Opens(d, -1)
     \/ Goes(d, "shake", IF Accepts(d) THEN "shape" ELSE "judge") /\ UNCHANGED open
  /\ UNCHANGED <<shared, hybrid, retryHybrid, builds, lost, skipped, spider>>

\* Not verified: the other shape gets one try, unless a plain hello fails within the backoff.
Judge(d) ==
  /\ IF ~retryHybrid[d] /\ (hybrid[d] \/ ~backoff)
     THEN /\ Goes(d, "judge", "redial") /\ Opens(d, -1)
          /\ retryHybrid' = [retryHybrid EXCEPT ![d] = TRUE] /\ hybrid' = [hybrid EXCEPT ![d] = ~@]
          /\ UNCHANGED skipped
     ELSE /\ Goes(d, "judge", "defer") /\ skipped' = [skipped EXCEPT ![d] = ~retryHybrid[d]]
          /\ UNCHANGED <<open, retryHybrid, hybrid>>
  /\ UNCHANGED <<shared, builds, lost, spider>>

Redial(d) ==
  /\ \/ Goes(d, "redial", "hello") /\ Opens(d, 1) /\ UNCHANGED lost
     \/ Goes(d, "redial", "defer") /\ lost' = [lost EXCEPT ![d] = TRUE] /\ UNCHANGED open
  /\ UNCHANGED <<shared, hybrid, retryHybrid, builds, skipped, spider>>

\* The dial fails and leaves its connection to the spider, as cover traffic.
GiveUp(d) ==
  /\ Goes(d, "defer", "refused") /\ backoff' = TRUE
  /\ UNCHANGED <<server, pqHybrid, hybrid, retryHybrid, builds, open, lost, skipped, spider>>

KeepShape(d) ==
  /\ Goes(d, "shape", "reset") /\ pqHybrid' = hybrid[d]
  /\ UNCHANGED <<server, backoff, hybrid, retryHybrid, builds, open, lost, skipped, spider>>
ResetBackoff(d) ==
  /\ Goes(d, "reset", "ok") /\ backoff' = FALSE
  /\ UNCHANGED <<server, pqHybrid, hybrid, retryHybrid, builds, open, lost, skipped, spider>>

BackoffEnds ==
  /\ backoff /\ backoff' = FALSE
  /\ UNCHANGED <<server, pqHybrid, pc, hybrid, retryHybrid, builds, open, lost, skipped, spider>>

(***************************************************************************)
(* The spider's path set, each access under the maps lock                  *)
(***************************************************************************)
spiderPathRetained(ps, retained, h) ==
  /\ h \notin Dotted
  /\ Cardinality(ps) < MaxPaths
  /\ retained + Size[h] <= MaxBytes

SpiderPathsFor ==
  /\ paths = {} /\ \E d \in Dials : pc[d] = "refused"
  /\ paths' = {SpiderX} /\ bytes' = Size[SpiderX]
  /\ UNCHANGED <<shared, pc, hybrid, retryHybrid, builds, open, lost, skipped, requests>>

\* The set and the count after the first n hrefs of a body.
Merged(body) ==
  LET M[n \in 0..Len(body)] ==
        IF n = 0 THEN [ps |-> paths, b |-> bytes]
        ELSE LET m == M[n - 1] IN
             IF spiderPathRetained(m.ps, m.b, body[n])
             THEN [ps |-> m.ps \cup {body[n]}, b |-> m.b + Size[body[n]]] ELSE m
  IN  M[Len(body)]

SpiderHarvest ==
  /\ paths # {} /\ requests < MaxRequests
  /\ \E body \in Bodies : paths' = Merged(body).ps /\ bytes' = Merged(body).b
  /\ requests' = requests + 1
  /\ UNCHANGED <<shared, pc, hybrid, retryHybrid, builds, open, lost, skipped>>

Next ==
  \/ \E d \in Dials : \/ Dial(d) \/ BuildHello(d) \/ Handshake(d) \/ Judge(d) \/ Redial(d)
                      \/ GiveUp(d) \/ KeepShape(d) \/ ResetBackoff(d)
  \/ BackoffEnds \/ SpiderPathsFor \/ SpiderHarvest

Spec == Init /\ [][Next]_vars

\* A dial owns one underlay at a time: it hands it over, leaves it to the spider of a
\* refused handshake, or closes it, the first one before the second is dialled.
OneUnderlay ==
  \A d \in Dials :
    /\ open[d] \in 0..1
    /\ pc[d] = "ok" => open[d] = 1
    /\ pc[d] = "err" => open[d] = 0
    /\ pc[d] = "refused" => open[d] = IF lost[d] THEN 0 ELSE 1

\* Whatever concurrent dials remember, a server that authenticates either shape is
\* found, save by a dial whose second connection failed or that came within the backoff
\* some such dial left; and the shape kept after a success is the server's.
ShapeIsFound ==
  /\ server # "neither" =>
       /\ \A d \in Dials : pc[d] = "refused" => lost[d] \/ skipped[d]
       /\ (backoff \/ \E d \in Dials : skipped[d]) => \E e \in Dials : lost[e]
  /\ (\E d \in Dials : pc[d] \in {"reset", "ok"}) => server = IF pqHybrid THEN "hybrid" ELSE "plain"

Total(ps) == LET T[s \in SUBSET ps] ==
                   IF s = {} THEN 0 ELSE LET x == CHOOSE y \in s : TRUE IN Size[x] + T[s \ {x}]
             IN  T[ps]

\* The path set stays within both bounds whatever the cover site serves; hrefs that are
\* seen again are counted again, so bytes never counts less than is kept.
HarvestIsBounded ==
  Cardinality(paths) <= MaxPaths /\ Total(paths) <= bytes /\ bytes <= MaxBytes
=============================================================================
