----------------------------- MODULE RingClient -----------------------------
(***************************************************************************)
(* What the failover ring relies on in a client: it connects at most once, *)
(* it retires for good, and retiring starts the hook the ring registered   *)
(* exactly once.  ClientRing shows this behaviour in each of its clients;  *)
(* TuicClient and JuicityClient are shown to implement it.                 *)
(***************************************************************************)
VARIABLES
  life,   \* "fresh", "up" (it has had a tunnel) or "closed"
  hook    \* "set" (registered), "due" (goroutine started) or "ran"

vars == <<life, hook>>

Init == life = "fresh" /\ hook = "set"

\* The first dial that brings the tunnel up.
Connect ==
  /\ life = "fresh"
  /\ life' = "up"
  /\ UNCHANGED hook

\* The tunnel died or the owner closed the client.
Retire ==
  /\ life # "closed"
  /\ life' = "closed"
  /\ hook' = "due"

RunHook ==
  /\ hook = "due"
  /\ hook' = "ran"
  /\ UNCHANGED life

Next == Connect \/ Retire \/ RunHook

Spec == Init /\ [][Next]_vars
=============================================================================
