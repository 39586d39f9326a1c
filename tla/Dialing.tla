------------------------------- MODULE Dialing -------------------------------
(***************************************************************************)
(* DialContext of the protocols that wrap one underlay connection, and the *)
(* lifetime of the SOCKS5 association, which owns two.  A dialer is the    *)
(* sequence of its steps; a step names the connections its error path      *)
(* closes.  The peer may refuse, break the connection or fall silent, and  *)
(* the dial's context may run out.                                         *)
(***************************************************************************)
EXTENDS Integers, Sequences

CONSTANTS Kinds

VARIABLES kind, i,            \* the dialer and its next step
          conn, relay,        \* "none", "open", "closed"
          closes,             \* Close calls on each
          budget,             \* the context's deadline: "none", "live", "over"
          deadline,           \* that deadline is set on conn
          result,             \* "none", "ok", "err"
          watcher, user,      \* the goroutine on the control connection; the owner
          once, canceled, done

vars == <<kind, i, conn, relay, closes, budget, deadline, result, watcher, user, once, canceled, done>>

S(do, shut) == [do |-> do, closes |-> shut]
Conn == {"conn"}
Both == {"conn", "relay"}

(***************************************************************************)
(* The dialers                                                             *)
(***************************************************************************)
Connect == <<S("deadline", Conn), S("exchange", Conn), S("auth", Conn), S("check", Conn),
             S("exchange", Conn), S("exchange", Conn), S("restore", {})>>
Socks5Tcp == <<S("dial", {})>> \o Connect
Socks5Udp == <<S("dial", {})>> \o Connect \o <<S("relay", Conn), S("check", Both), S("watch", {})>>
ShadowsocksTcp == <<S("dial", {}), S("check", Conn)>>
ShadowsocksUdp == <<S("dial", {}), S("check", Conn), S("check", Conn)>>
Shadowsocks2022 == <<S("dial", {}), S("check", Conn)>>
DialTcpTransport == <<S("dial", {})>>
ShadowsocksStream == DialTcpTransport \o <<S("write", Conn)>>
Tls == <<S("dial", {}), S("check", Conn), S("handshake", Conn)>>
ShadowTls == <<S("dial", {}), S("check", Conn), S("handshake", Conn)>>
HttpUpgrade == <<S("dial", {}), S("handshake", Conn), S("deadline", Conn), S("check", Conn),
                 S("write", Conn), S("exchange", Conn), S("restore", {})>>
Trojan == <<S("dial", {})>>
Vmess == <<S("dial", {}), S("write", Conn)>>
Vless == <<S("dial", {}), S("check", Conn), S("check", Conn)>>

Steps ==
  CASE kind = "socks5tcp" -> Socks5Tcp [] kind = "socks5udp" -> Socks5Udp
    [] kind = "sstcp" -> ShadowsocksTcp [] kind = "ssudp" -> ShadowsocksUdp [] kind = "ss2022" -> Shadowsocks2022
    [] kind = "stream" -> ShadowsocksStream [] kind = "tls" -> Tls
    [] kind = "shadowtls" -> ShadowTls [] kind = "httpupgrade" -> HttpUpgrade
    [] kind = "trojan" -> Trojan [] kind = "vmess" -> Vmess [] kind = "vless" -> Vless

Init ==
  /\ kind \in Kinds /\ i = 1 /\ conn = "none" /\ relay = "none"
  /\ closes = [c \in Both |-> 0] /\ budget \in {"none", "live"} /\ deadline = FALSE
  /\ result = "none" /\ watcher = "off" /\ user = "idle"
  /\ once = "free" /\ canceled = FALSE /\ done = 0

life == <<watcher, user, once, canceled, done>>
Dials == result = "none"
Do == Steps[i].do

Forward == i' = i + 1 /\ result' = IF i = Len(Steps) THEN "ok" ELSE "none"

Shut(c, state) == IF c \in Steps[i].closes THEN "closed" ELSE state

Fails ==
  /\ result' = "err" /\ i' = i
  /\ conn' = Shut("conn", conn) /\ relay' = Shut("relay", relay)
  /\ closes' = [c \in Both |-> IF c \in Steps[i].closes THEN closes[c] + 1 ELSE closes[c]]
  /\ UNCHANGED <<kind, budget, deadline, life>>

Dial ==
  /\ Dials /\ Do = "dial" /\ conn' = "open" /\ Forward
  /\ UNCHANGED <<kind, relay, closes, budget, deadline, life>>

DialRelay ==
  /\ Dials /\ Do = "relay" /\ relay' = "open" /\ Forward
  /\ UNCHANGED <<kind, conn, closes, budget, deadline, life>>

\* ApplyConnDeadlineFromContext, and the function it returns.
ApplyDeadline ==
  /\ Dials /\ Do = "deadline" /\ deadline' = (budget # "none") /\ Forward
  /\ UNCHANGED <<kind, conn, relay, closes, budget, life>>
RestoreDeadline ==
  /\ Dials /\ Do = "restore" /\ deadline' = FALSE /\ Forward
  /\ UNCHANGED <<kind, conn, relay, closes, budget, life>>

\* A local test, a write, an answer of the peer; authentication may be skipped.
Passes ==
  /\ Dials /\ Do \in {"check", "write", "exchange", "auth", "handshake"} /\ Forward
  /\ UNCHANGED <<kind, conn, relay, closes, budget, deadline, life>>

\* The peer or the network fails the step, or the deadline does.
StepFails ==
  /\ Dials /\ Do \notin {"restore", "watch"}
  /\ Fails

Expire ==
  /\ budget = "live" /\ budget' = "over"
  /\ UNCHANGED <<kind, i, conn, relay, closes, deadline, result, life>>

(***************************************************************************)
(* NewPktConn's goroutine on the control connection, and PktConn.Close     *)
(***************************************************************************)
Watch ==
  /\ Dials /\ Do = "watch" /\ watcher' = "look" /\ Forward
  /\ UNCHANGED <<kind, conn, relay, closes, budget, deadline, user, once, canceled, done>>

WatcherLooks ==
  /\ watcher = "look" /\ watcher' = IF canceled THEN "ended" ELSE "read"
  /\ UNCHANGED <<kind, i, conn, relay, closes, budget, deadline, result, user, once, canceled, done>>

\* A timeout is taken for nothing; data and every other error end the association.
WatcherReads ==
  /\ watcher = "read" /\ watcher' \in (IF conn = "closed" THEN {"close"} ELSE {"look", "close"})
  /\ UNCHANGED <<kind, i, conn, relay, closes, budget, deadline, result, user, once, canceled, done>>

UserCloses ==
  /\ result = "ok" /\ user = "idle" /\ user' = "close"
  /\ UNCHANGED <<kind, i, conn, relay, closes, budget, deadline, result, watcher, once, canceled, done>>

Calls == user = "close" \/ watcher = "close"

\* closeOnce: one caller does the work step by step, the other waits for it.
CloseCancels ==
  /\ kind = "socks5udp" /\ Calls /\ once = "free" /\ once' = "cancel" /\ canceled' = TRUE
  /\ UNCHANGED <<kind, i, conn, relay, closes, budget, deadline, result, watcher, user, done>>
CloseTells ==
  /\ once = "cancel" /\ once' = "tell" /\ done' = done + 1
  /\ UNCHANGED <<kind, i, conn, relay, closes, budget, deadline, result, watcher, user, canceled>>
CloseControl ==
  /\ once = "tell" /\ once' = "control" /\ conn' = "closed" /\ closes' = [closes EXCEPT !["conn"] = @ + 1]
  /\ UNCHANGED <<kind, i, relay, budget, deadline, result, watcher, user, canceled, done>>
CloseRelay ==
  /\ once = "control" /\ once' = "done" /\ relay' = "closed" /\ closes' = [closes EXCEPT !["relay"] = @ + 1]
  /\ UNCHANGED <<kind, i, conn, budget, deadline, result, watcher, user, canceled, done>>
\* The conn of every other dialer is its one connection.
CloseOne ==
  /\ kind # "socks5udp" /\ user = "close" /\ user' = "closed"
  /\ conn' = "closed" /\ closes' = [closes EXCEPT !["conn"] = @ + 1]
  /\ UNCHANGED <<kind, i, relay, budget, deadline, result, watcher, once, canceled, done>>
CloseReturns ==
  /\ once = "done"
  /\ \/ user = "close" /\ user' = "closed" /\ UNCHANGED watcher
     \/ watcher = "close" /\ watcher' = "ended" /\ UNCHANGED user
  /\ UNCHANGED <<kind, i, conn, relay, closes, budget, deadline, result, once, canceled, done>>

Next ==
  \/ Dial \/ DialRelay \/ ApplyDeadline \/ RestoreDeadline \/ Passes \/ StepFails \/ Expire
  \/ Watch \/ WatcherLooks \/ WatcherReads \/ UserCloses
  \/ CloseCancels \/ CloseTells \/ CloseControl \/ CloseRelay \/ CloseOne \/ CloseReturns

Spec == Init /\ [][Next]_vars

\* A failed dial leaves nothing open and closes nothing twice; a successful one
\* hands over what it opened, with the handshake's deadline taken off.
DialOwnsItsConns ==
  /\ \A c \in Both : closes[c] <= 1
  /\ result = "err" => conn # "open" /\ relay # "open"
  /\ result = "ok" => ~deadline
  /\ (result = "ok" /\ once = "free" /\ user # "closed") => conn = "open" /\ (kind = "socks5udp" => relay = "open")

\* A dial that waits for a peer is bounded by the context's deadline, if it has one.
SilentPeerIsBounded ==
  (Dials /\ budget # "none" /\ Do \in {"exchange", "auth"}) => deadline

\* Whoever closes the association, both of its connections go, and TransportDone
\* fires once: also when the control connection ends while its owner closes.
AssociationEndsWhole ==
  /\ done <= 1
  /\ (user = "closed" \/ (watcher = "ended" /\ user = "idle")) =>
       conn = "closed" /\ (kind = "socks5udp" => relay = "closed" /\ done = 1)
=============================================================================
