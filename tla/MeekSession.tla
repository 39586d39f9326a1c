------------------------------ MODULE MeekSession ------------------------------
(***************************************************************************)
(* transport/meek.assemblerClientSession: a byte stream over HTTP polling. *)
(* keepRunning collects writes, posts them in order and queues the         *)
(* answers; a failed poll is posted again, at most MaxFailedPolls times in *)
(* a row.  The server may have acted on a poll whose answer is lost.       *)
(* Bytes are units, times are in steps of the polling interval.            *)
(***************************************************************************)
EXTENDS Integers, Sequences

CONSTANTS MaxWriteSize, MaxFailedPolls, QueueSize,
          InitialWait, MinWait, MaxWait, Sizes, MaxBytes, MaxReplies

VARIABLES ctx, wait, pc, first, sendBuffer, data, failedPolls, pollConnection,
          readerChan, readBuffer, accepted, server, replies, read, pending

vars == <<ctx, wait, pc, first, sendBuffer, data, failedPolls, pollConnection, readerChan, readBuffer,
          accepted, server, replies, read, pending>>

Init ==
  /\ ctx = TRUE /\ wait = InitialWait /\ pc = "run" /\ first = FALSE
  /\ sendBuffer = <<>> /\ data = <<>> /\ failedPolls = 0 /\ pollConnection = FALSE
  /\ readerChan = <<>> /\ readBuffer = <<>> /\ accepted = 0 /\ server = <<>> /\ replies = 0
  /\ read = <<>> /\ pending = <<>>

Smaller(i, j) == IF i < j THEN i ELSE j
Bigger(i, j) == IF i > j THEN i ELSE j
Prefix(s, n) == SubSeq(s, 1, n)
Rest(s, n) == SubSeq(s, n + 1, Len(s))

user == <<readerChan, readBuffer, read>>
net == <<accepted, server, replies>>

\* keepRunning: the next runOnce, with or without the wait for writes.
RunOnce ==
  /\ pc = "run" /\ ctx
  /\ sendBuffer' = <<>> /\ first' = TRUE /\ pollConnection' = TRUE
  /\ pc' = IF wait # 0 THEN "collect" ELSE "next"
  /\ UNCHANGED <<ctx, wait, data, failedPolls, user, net, pending>>

\* Write hands its bytes over only while runOnce collects.
Write(n) ==
  /\ pc = "collect" /\ ctx /\ accepted + n <= MaxBytes
  /\ accepted' = accepted + n
  /\ sendBuffer' = sendBuffer \o [i \in 1 .. n |-> accepted + i]
  /\ pc' = IF Len(sendBuffer') >= MaxWriteSize THEN "next" ELSE "collect"
  /\ UNCHANGED <<ctx, wait, first, data, failedPolls, pollConnection, user, server, replies, pending>>

WaitEnds ==
  /\ pc = "collect" /\ pc' = "next"
  /\ UNCHANGED <<ctx, wait, first, sendBuffer, data, failedPolls, pollConnection, user, net, pending>>

\* One post of at most MaxWriteSize bytes, until the buffer is empty.
NextPost ==
  /\ pc = "next" /\ (sendBuffer # <<>> \/ first)
  /\ LET n == Smaller(Len(sendBuffer), MaxWriteSize) IN
     /\ data' = Prefix(sendBuffer, n) /\ sendBuffer' = Rest(sendBuffer, n)
     /\ pollConnection' = (pollConnection /\ n = 0)
  /\ first' = FALSE /\ failedPolls' = 0 /\ pc' = "trip"
  /\ UNCHANGED <<ctx, wait, user, net, pending>>

\* The answer: nothing, or the next unit of the server's stream.
RoundTrip ==
  /\ pc = "trip" /\ ctx
  /\ server' = server \o data
  /\ \E r \in {0, 1} :
       /\ replies + r <= MaxReplies /\ replies' = replies + r
       /\ pending' = IF r = 1 THEN <<replies + 1>> ELSE <<>>
  /\ pc' = "deliver"
  /\ UNCHANGED <<ctx, wait, first, sendBuffer, data, failedPolls, pollConnection, user, accepted>>

\* The post fails, before or after the server acted on it; too many in a row end the
\* session, and so does a session that ended meanwhile.
RoundTripFails ==
  /\ pc = "trip"
  /\ \E reached \in BOOLEAN : server' = IF reached /\ ctx THEN server \o data ELSE server
  /\ failedPolls' = IF ctx THEN failedPolls + 1 ELSE failedPolls
  /\ ctx' = (ctx /\ failedPolls' < MaxFailedPolls)
  /\ pc' = IF ctx' THEN "trip" ELSE "gone"
  /\ UNCHANGED <<wait, first, sendBuffer, data, pollConnection, user, accepted, replies, pending>>

\* The answer waits for room in readerChan.
Deliver ==
  /\ pc = "deliver"
  /\ \/ ~ctx /\ pending # <<>> /\ pc' = "gone" /\ UNCHANGED <<readerChan, pollConnection>>
     \/ /\ pending = <<>> \/ Len(readerChan) < QueueSize
        /\ readerChan' = IF pending = <<>> THEN readerChan ELSE Append(readerChan, pending)
        /\ pollConnection' = (pollConnection /\ pending = <<>>)
        /\ pc' = "next"
  /\ pending' = <<>>
  /\ UNCHANGED <<ctx, wait, first, sendBuffer, data, failedPolls, readBuffer, read, net>>

\* The next interval: backed off within its bounds, or none after traffic.
Backoff ==
  /\ pc = "next" /\ sendBuffer = <<>> /\ ~first
  /\ wait' = IF pollConnection THEN Bigger(MinWait, Smaller(MaxWait, (3 * wait) \div 2)) ELSE 0
  /\ pc' = IF ctx THEN "run" ELSE "gone"
  /\ UNCHANGED <<ctx, first, sendBuffer, data, failedPolls, pollConnection, user, net, pending>>

Read(p) ==
  /\ readBuffer # <<>> \/ readerChan # <<>>
  /\ LET from == IF readBuffer # <<>> THEN readBuffer ELSE Head(readerChan)
         n == Smaller(p, Len(from)) IN
     /\ readerChan' = IF readBuffer # <<>> THEN readerChan ELSE Tail(readerChan)
     /\ readBuffer' = Rest(from, n) /\ read' = read \o Prefix(from, n)
  /\ UNCHANGED <<ctx, wait, pc, first, sendBuffer, data, failedPolls, pollConnection, net, pending>>

\* Close, and the timer of the one session deadline.
Finish ==
  /\ ctx /\ ctx' = FALSE
  /\ pc' = IF pc \in {"run", "collect"} THEN "gone" ELSE pc
  /\ UNCHANGED <<wait, first, sendBuffer, data, failedPolls, pollConnection, user, net, pending>>

Next ==
  \/ RunOnce \/ WaitEnds \/ NextPost \/ RoundTrip \/ RoundTripFails \/ Deliver \/ Backoff \/ Finish
  \/ \E n \in Sizes : Write(n)
  \/ Read(1)

Spec == Init /\ [][Next]_vars

\* The server sees the accepted bytes in order and without a gap: a retried post may
\* repeat bytes, and nothing is skipped or overtaken.
NoGap ==
  /\ \A i \in 1 .. Len(server) : \/ i = 1 /\ server[i] = 1
                                 \/ i > 1 /\ server[i] <= server[i - 1] + 1
  /\ pc \in {"run", "collect"} => \A b \in 1 .. (accepted - Len(sendBuffer)) : \E i \in 1 .. Len(server) : server[i] = b

\* What is read is a prefix of what the server answered, in order.
AnswersInOrder == \A i \in 1 .. Len(read) : read[i] = i

\* The polling interval stays within its bounds; a session gives up after a bounded
\* number of failed posts in a row.
PollBounded == (wait = 0 \/ wait \in MinWait .. MaxWait) /\ failedPolls <= MaxFailedPolls
=============================================================================
