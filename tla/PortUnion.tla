----------------------------- MODULE PortUnion ------------------------------
(***************************************************************************)
(* Port unions such as "443,8443-8450": ParsePortUnion, Normalize and      *)
(* Ports (protocol/hysteria2/udphop) give the ports a connection hops      *)
(* between; matchPortSpec (dialer/stickyip) decides from the same text     *)
(* whether the address of a dial is the proxy's.                           *)
(*                                                                         *)
(* A spec is the sequence of its parts, each a pair of numbers in the      *)
(* order they were written; a single port is a pair of equal numbers.      *)
(***************************************************************************)
EXTENDS Integers, Sequences, SequencesExt

CONSTANTS MaxPort,   \* the largest port
          MaxParts   \* bound on the parts of a spec

VARIABLES spec,   \* the text, part by part
          union   \* what ParsePortUnion makes of it

vars == <<spec, union>>

Port == 0..MaxPort
Part == Port \X Port

\* A part written from high to low is turned round.
Range16(part) == IF part[1] > part[2] THEN <<part[2], part[1]>> ELSE part

Less(r, q) == r[1] < q[1] \/ (r[1] = q[1] /\ r[2] < q[2])

\* One turn of the loop of Normalize: r extends the last range or starts one of its own.
\* The sum is taken in 32 bits.
MergeShrinks(done, r) ==
  LET last == Last(done) IN
  IF r[1] <= last[2] + 1 THEN Front(done) \o <<<<last[1], r[2]>>>> ELSE Append(done, r)
Merge(done, r) ==
  LET last == Last(done) IN
  IF r[1] <= last[2] + 1
  THEN Front(done) \o <<<<last[1], IF r[2] > last[2] THEN r[2] ELSE last[2]>>>>
  ELSE Append(done, r)

Normalize(u) ==
  IF u = <<>> THEN u
  ELSE LET sorted == SortSeq(u, Less) IN FoldLeft(Merge, <<Head(sorted)>>, Tail(sorted))

\* Ports: every port of every range, in order.
Ports(u) == FlattenSeq([i \in 1..Len(u) |-> [k \in 1..u[i][2] - u[i][1] + 1 |-> u[i][1] + k - 1]])

\* matchPortSpec compares a port with each part as it was written.
MatchPortSpec(port, s) == \E i \in 1..Len(s) : s[i][1] <= port /\ port <= s[i][2]

Init == spec = <<>> /\ union = <<>>

\* Texts grow by one part.
AddPart ==
  /\ Len(spec) < MaxParts
  /\ \E p \in Part : spec' = Append(spec, p)
  /\ union' = Normalize([i \in 1..Len(spec') |-> Range16(spec'[i])])

Next == AddPart

Spec == Init /\ [][Next]_vars

-----------------------------------------------------------------------------
(* Properties.                                                             *)

\* The ports a union stands for.
Meaning(s) == UNION {Range16(s[i])[1]..Range16(s[i])[2] : i \in 1..Len(s)}

\* Normalize keeps the set of ports, and its ranges are in order with a gap between any
\* two, so that Ports lists every port of the text once and from low to high.
PortsAreExact ==
  /\ \A i \in 1..Len(union) : union[i][1] <= union[i][2] /\ (i > 1 => union[i-1][2] + 1 < union[i][1])
  /\ LET ports == Ports(union) IN
       /\ {ports[i] : i \in 1..Len(ports)} = Meaning(spec)
       /\ \A i \in 2..Len(ports) : ports[i-1] < ports[i]

\* An address the sticky dialer takes for the proxy's is one of the ports hopped between,
\* and every such port is taken for the proxy's unless its range was written high to low.
HopPortsAreProxyPorts ==
  LET matched == {p \in Port : MatchPortSpec(p, spec)}
      inOrder == \A i \in 1..Len(spec) : spec[i][1] <= spec[i][2]
  IN  matched \subseteq Meaning(spec) /\ (inOrder => matched = Meaning(spec))
=============================================================================
