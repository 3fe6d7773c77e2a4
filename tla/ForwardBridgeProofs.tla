------------------------- MODULE ForwardBridgeProofs -------------------------
(***************************************************************************)
(* What an application is given through a forwarding rule is a run of what *)
(* the other wrote: proved for any number of bytes.                        *)
(***************************************************************************)
EXTENDS ForwardBridge, TLAPS

-----------------------------------------------------------------------------
(* Queues of bytes, in which 0 stands for anything else.                   *)

Present(s, b) == \E i \in DOMAIN s : s[i] = b

\* The bytes of s are lo + 1, lo + 2, and so on, in this order.
Carries(s, lo) ==
    /\ \A i \in DOMAIN s : s[i] = 0 \/ s[i] > lo
    /\ \A i, j \in DOMAIN s : i < j /\ s[i] # 0 /\ s[j] # 0 => s[i] < s[j]
    /\ \A i \in DOMAIN s : \A b \in (lo + 1)..s[i] : Present(s, b)

UpTo(s, lo, hi) == \A b \in (lo + 1)..hi : Present(s, b)
AtMost(s, hi) == \A i \in DOMAIN s : s[i] <= hi

\* An empty queue carries nothing.
LEMMA EmptyCarries ==
    ASSUME NEW lo \in Nat
    PROVE  Carries(<<>>, lo) /\ UpTo(<<>>, lo, lo) /\ AtMost(<<>>, lo)
BY DEF Carries, UpTo, AtMost, Present

\* Something is put behind a queue.
LEMMA Behind ==
    ASSUME NEW s \in Seq(Nat), NEW b \in Nat
    PROVE  /\ Append(s, b) \in Seq(Nat) /\ Len(Append(s, b)) = Len(s) + 1
           /\ DOMAIN s = 1..Len(s) /\ DOMAIN Append(s, b) = 1..(Len(s) + 1)
           /\ \A i \in DOMAIN s : Append(s, b)[i] = s[i]
           /\ Append(s, b)[Len(s) + 1] = b
           /\ Present(Append(s, b), b)
           /\ \A x : Present(s, x) => Present(Append(s, b), x)
<1>1. /\ Append(s, b) \in Seq(Nat) /\ Len(Append(s, b)) = Len(s) + 1
      /\ DOMAIN s = 1..Len(s) /\ DOMAIN Append(s, b) = 1..(Len(s) + 1) /\ Len(s) \in Nat
      /\ \A i \in DOMAIN s : Append(s, b)[i] = s[i]
      /\ Append(s, b)[Len(s) + 1] = b
  OBVIOUS
<1> QED BY <1>1 DEF Present

\* What is no byte does not disturb the bytes before it.
LEMMA AddNothing ==
    ASSUME NEW s \in Seq(Nat), NEW lo \in Nat, Carries(s, lo)
    PROVE  Carries(Append(s, 0), lo)
<1>1. /\ DOMAIN s = 1..Len(s) /\ DOMAIN Append(s, 0) = 1..(Len(s) + 1) /\ Len(s) \in Nat
      /\ \A i \in DOMAIN s : Append(s, 0)[i] = s[i] /\ s[i] \in Nat
      /\ Append(s, 0)[Len(s) + 1] = 0
      /\ \A x : Present(s, x) => Present(Append(s, 0), x)
  BY Behind
<1>2. \A i \in DOMAIN Append(s, 0) : Append(s, 0)[i] # 0 => i \in DOMAIN s
  BY <1>1
<1>3. \A i \in DOMAIN Append(s, 0) : \A b \in (lo + 1)..Append(s, 0)[i] : Append(s, 0)[i] # 0
  BY <1>1
<1> QED BY <1>1, <1>2, <1>3, Zenon DEF Carries

\* The next byte continues the run.
LEMMA AddNext ==
    ASSUME NEW s \in Seq(Nat), NEW lo \in Nat, NEW hi \in Nat, lo <= hi,
           Carries(s, lo), UpTo(s, lo, hi), AtMost(s, hi)
    PROVE  /\ Carries(Append(s, hi + 1), lo) /\ UpTo(Append(s, hi + 1), lo, hi + 1)
           /\ AtMost(Append(s, hi + 1), hi + 1)
<1>1. /\ DOMAIN s = 1..Len(s) /\ DOMAIN Append(s, hi + 1) = 1..(Len(s) + 1) /\ Len(s) \in Nat
      /\ \A i \in DOMAIN s : Append(s, hi + 1)[i] = s[i] /\ s[i] \in Nat
      /\ Append(s, hi + 1)[Len(s) + 1] = hi + 1
      /\ \A x : Present(s, x) => Present(Append(s, hi + 1), x)
      /\ Present(Append(s, hi + 1), hi + 1)
  BY Behind
<1>2. AtMost(Append(s, hi + 1), hi + 1)
  BY <1>1 DEF AtMost
<1>3. UpTo(Append(s, hi + 1), lo, hi + 1)
  BY <1>1 DEF UpTo
<1>4. \A i \in DOMAIN Append(s, hi + 1) : \A b \in (lo + 1)..Append(s, hi + 1)[i] :
         Present(Append(s, hi + 1), b)
  BY <1>1, <1>2, <1>3 DEF AtMost, UpTo
<1>5. \A i \in DOMAIN Append(s, hi + 1) :
         Append(s, hi + 1)[i] = 0 \/ Append(s, hi + 1)[i] > lo
  BY <1>1 DEF Carries
<1>6. \A i, j \in DOMAIN Append(s, hi + 1) :
         i < j /\ Append(s, hi + 1)[i] # 0 /\ Append(s, hi + 1)[j] # 0 =>
            Append(s, hi + 1)[i] < Append(s, hi + 1)[j]
  BY <1>1 DEF Carries, AtMost
<1> QED BY <1>2, <1>3, <1>4, <1>5, <1>6, Zenon DEF Carries

\* The first byte of a queue is the first of the run.
LEMMA TakeFirst ==
    ASSUME NEW s \in Seq(Nat), NEW lo \in Nat, s # <<>>, Carries(s, lo)
    PROVE  /\ Tail(s) \in Seq(Nat) /\ Head(s) \in Nat
           /\ \A hi : AtMost(s, hi) => AtMost(Tail(s), hi) /\ Head(s) <= hi
           /\ Head(s) = 0 => /\ Carries(Tail(s), lo)
                             /\ \A hi \in Nat : UpTo(s, lo, hi) => UpTo(Tail(s), lo, hi)
           /\ Head(s) # 0 => /\ Head(s) = lo + 1 /\ Carries(Tail(s), lo + 1)
                             /\ \A hi \in Nat : UpTo(s, lo, hi) => UpTo(Tail(s), lo + 1, hi)
<1>1. /\ Tail(s) \in Seq(Nat) /\ Head(s) = s[1] /\ Len(s) \in Nat /\ 1 \in DOMAIN s
      /\ DOMAIN s = 1..Len(s) /\ DOMAIN Tail(s) = 1..(Len(s) - 1)
      /\ \A i \in DOMAIN s : s[i] \in Nat
      /\ \A i \in DOMAIN Tail(s) : i + 1 \in DOMAIN s /\ Tail(s)[i] = s[i + 1]
  OBVIOUS
<1>2. \A x : Present(s, x) /\ x # Head(s) => Present(Tail(s), x)
  <2> SUFFICES ASSUME NEW i \in DOMAIN s, s[i] # s[1] PROVE Present(Tail(s), s[i])
    BY <1>1, Zenon DEF Present
  <2>1. i - 1 \in DOMAIN Tail(s) /\ Tail(s)[i - 1] = s[i]
    BY <1>1
  <2> QED BY <2>1, Zenon DEF Present
<1>3. \A hi : AtMost(s, hi) => AtMost(Tail(s), hi) /\ Head(s) <= hi
  BY <1>1, Zenon DEF AtMost
<1>4. \A i, j \in DOMAIN Tail(s) :
         i < j /\ Tail(s)[i] # 0 /\ Tail(s)[j] # 0 => Tail(s)[i] < Tail(s)[j]
  BY <1>1 DEF Carries
<1>5. ASSUME Head(s) = 0
      PROVE  /\ Carries(Tail(s), lo)
             /\ \A hi \in Nat : UpTo(s, lo, hi) => UpTo(Tail(s), lo, hi)
  <2>1. \A b \in Nat : b > lo /\ Present(s, b) => Present(Tail(s), b)
    BY <1>2, <1>5
  <2>2. \A hi \in Nat : UpTo(s, lo, hi) => UpTo(Tail(s), lo, hi)
    BY <2>1 DEF UpTo
  <2>3. \A i \in DOMAIN Tail(s) : Tail(s)[i] = 0 \/ Tail(s)[i] > lo
    BY <1>1, Zenon DEF Carries
  <2>4. \A i \in DOMAIN Tail(s) : \A b \in (lo + 1)..Tail(s)[i] : Present(Tail(s), b)
    <3> SUFFICES ASSUME NEW i \in DOMAIN Tail(s), NEW b \in (lo + 1)..s[i + 1]
                 PROVE  Present(Tail(s), b)
      BY <1>1, Zenon
    <3>1. Present(s, b)
      BY <1>1, Zenon DEF Carries
    <3> QED BY <1>1, <2>1, <3>1
  <2> QED BY <1>4, <2>2, <2>3, <2>4, Zenon DEF Carries
<1>6. ASSUME Head(s) # 0
      PROVE  /\ Head(s) = lo + 1 /\ Carries(Tail(s), lo + 1)
             /\ \A hi \in Nat : UpTo(s, lo, hi) => UpTo(Tail(s), lo + 1, hi)
  <2>1. s[1] > lo
    BY <1>1, <1>6, Zenon DEF Carries
  <2>2. \A i \in DOMAIN s : i # 1 /\ s[i] # 0 => s[i] > s[1]
    BY <1>1, <1>6 DEF Carries
  <2>3. Present(s, lo + 1)
    BY <1>1, <2>1 DEF Carries
  <2>4. Head(s) = lo + 1
    BY <1>1, <2>1, <2>2, <2>3 DEF Present
  <2>5. \A b \in Nat : b > lo + 1 /\ Present(s, b) => Present(Tail(s), b)
    BY <1>2, <2>4
  <2>6. \A hi \in Nat : UpTo(s, lo, hi) => UpTo(Tail(s), lo + 1, hi)
    BY <2>5 DEF UpTo
  <2>7. \A i \in DOMAIN Tail(s) : Tail(s)[i] = 0 \/ Tail(s)[i] > lo + 1
    BY <1>1, <2>2, <2>4
  <2>8. \A i \in DOMAIN Tail(s) : \A b \in (lo + 1 + 1)..Tail(s)[i] : Present(Tail(s), b)
    <3> SUFFICES ASSUME NEW i \in DOMAIN Tail(s), NEW b \in (lo + 1 + 1)..s[i + 1]
                 PROVE  Present(Tail(s), b)
      BY <1>1, Zenon
    <3>1. b \in (lo + 1)..s[i + 1] /\ i + 1 \in DOMAIN s
      BY <1>1
    <3>2. Present(s, b)
      BY <3>1, Zenon DEF Carries
    <3> QED BY <1>1, <2>5, <3>2
  <2> QED BY <1>4, <2>4, <2>6, <2>7, <2>8, Zenon DEF Carries
<1> QED BY <1>1, <1>3, <1>5, <1>6, Zenon

\* A queue without its first item.
LEMMA ByteTail ==
    ASSUME NEW s \in Seq(Nat), s # <<>>
    PROVE  /\ Len(s) \in Nat /\ Len(s) > 0 /\ Len(Tail(s)) = Len(s) - 1 /\ Tail(s) # s
           /\ Head(s) = s[1] /\ DOMAIN s = 1..Len(s) /\ DOMAIN Tail(s) = 1..(Len(s) - 1)
           /\ \A i \in DOMAIN Tail(s) : i + 1 \in DOMAIN s /\ Tail(s)[i] = s[i + 1]
<1>1. /\ Len(s) \in Nat /\ Len(s) > 0 /\ Len(Tail(s)) = Len(s) - 1
      /\ Head(s) = s[1] /\ DOMAIN s = 1..Len(s) /\ DOMAIN Tail(s) = 1..(Len(s) - 1)
      /\ \A i \in DOMAIN Tail(s) : i + 1 \in DOMAIN s /\ Tail(s)[i] = s[i + 1]
  OBVIOUS
<1>2. ASSUME Tail(s) = s PROVE FALSE
  BY <1>1, <1>2
<1> QED BY <1>1, <1>2, Zenon

\* A queue that loses its end still holds a run.
LEMMA LoseEnd ==
    ASSUME NEW s \in Seq(Nat), NEW lo \in Nat, Carries(s, lo), NEW k \in 0..Len(s)
    PROVE  /\ Carries(SubSeq(s, 1, k), lo)
           /\ \A hi : AtMost(s, hi) => AtMost(SubSeq(s, 1, k), hi)
<1>1. /\ SubSeq(s, 1, k) \in Seq(Nat) /\ DOMAIN s = 1..Len(s) /\ Len(s) \in Nat
      /\ DOMAIN SubSeq(s, 1, k) = 1..k
      /\ \A i \in 1..k : i \in DOMAIN s /\ SubSeq(s, 1, k)[i] = s[i] /\ s[i] \in Nat
  OBVIOUS
<1>2. \A hi : AtMost(s, hi) => AtMost(SubSeq(s, 1, k), hi)
  BY <1>1, Zenon DEF AtMost
<1>3. ASSUME NEW i \in 1..k, NEW b \in (lo + 1)..s[i] PROVE Present(SubSeq(s, 1, k), b)
  <2>1. PICK j \in DOMAIN s : s[j] = b
    BY <1>1, Zenon DEF Carries, Present
  <2>2. /\ i \in DOMAIN s /\ s[i] \in Nat /\ i \in Nat /\ j \in Nat /\ j > 0
        /\ b \in Nat /\ b # 0 /\ b <= s[i] /\ s[i] # 0
    BY <1>1, <2>1
  <2>3. i < j => s[i] < s[j]
    BY <2>1, <2>2, Zenon DEF Carries
  <2>4. j <= i
    BY <2>1, <2>2, <2>3, SMTT(20)
  <2>5. j \in 1..k /\ SubSeq(s, 1, k)[j] = b
    BY <1>1, <2>1, <2>2, <2>4, SMTT(20)
  <2> QED BY <1>1, <2>5, Zenon DEF Present
<1> QED BY <1>1, <1>2, <1>3, Zenon DEF Carries

-----------------------------------------------------------------------------
(* The inductive invariant.                                                *)

Message ==
    [command : {"ForwardActiveSlave", "ForwardActiveMaster", "ForwardData",
       "ForwardFreeContext",
                "KernelChannelClose"},
     byte : Nat]

BytesOf(w) == [i \in DOMAIN w |-> w[i].byte]
Has(w, command) == \E i \in DOMAIN w : w[i].command = command
Count(e) == written[e] - Len(sock[e])      \* bytes that the reader has taken

Typed ==
    /\ direction \in {"fport", "rport"} /\ direction \in Direction
    /\ alive \in BOOLEAN /\ rule \in {"there", "removed", "closed"}
    /\ app \in [End -> {"none", "open", "closed"}]
    /\ written \in [End -> 0..MaxBytes]
    /\ eof \in [End -> BOOLEAN] /\ sender \in [End -> BOOLEAN]
    /\ reader \in [End -> Task] /\ writer \in [End -> Task]
    /\ sock \in [End -> Seq(Nat)] /\ got \in [End -> Seq(Nat)] /\ queue \in [End -> Seq(Nat)]
    /\ wire \in [End -> Seq(Message)]

Accepts == {"idle", "ask", "wait", "bridge", "ended", "gave_up"}
Connects == {"idle", "connect", "insert", "master", "bridge", "ended"}
\* Neither task of an end has been started.
Off(e) == reader[e] = "off" /\ writer[e] = "off" /\ got[e] = <<>>

\* The acceptor a has not been answered.
Unanswered(a) ==
    /\ pc[a] # "bridge" /\ reader[a] = "off" /\ ~Has(wire[a], "ForwardActiveMaster")
    /\ \A i \in DOMAIN queue[a] : queue[a][i] # Activation

\* The acceptor a and the connector c set up one after the other: a sends
\* ForwardActiveSlave once, and only bridges when it has read c's answer.
PhasesOf(a, c) ==
    /\ pc[a] \in Accepts /\ pc[c] \in Connects
    /\ pc[a] \in {"idle", "ask"} => pc[c] = "idle"
    /\ pc[a] = "idle" => ~sender[a] /\ queue[a] = <<>> /\ app[a] = "none"
    /\ pc[c] \in {"idle", "connect", "insert"} => ~sender[c] /\ queue[c] = <<>>
    /\ pc[c] \in {"idle", "connect"} => app[c] = "none"
    /\ pc[c] \in {"idle", "connect", "insert", "master"} => Unanswered(a)
    /\ pc[a] \in {"idle", "ask", "wait"} => Off(a)
    /\ pc[c] \in {"idle", "connect", "insert"} => Off(c)
    /\ pc[c] = "master" /\ ~HdcdSlave(c) => Off(c)
    /\ reader[a] = "run" => pc[a] = "bridge"
    /\ reader[c] = "run" => pc[c] = "bridge" \/ HdcdSlave(c)

Phases == pc \in [End -> Accepts \cup Connects] /\ PhasesOf(Acceptor, Connector)

Plain(m) == m.command # "ForwardData" <=> m.byte = 0

MessagesOf(a, c) ==
    /\ \A i \in DOMAIN wire[a] : Plain(wire[a][i]) /\ wire[a][i].command # "ForwardActiveSlave"
    /\ \A i \in DOMAIN wire[c] : Plain(wire[c][i]) /\ wire[c][i].command # "ForwardActiveMaster"
    /\ Has(wire[c], "ForwardActiveSlave") => pc[c] = "idle" /\ pc[a] \notin {"idle", "ask"}
    /\ \A i, j \in DOMAIN wire[c] :
          wire[c][i].command = "ForwardActiveSlave" /\ wire[c][j].command = "ForwardActiveSlave"
             => i = j

Messages == MessagesOf(Acceptor, Connector)

\* A socket holds the last bytes written; nothing of it is sent before its
\* reader is started.
Sockets ==
    \A e \in End :
       /\ Len(sock[e]) <= written[e]
       /\ \A i \in DOMAIN sock[e] : sock[e][i] = Count(e) + i
       /\ reader[e] = "off" =>
             Count(e) = 0 /\ \A i \in DOMAIN wire[Peer(e)] : wire[Peer(e)][i].byte = 0

\* What the dispatcher of e takes may still reach its application.
Linked(e) == sender[e] /\ ~(e = "D" /\ direction = "rport" /\ rule = "closed")

\* What e's application has been given, what is queued for it and what is on
\* the way continue each other.
OnWay(e, mid) ==
    /\ Carries(BytesOf(wire[e]), mid) /\ AtMost(BytesOf(wire[e]), Count(Peer(e)))
    /\ alive => UpTo(BytesOf(wire[e]), mid, Count(Peer(e)))

FlowAt(e, lo, mid) ==
    /\ lo <= mid
    /\ Carries(queue[e], lo) /\ UpTo(queue[e], lo, mid) /\ AtMost(queue[e], mid)
    /\ Linked(e) => OnWay(e, mid)
    /\ app[e] # "closed" /\ got[e] # <<>> => got[e][Len(got[e])] = lo
    /\ app[e] # "closed" /\ got[e] = <<>> /\ direction = "rport" => lo = 0

Flow(e) == \E lo, mid \in 0..Count(Peer(e)) : FlowAt(e, lo, mid)

Given(e) ==
    /\ \A i \in DOMAIN got[e] : got[e][i] \in 1..Count(Peer(e))
    /\ \A i \in 2..Len(got[e]) : got[e][i] = got[e][i - 1] + 1
    /\ direction = "rport" /\ got[e] # <<>> => got[e][1] = 1

\* ForwardActiveMaster comes before the bytes.
Announced(w) ==
    \A i \in DOMAIN w : w[i].byte # 0 =>
       \E j \in DOMAIN w : j < i /\ w[j].command = "ForwardActiveMaster"

\* The first that hdcd's waiting end of an rport finds in its queue is the
\* activation: no byte is sent before it.
ActivatedFirst ==
    direction = "rport" /\ pc["D"] \in {"ask", "wait"} =>
       /\ queue["D"] # <<>> => queue["D"][1] = Activation
       /\ queue["D"] = <<>> /\ Linked("D") =>
             /\ Announced(wire["D"])
             /\ alive /\ reader["H"] # "off" => Has(wire["D"], "ForwardActiveMaster")

Bridge ==
    /\ Typed /\ Phases /\ Messages /\ Sockets /\ ActivatedFirst
    /\ \A e \in End : Flow(e) /\ Given(e)

\* The invariants that the runs check.
LEMMA BridgeIsRight == Bridge => TypeOK /\ Contiguous
<1> SUFFICES ASSUME Bridge PROVE TypeOK /\ Contiguous
  BY Zenon
<1>1. ASSUME NEW e \in End
      PROVE  /\ Count(e) \in 0..written[e] /\ written[e] \in 0..MaxBytes
             /\ Peer(e) \in End /\ queue[e] \in Seq(Nat) /\ got[e] \in Seq(Nat)
  BY <1>1, BridgeAssumption DEF Bridge, Typed, Sockets, Count, Peer, End
<1>2. ASSUME NEW e \in End PROVE \A i \in DOMAIN queue[e] : queue[e][i] \in 0..MaxBytes
  <2>1. PICK mid \in 0..Count(Peer(e)) : AtMost(queue[e], mid)
    BY Zenon DEF Bridge, Flow, FlowAt
  <2> QED BY <1>1, <2>1, BridgeAssumption, SMTT(20) DEF AtMost
<1>3. pc \in [End -> {"idle", "ask", "wait", "connect", "insert", "master", "bridge",
                      "ended", "gave_up"}]
  BY Zenon DEF Bridge, Phases, Accepts, Connects
<1>4. TypeOK
  <2>1. \A e \in End : reader[e] = "run" => pc[e] = "bridge" \/ HdcdSlave(e)
    BY DEF Bridge, Phases, PhasesOf, Typed, Acceptor, Connector, Peer, End
  <2> QED BY <1>2, <1>3, <2>1, Zenon DEF TypeOK, Bridge, Typed
<1>5. Contiguous
  <2> SUFFICES ASSUME NEW e \in End
               PROVE  /\ \A i \in DOMAIN got[e] : got[e][i] \in 1..written[Peer(e)]
                      /\ \A i \in 2..Len(got[e]) : got[e][i] = got[e][i - 1] + 1
                      /\ direction = "rport" /\ got[e] # <<>> => got[e][1] = 1
    BY Zenon DEF Contiguous
  <2>1. Given(e) /\ Count(Peer(e)) \in 0..written[Peer(e)] /\ written[Peer(e)] \in Nat
    BY <1>1 DEF Bridge
  <2> QED BY <2>1 DEF Given
<1> QED BY <1>4, <1>5, Zenon

\* At first nothing is on the way.
LEMMA BridgeInit == Init => Bridge
<1> SUFFICES ASSUME Init PROVE Bridge
  BY Zenon
<1>1. Typed
  BY BridgeAssumption DEF Init, Typed, End, Task, Message
<1>2. Acceptor \in End /\ Connector \in End
  BY Zenon DEF Acceptor, Connector, Peer, End
<1>3. \A e \in End : /\ written[e] = 0 /\ sock[e] = <<>> /\ got[e] = <<>> /\ queue[e] = <<>>
                     /\ wire[e] = <<>> /\ pc[e] = "idle" /\ reader[e] = "off" /\ writer[e] = "off"
                     /\ ~sender[e] /\ app[e] = "none" /\ Count(e) = 0 /\ Peer(e) \in End
  BY DEF Init, Count, Peer, End
<1>4. Phases
  <2>1. pc \in [End -> Accepts \cup Connects]
    BY Zenon DEF Init, Accepts, Connects
  <2> QED BY <1>2, <1>3, <2>1 DEF Phases, PhasesOf, Unanswered, Accepts, Connects, Off, Has
<1>5. Messages /\ Sockets
  BY <1>2, <1>3 DEF Messages, MessagesOf, Has, Sockets
<1>6. ActivatedFirst
  BY <1>3, Zenon DEF ActivatedFirst, End
<1>7. ASSUME NEW e \in End PROVE Flow(e) /\ Given(e)
  <2>1. FlowAt(e, 0, 0)
    BY <1>3, EmptyCarries DEF FlowAt, Linked
  <2>2. Count(Peer(e)) = 0 /\ got[e] = <<>>
    BY <1>3, Zenon
  <2>3. Flow(e)
    <3>1. 0 \in 0..Count(Peer(e))
      BY <2>2
    <3> QED BY <2>1, <3>1, Zenon DEF Flow
  <2>4. Given(e)
    BY <2>2 DEF Given
  <2> QED BY <2>3, <2>4, Zenon
<1> QED BY <1>1, <1>4, <1>5, <1>6, <1>7, Zenon DEF Bridge

-----------------------------------------------------------------------------
(* The two ends, and messages.                                             *)

\* The acceptor and the connector are the two ends.
LEMMA TheEnds ==
    ASSUME Typed
    PROVE  /\ Acceptor \in End /\ Connector \in End /\ Acceptor # Connector
           /\ Peer(Acceptor) = Connector /\ Peer(Connector) = Acceptor
           /\ \A e \in End : /\ Peer(e) \in End /\ Peer(e) # e /\ Peer(Peer(e)) = e
                             /\ e \in {Acceptor, Connector} /\ (HdcdSlave(e) => e = Connector)
BY Zenon DEF Typed, Acceptor, Connector, Peer, End, HdcdSlave

\* The bytes of a queue of messages follow it.
LEMMA TheBytes ==
    ASSUME NEW w \in Seq(Message)
    PROVE  /\ BytesOf(w) \in Seq(Nat) /\ Len(BytesOf(w)) = Len(w)
           /\ DOMAIN BytesOf(w) = DOMAIN w /\ \A i \in DOMAIN w : BytesOf(w)[i] = w[i].byte
           /\ \A m \in Message : BytesOf(Append(w, m)) = Append(BytesOf(w), m.byte)
           /\ w # <<>> => /\ BytesOf(w) # <<>> /\ Head(BytesOf(w)) = Head(w).byte
                          /\ BytesOf(Tail(w)) = Tail(BytesOf(w)) /\ Tail(w) \in Seq(Message)
                          /\ Head(w) \in Message /\ 1 \in DOMAIN w /\ Head(w) = w[1]
           /\ \A k \in 0..Len(w) : BytesOf(SubSeq(w, 1, k)) = SubSeq(BytesOf(w), 1, k)
<1>0. /\ Len(w) \in Nat /\ DOMAIN w = 1..Len(w)
      /\ \A i \in DOMAIN w : w[i] \in Message /\ w[i].byte \in Nat
  <2>1. \A m \in Message : m.byte \in Nat
    BY Zenon DEF Message
  <2> QED BY <2>1
<1>1. BytesOf(w) \in Seq(Nat) /\ Len(BytesOf(w)) = Len(w) /\ DOMAIN BytesOf(w) = DOMAIN w
  BY <1>0 DEF BytesOf
<1>2. ASSUME NEW m \in Message PROVE BytesOf(Append(w, m)) = Append(BytesOf(w), m.byte)
  <2>1. /\ Append(w, m) \in Seq(Message) /\ Len(w) \in Nat /\ m.byte \in Nat
        /\ DOMAIN Append(w, m) = 1..(Len(w) + 1) /\ DOMAIN w = 1..Len(w)
        /\ \A i \in 1..Len(w) : Append(w, m)[i] = w[i]
        /\ Append(w, m)[Len(w) + 1] = m
    BY DEF Message
  <2>2. /\ DOMAIN Append(BytesOf(w), m.byte) = 1..(Len(w) + 1)
        /\ \A i \in 1..Len(w) : Append(BytesOf(w), m.byte)[i] = BytesOf(w)[i]
        /\ Append(BytesOf(w), m.byte)[Len(w) + 1] = m.byte
        /\ Append(BytesOf(w), m.byte) \in Seq(Nat)
    BY <1>1, <2>1
  <2>3. \A i \in 1..(Len(w) + 1) : Append(w, m)[i].byte = Append(BytesOf(w), m.byte)[i]
    BY <2>1, <2>2 DEF BytesOf
  <2>4. Append(BytesOf(w), m.byte) = [i \in 1..(Len(w) + 1) |-> Append(BytesOf(w), m.byte)[i]]
    BY <2>2
  <2> QED BY <2>1, <2>3, <2>4, Zenon DEF BytesOf
<1>3. ASSUME w # <<>>
      PROVE  /\ BytesOf(w) # <<>> /\ Head(BytesOf(w)) = Head(w).byte
             /\ BytesOf(Tail(w)) = Tail(BytesOf(w)) /\ Tail(w) \in Seq(Message)
             /\ Head(w) \in Message /\ 1 \in DOMAIN w /\ Head(w) = w[1]
  <2>1. /\ 1 \in DOMAIN w /\ Head(w) = w[1] /\ Tail(w) \in Seq(Message)
        /\ DOMAIN Tail(w) = 1..(Len(w) - 1)
        /\ \A i \in 1..(Len(w) - 1) : Tail(w)[i] = w[i + 1] /\ i + 1 \in DOMAIN w
    BY <1>0, <1>3
  <2>2. /\ BytesOf(w) # <<>> /\ Head(BytesOf(w)) = BytesOf(w)[1]
        /\ DOMAIN Tail(BytesOf(w)) = 1..(Len(w) - 1) /\ Tail(BytesOf(w)) \in Seq(Nat)
        /\ \A i \in 1..(Len(w) - 1) : Tail(BytesOf(w))[i] = BytesOf(w)[i + 1]
    BY <1>0, <1>1, <2>1
  <2>3. \A i \in 1..(Len(w) - 1) : Tail(w)[i].byte = Tail(BytesOf(w))[i]
    BY <2>1, <2>2, Zenon DEF BytesOf
  <2>4. Tail(BytesOf(w)) = [i \in 1..(Len(w) - 1) |-> Tail(BytesOf(w))[i]]
    <3>1. \A t \in Seq(Nat) : t = [i \in DOMAIN t |-> t[i]]
      OBVIOUS
    <3> QED BY <2>2, <3>1, Zenon
  <2>5. BytesOf(Tail(w)) = Tail(BytesOf(w))
    BY <2>1, <2>3, <2>4, Zenon DEF BytesOf
  <2> QED BY <1>0, <2>1, <2>2, <2>5, Zenon DEF BytesOf
<1>4. ASSUME NEW k \in 0..Len(w) PROVE BytesOf(SubSeq(w, 1, k)) = SubSeq(BytesOf(w), 1, k)
  <2>1. /\ DOMAIN SubSeq(w, 1, k) = 1..k /\ DOMAIN w = 1..Len(w)
        /\ \A i \in 1..k : SubSeq(w, 1, k)[i] = w[i] /\ i \in 1..Len(w)
    OBVIOUS
  <2>2. /\ DOMAIN SubSeq(BytesOf(w), 1, k) = 1..k
        /\ \A i \in 1..k : SubSeq(BytesOf(w), 1, k)[i] = BytesOf(w)[i]
        /\ SubSeq(BytesOf(w), 1, k) \in Seq(Nat)
    BY <1>1
  <2>3. \A i \in 1..k : SubSeq(w, 1, k)[i].byte = SubSeq(BytesOf(w), 1, k)[i]
    BY <2>1, <2>2, Zenon DEF BytesOf
  <2>4. SubSeq(BytesOf(w), 1, k) = [i \in 1..k |-> SubSeq(BytesOf(w), 1, k)[i]]
    BY <2>2
  <2> QED BY <2>1, <2>3, <2>4, Zenon DEF BytesOf
<1>5. \A i \in DOMAIN w : BytesOf(w)[i] = w[i].byte
  BY Zenon DEF BytesOf
<1> QED BY <1>1, <1>2, <1>3, <1>4, <1>5, Zenon

\* What is sent is a message, and only goes out while the session is up.
LEMMA Kinds ==
    /\ Msg("ForwardActiveSlave", 0) \in Message /\ Msg("ForwardActiveMaster", 0) \in Message
    /\ Msg("ForwardFreeContext", 0) \in Message /\ Msg("KernelChannelClose", 0) \in Message
    /\ \A b \in Nat : Msg("ForwardData", b) \in Message
    /\ \A k, b : Msg(k, b).command = k /\ Msg(k, b).byte = b
BY Zenon DEF Msg, Message

\* A queue of one end grows and shrinks.
LEMMA ByteQueues ==
    ASSUME NEW f \in [End -> Seq(Nat)], NEW e \in End
    PROVE  /\ f[e] \in Seq(Nat)
           /\ \A q \in Seq(Nat) : [f EXCEPT ![e] = q] \in [End -> Seq(Nat)]
           /\ \A b \in Nat : Append(f[e], b) \in Seq(Nat)
           /\ f[e] # <<>> => Tail(f[e]) \in Seq(Nat) /\ Head(f[e]) \in Nat
OBVIOUS

\* A queue of messages of one end grows and shrinks.
LEMMA MessageQueues ==
    ASSUME NEW f \in [End -> Seq(Message)], NEW e \in End
    PROVE  /\ f[e] \in Seq(Message)
           /\ \A q \in Seq(Message) : [f EXCEPT ![e] = q] \in [End -> Seq(Message)]
           /\ \A m \in Message : Append(f[e], m) \in Seq(Message)
           /\ f[e] # <<>> => /\ Tail(f[e]) \in Seq(Message) /\ Head(f[e]) \in Message
                             /\ Head(f[e]).byte \in Nat
<1>1. \A m \in Message : m.byte \in Nat
  BY Zenon DEF Message
<1> QED BY <1>1

\* Sending keeps the types.
LEMMA Sending ==
    ASSUME Typed, NEW e \in End, NEW m \in Message, Send(e, m) \/ SendOrNot(e, m)
    PROVE  wire' \in [End -> Seq(Message)]
<1>1. Peer(e) \in End /\ wire \in [End -> Seq(Message)]
  BY TheEnds, Zenon DEF Typed
<1>2. wire' = wire \/ wire' = [wire EXCEPT ![Peer(e)] = Append(wire[Peer(e)], m)]
  BY Zenon DEF SendOrNot, Send, SendFails
<1> QED BY <1>1, <1>2, MessageQueues, Zenon

\* Every step keeps the types.
LEMMA TypedStep == Bridge /\ [Next]_vars => Typed'
<1> SUFFICES ASSUME Bridge, [Next]_vars PROVE Typed'
  BY Zenon
<1>0. /\ Typed /\ Acceptor \in End /\ Connector \in End
      /\ \A e \in End : queue[e] # <<>> => Tail(queue[e]) \in Seq(Nat) /\ Head(queue[e]) \in Nat
      /\ \A e \in End : sock[e] # <<>> => Tail(sock[e]) \in Seq(Nat) /\ Head(sock[e]) \in Nat
      /\ \A e \in End : wire[e] # <<>> => /\ Tail(wire[e]) \in Seq(Message)
                                          /\ Head(wire[e]).byte \in Nat
  <2>1. \A m \in Message : m.byte \in Nat
    BY Zenon DEF Message
  <2>2. /\ Typed /\ queue \in [End -> Seq(Nat)] /\ sock \in [End -> Seq(Nat)]
        /\ wire \in [End -> Seq(Message)]
    BY Zenon DEF Bridge, Typed
  <2> QED BY <2>1, <2>2, TheEnds, ByteQueues, MessageQueues, Zenon
<1>1. CASE Accept
  BY <1>0, <1>1, Zenon DEF Accept, SetSender, Typed
<1>2. CASE SendActiveSlave
  <2>1. wire' \in [End -> Seq(Message)]
    BY <1>0, <1>2, Sending, Kinds, Zenon DEF SendActiveSlave, SendOrNot
  <2> QED BY <1>0, <1>2, <2>1, Zenon DEF SendActiveSlave, SetSender, Typed
<1>3. CASE AwaitActivation
  BY <1>0, <1>3, Zenon DEF AwaitActivation, StartTasks, Typed, Task
<1>4. CASE ActivationFails
  <2>1. wire' \in [End -> Seq(Message)]
    BY <1>0, <1>4, Sending, Kinds, Zenon DEF ActivationFails, Typed, End
  <2> QED BY <1>0, <1>4, <2>1, Zenon DEF ActivationFails, SetSender, Typed
<1>5. CASE ConnectTarget
  <2>1. wire' \in [End -> Seq(Message)]
    BY <1>0, <1>5, Sending, Kinds, Zenon DEF ConnectTarget, Typed
  <2> QED BY <1>0, <1>5, <2>1, Zenon DEF ConnectTarget, Typed
<1>6. CASE InsertSender
  BY <1>0, <1>6, Zenon DEF InsertSender, SetSender, StartTasks, Typed, Task
<1>7. CASE SendActiveMaster
  <2>1. wire' \in [End -> Seq(Message)]
    BY <1>0, <1>7, Sending, Kinds, Zenon DEF SendActiveMaster, SendOrNot
  <2> QED BY <1>0, <1>7, <2>1, Zenon DEF SendActiveMaster, SetSender, StartTasks, Typed, Task
<1>8. CASE RemoveRule
  <2>1. wire' \in [End -> Seq(Message)]
    BY <1>0, <1>8, Sending, Kinds, Zenon DEF RemoveRule, End
  <2> QED BY <1>0, <1>8, <2>1, Zenon DEF RemoveRule, Typed
<1>9. CASE SessionEnds
  <2>1. wire' \in [End -> Seq(Message)]
    <3>1. PICK n \in 0..Len(wire["H"]), d \in 0..Len(wire["D"]) :
             wire' = [H |-> SubSeq(wire["H"], 1, n), D |-> SubSeq(wire["D"], 1, d)]
      BY <1>9, Zenon DEF SessionEnds
    <3>2. wire["H"] \in Seq(Message) /\ wire["D"] \in Seq(Message)
      BY <1>0, Zenon DEF Typed, End
    <3>3. SubSeq(wire["H"], 1, n) \in Seq(Message) /\ SubSeq(wire["D"], 1, d) \in Seq(Message)
      BY <3>2
    <3>4. wire' = [e \in End |-> wire'[e]]
      <4>1. DOMAIN wire' = End /\ wire' = [e \in DOMAIN wire' |-> wire'[e]]
        BY <3>1, Zenon DEF End
      <4> QED BY <4>1, Zenon
    <3>5. \A e \in End : wire'[e] \in Seq(Message)
      <4>1. /\ wire'["H"] = SubSeq(wire["H"], 1, n) /\ wire'["D"] = SubSeq(wire["D"], 1, d)
        BY <3>1, Zenon
      <4> QED BY <3>3, <4>1, Zenon DEF End
    <3> QED BY <3>4, <3>5, Zenon
  <2> QED BY <1>0, <1>9, <2>1, Zenon DEF SessionEnds, Typed
<1>10. ASSUME NEW e \in End, AppWrites(e) \/ AppCloses(e) PROVE Typed'
  <2>1. CASE AppWrites(e)
    <3>1. written[e] + 1 \in 0..MaxBytes /\ written[e] + 1 \in Nat
      <4>1. written[e] \in 0..MaxBytes /\ written[e] < MaxBytes /\ MaxBytes \in Nat
        BY <1>0, <2>1, BridgeAssumption, Zenon DEF AppWrites, Typed
      <4> QED BY <4>1
    <3>2. sock' \in [End -> Seq(Nat)]
      BY <1>0, <2>1, <3>1, ByteQueues, Zenon DEF AppWrites, Typed
    <3> QED BY <1>0, <2>1, <3>1, <3>2, Zenon DEF AppWrites, Typed
  <2>2. CASE AppCloses(e)
    BY <1>0, <2>2, Zenon DEF AppCloses, Typed
  <2> QED BY <1>10, <2>1, <2>2, Zenon
<1>11. ASSUME NEW e \in End, Dispatch(e) PROVE Typed'
  <2>1. wire' \in [End -> Seq(Message)]
    BY <1>0, <1>11, Zenon DEF Dispatch, Taken, Typed
  <2>2. queue' \in [End -> Seq(Nat)]
    <3>1. \/ queue' = queue
          \/ \E b \in Nat : queue' = [queue EXCEPT ![e] = Append(queue[e], b)]
      BY <1>0, <1>11, Zenon DEF Dispatch, ToWriter, Activation
    <3> QED BY <1>0, <3>1, ByteQueues, Zenon DEF Typed
  <2>3. sender' \in [End -> BOOLEAN] /\ alive' \in BOOLEAN
    BY <1>0, <1>11, Zenon DEF Dispatch, SetSender, ChannelClose, Typed
  <2>4. rule' \in {"there", "removed", "closed"}
    BY <1>0, <1>11, Zenon DEF Dispatch, ChannelClose, Typed
  <2>5. UNCHANGED <<direction, app, written, sock, got, eof, reader, writer>>
    BY <1>11, Zenon DEF Dispatch
  <2> QED BY <1>0, <2>1, <2>2, <2>3, <2>4, <2>5, Zenon DEF Typed
<1>12. ASSUME NEW e \in End, ReadSocket(e) PROVE Typed'
  <2>1. wire' \in [End -> Seq(Message)]
    <3>1. sock[e] # <<>> => Msg("ForwardData", Head(sock[e])) \in Message
      BY <1>0, Kinds, Zenon
    <3>2. \/ wire' = wire
          \/ \E m \in Message : Send(e, m) \/ SendOrNot(e, m)
      BY <1>12, <3>1, Kinds, Zenon DEF ReadSocket, SendFails
    <3> QED BY <1>0, <3>2, Sending, Zenon DEF Typed
  <2>2. sock' \in [End -> Seq(Nat)]
    BY <1>0, <1>12, ByteQueues, Zenon DEF ReadSocket, Typed
  <2> QED BY <1>0, <1>12, <2>1, <2>2, Zenon DEF ReadSocket, Typed, Task
<1>13. ASSUME NEW e \in End, WriteSocket(e) PROVE Typed'
  <2>1. queue' \in [End -> Seq(Nat)]
    BY <1>0, <1>13, ByteQueues, Zenon DEF WriteSocket, Typed
  <2>2. got' \in [End -> Seq(Nat)]
    BY <1>0, <1>13, ByteQueues, Zenon DEF WriteSocket, Typed
  <2> QED BY <1>0, <1>13, <2>1, <2>2, Zenon DEF WriteSocket, Typed, Task
<1>14. ASSUME NEW e \in End, WriterEnds(e) PROVE Typed'
  BY <1>0, <1>14, Zenon DEF WriterEnds, Typed, Task
<1>15. ASSUME NEW e \in End, JoinBridge(e) PROVE Typed'
  <2>1. wire' \in [End -> Seq(Message)]
    BY <1>0, <1>15, Sending, Kinds, Zenon DEF JoinBridge
  <2> QED BY <1>0, <1>15, <2>1, Zenon DEF JoinBridge, SetSender, Typed
<1>16. CASE UNCHANGED vars
  BY <1>0, <1>16, Zenon DEF vars, Typed
<1> QED BY Zenon, <1>1, <1>2, <1>3, <1>4, <1>5, <1>6, <1>7, <1>8, <1>9, <1>10, <1>11, <1>12, <1>13,
           <1>14, <1>15, <1>16 DEF Next, SetUp, Bridging

-----------------------------------------------------------------------------
(* What is on the way to an end.                                           *)

\* Nothing changes on the way; or something that is no byte, or the next byte,
\* is sent; or the session has ended and the last messages are lost.
LEMMA OnTheWay ==
    ASSUME NEW e \in End, NEW mid \in Nat, OnWay(e, mid), wire[e] \in Seq(Message),
           Count(Peer(e)) \in Nat, Count(Peer(e))' \in Nat, mid <= Count(Peer(e)),
           \/ /\ wire'[e] = wire[e] /\ Count(Peer(e))' = Count(Peer(e)) /\ (alive' => alive)
           \/ \E m \in Message : /\ wire'[e] = Append(wire[e], m) /\ m.byte = 0
                                 /\ Count(Peer(e))' = Count(Peer(e)) /\ (alive' => alive)
           \/ \E m \in Message : /\ wire'[e] = Append(wire[e], m) /\ alive
                                 /\ m.byte = Count(Peer(e)) + 1
                                 /\ Count(Peer(e))' = Count(Peer(e)) + 1
           \/ /\ ~alive' /\ Count(Peer(e))' >= Count(Peer(e))
              /\ \/ wire'[e] = wire[e]
                 \/ \E k \in 0..Len(wire[e]) : wire'[e] = SubSeq(wire[e], 1, k)
    PROVE  OnWay(e, mid)'
<1> DEFINE B == BytesOf(wire[e])
           n == Count(Peer(e))
<1>0. /\ B \in Seq(Nat) /\ Carries(B, mid) /\ AtMost(B, n) /\ (alive => UpTo(B, mid, n))
      /\ n \in Nat /\ \A i \in DOMAIN B : B[i] \in Nat
  <2>1. B \in Seq(Nat)
    BY TheBytes, Zenon
  <2>2. \A q \in Seq(Nat) : \A i \in DOMAIN q : q[i] \in Nat
    OBVIOUS
  <2>3. \A i \in DOMAIN B : B[i] \in Nat
    BY <2>1, <2>2, Zenon
  <2> QED BY <2>1, <2>3, Zenon DEF OnWay
<1>1. CASE wire'[e] = wire[e] /\ Count(Peer(e))' = n /\ (alive' => alive)
  BY <1>1, Zenon DEF OnWay
<1>2. ASSUME NEW m \in Message, wire'[e] = Append(wire[e], m), m.byte = 0,
             Count(Peer(e))' = n, alive' => alive
      PROVE  OnWay(e, mid)'
  <2>1. BytesOf(wire'[e]) = Append(B, 0)
    BY <1>2, TheBytes, SMTT(20)
  <2> HIDE DEF B, n
  <2>2. Carries(Append(B, 0), mid)
    BY <1>0, AddNothing, Zenon
  <2>3. AtMost(Append(B, 0), n) /\ (UpTo(B, mid, n) => UpTo(Append(B, 0), mid, n))
    <3>1. /\ DOMAIN Append(B, 0) = 1..(Len(B) + 1) /\ DOMAIN B = 1..Len(B) /\ Len(B) \in Nat
          /\ \A i \in DOMAIN B : Append(B, 0)[i] = B[i]
          /\ Append(B, 0)[Len(B) + 1] = 0
          /\ \A x : Present(B, x) => Present(Append(B, 0), x)
      BY <1>0, Behind, SMTT(20)
    <3> QED BY <1>0, <3>1 DEF AtMost, UpTo
  <2> QED BY <1>0, <1>2, <2>1, <2>2, <2>3, Zenon DEF OnWay
<1>3. ASSUME NEW m \in Message, wire'[e] = Append(wire[e], m), alive, m.byte = n + 1,
             Count(Peer(e))' = n + 1
      PROVE  OnWay(e, mid)'
  <2>1. BytesOf(wire'[e]) = Append(B, n + 1)
    BY <1>3, TheBytes, Zenon
  <2>2. mid <= n
    BY Zenon
  <2> HIDE DEF B, n
  <2>3. /\ Carries(Append(B, n + 1), mid) /\ UpTo(Append(B, n + 1), mid, n + 1)
        /\ AtMost(Append(B, n + 1), n + 1)
    BY <1>0, <1>3, <2>2, AddNext, Zenon
  <2> QED BY <1>3, <2>1, <2>3, Zenon DEF OnWay
<1>4. CASE /\ ~alive' /\ Count(Peer(e))' >= n
           /\ \/ wire'[e] = wire[e]
              \/ \E k \in 0..Len(wire[e]) : wire'[e] = SubSeq(wire[e], 1, k)
  <2>1. Carries(BytesOf(wire'[e]), mid) /\ AtMost(BytesOf(wire'[e]), n)
    <3>1. ASSUME NEW k \in 0..Len(wire[e]), wire'[e] = SubSeq(wire[e], 1, k)
          PROVE  Carries(BytesOf(wire'[e]), mid) /\ AtMost(BytesOf(wire'[e]), n)
      <4>1. BytesOf(wire'[e]) = SubSeq(B, 1, k) /\ k \in 0..Len(B)
        BY <3>1, TheBytes, Zenon
      <4> HIDE DEF B, n
      <4> QED BY <1>0, <4>1, LoseEnd, Zenon
    <3> QED BY <1>0, <1>4, <3>1, Zenon
  <2>2. AtMost(BytesOf(wire'[e]), Count(Peer(e))')
    <3>1. PICK b : b = BytesOf(wire'[e])
      BY Zenon
    <3>2. \A i \in DOMAIN b : b[i] \in Nat
      <4>1. CASE wire'[e] = wire[e]
        BY <1>0, <3>1, <4>1, Zenon
      <4>2. ASSUME NEW k \in 0..Len(wire[e]), wire'[e] = SubSeq(wire[e], 1, k)
            PROVE  \A i \in DOMAIN b : b[i] \in Nat
        <5>1. b = SubSeq(B, 1, k) /\ k \in 0..Len(B)
          BY <3>1, <4>2, TheBytes, Zenon
        <5> HIDE DEF B, n
        <5> QED BY <1>0, <5>1, SMTT(20)
      <4> QED BY <1>4, <4>1, <4>2, Zenon
    <3> QED BY <1>0, <1>4, <2>1, <3>1, <3>2 DEF AtMost
  <2> QED BY <1>4, <2>1, <2>2, Zenon DEF OnWay
<1> QED BY <1>1, <1>2, <1>3, <1>4, Zenon

\* What is queued for an end and given to its application stays a run in a
\* step that touches neither.
LEMMA StillFlows ==
    ASSUME NEW e \in End, Flow(e), Given(e), queue'[e] = queue[e], got'[e] = got[e],
           direction' = direction, app'[e] # "closed" => app[e] # "closed",
           Count(Peer(e)) \in Nat, Count(Peer(e))' \in Nat, Count(Peer(e))' >= Count(Peer(e)),
           \A mid \in 0..Count(Peer(e)) :
              Linked(e)' => Linked(e) /\ (OnWay(e, mid) => OnWay(e, mid)')
    PROVE  Flow(e)' /\ Given(e)'
<1>1. PICK lo \in 0..Count(Peer(e)), mid \in 0..Count(Peer(e)) : FlowAt(e, lo, mid)
  BY Zenon DEF Flow
<1>2. FlowAt(e, lo, mid)'
  BY <1>1, Zenon DEF FlowAt
<1>3. Flow(e)'
  BY <1>1, <1>2 DEF Flow
<1>4. Given(e)'
  BY DEF Given
<1> QED BY <1>3, <1>4, Zenon

\* The messages of a queue that grows, shrinks or loses its end.
LEMMA MessageSeqs ==
    ASSUME NEW w \in Seq(Message)
    PROVE  /\ Len(w) \in Nat /\ DOMAIN w = 1..Len(w)
           /\ \A m \in Message : /\ DOMAIN Append(w, m) = 1..(Len(w) + 1)
                                 /\ \A i \in DOMAIN w : Append(w, m)[i] = w[i]
                                 /\ Append(w, m)[Len(w) + 1] = m
           /\ w # <<>> => /\ Head(w) = w[1] /\ 1 \in DOMAIN w /\ DOMAIN Tail(w) = 1..(Len(w) - 1)
                          /\ \A i \in DOMAIN Tail(w) : i + 1 \in DOMAIN w /\ Tail(w)[i] = w[i + 1]
           /\ \A k \in 0..Len(w) : /\ DOMAIN SubSeq(w, 1, k) = 1..k
                                   /\ \A i \in 1..k : i \in DOMAIN w /\ SubSeq(w, 1,
                                      k)[i] = w[i]
OBVIOUS

\* An end has read some of what its application wrote.
LEMMA Counts ==
    ASSUME Typed, Sockets, NEW e \in End
    PROVE  /\ Count(e) \in Nat /\ Count(e) <= written[e] /\ Len(sock[e]) \in Nat
           /\ Count(e) = written[e] - Len(sock[e]) /\ written[e] \in Nat
           /\ Peer(e) \in End /\ wire[e] \in Seq(Message)
<1>1. Peer(e) \in End /\ wire[e] \in Seq(Message) /\ sock[e] \in Seq(Nat) /\ written[e] \in Nat
  BY TheEnds, BridgeAssumption DEF Typed
<1>2. Len(sock[e]) \in Nat /\ Len(sock[e]) <= written[e]
  BY <1>1 DEF Sockets
<1> QED BY <1>1, <1>2 DEF Count

\* The messages of a queue to which one may have been added.
LEMMA MayAdd ==
    ASSUME NEW w \in Seq(Message), NEW v, NEW m \in Message, v = Append(w, m),
       NEW i \in DOMAIN v
    PROVE  v[i] = m \/ (i \in DOMAIN w /\ v[i] = w[i])
BY MessageSeqs

\* A step that sends at most something that is no byte, lets nobody else in
\* and moves no byte leaves all bytes where they belong.
LEMMA Quiet ==
    ASSUME Bridge, Typed', UNCHANGED <<direction, queue, got, written, sock>>, alive' => alive,
           NEW x \in End, \A e \in End \ {x} : wire'[e] = wire[e],
           \/ wire'[x] = wire[x]
           \/ \E m \in Message : wire'[x] = Append(wire[x], m) /\ m.byte = 0,
           \A e \in End : /\ reader'[e] = "off" => reader[e] = "off"
                          /\ Linked(e)' => Linked(e)
                          /\ app'[e] # "closed" => app[e] # "closed"
    PROVE  Sockets' /\ \A e \in End : Flow(e)' /\ Given(e)'
<1>0. Typed /\ Sockets /\ \A e \in End : Count(e)' = Count(e)
  BY Zenon DEF Bridge, Count
<1>1. \A e \in End : /\ Count(e)' = Count(e) /\ Count(e) \in Nat /\ Peer(e) \in End
                     /\ wire[e] \in Seq(Message)
  BY <1>0, Counts, Zenon
<1>2. ASSUME NEW e \in End, NEW i \in DOMAIN wire'[e]
      PROVE  wire'[e][i].byte = 0 \/ (i \in DOMAIN wire[e] /\ wire'[e][i] = wire[e][i])
  <2>1. CASE wire'[e] = wire[e]
    BY <1>2, <2>1, Zenon
  <2>2. ASSUME NEW m \in Message, wire'[e] = Append(wire[e], m), m.byte = 0
        PROVE  wire'[e][i].byte = 0 \/ (i \in DOMAIN wire[e] /\ wire'[e][i] = wire[e][i])
    BY <1>1, <1>2, <2>2, MayAdd, SMTT(20)
  <2> QED BY <2>1, <2>2, Zenon
<1>3. Sockets'
  BY <1>0, <1>1, <1>2, SMTT(20) DEF Sockets
<1>4. ASSUME NEW e \in End PROVE Flow(e)' /\ Given(e)'
  <2>1. ASSUME NEW mid \in 0..Count(Peer(e)), OnWay(e, mid) PROVE OnWay(e, mid)'
    <3>1. \/ wire'[e] = wire[e]
          \/ \E m \in Message : wire'[e] = Append(wire[e], m) /\ m.byte = 0
      BY Zenon
    <3>2. /\ mid \in Nat /\ mid <= Count(Peer(e)) /\ Count(Peer(e)) \in Nat
          /\ wire[e] \in Seq(Message) /\ Count(Peer(e))' = Count(Peer(e))
      BY <1>1
    <3> QED BY <2>1, <3>1, <3>2, OnTheWay, Zenon
  <2>2. Flow(e) /\ Given(e)
    BY Zenon DEF Bridge
  <2> QED BY <1>1, <2>1, <2>2, StillFlows, SMTT(20)
<1> QED BY <1>3, <1>4, Zenon

\* Messages stay right when what is sent belongs to the bridge.
LEMMA MessagesKeep ==
    ASSUME Bridge, Typed', direction' = direction, NEW x \in End,
           \A e \in End \ {x} : wire'[e] = wire[e],
           \/ wire'[x] = wire[x]
           \/ \E m \in Message :
                 /\ wire'[x] = Append(wire[x], m) /\ Plain(m)
                 /\ m.command # "ForwardActiveSlave"
                 /\ m.command = "ForwardActiveMaster" => x = Acceptor,
           pc'[Connector] = pc[Connector] \/ pc[Connector] # "idle",
           pc[Acceptor] \notin {"idle", "ask"} => pc'[Acceptor] \notin {"idle", "ask"}
    PROVE  Messages'
<1>0. PICK a, c : a = Acceptor /\ c = Connector
  BY Zenon
<1>1. /\ MessagesOf(a, c) /\ Acceptor' = a /\ Connector' = c /\ a \in End /\ c \in End /\ a # c
      /\ \A e \in End : wire[e] \in Seq(Message) /\ e \in {a, c}
  BY <1>0, TheEnds, Zenon DEF Bridge, Messages, Acceptor, Connector, Typed
<1>2. ASSUME NEW i \in DOMAIN wire'[a]
      PROVE  Plain(wire'[a][i]) /\ wire'[a][i].command # "ForwardActiveSlave"
  <2>1. CASE wire'[a] = wire[a]
    BY <1>1, <1>2, <2>1, Zenon DEF MessagesOf
  <2>2. ASSUME NEW m \in Message, wire'[a] = Append(wire[a], m), Plain(m),
               m.command # "ForwardActiveSlave"
        PROVE  Plain(wire'[a][i]) /\ wire'[a][i].command # "ForwardActiveSlave"
    <3>1. wire'[a][i] = m \/ (i \in DOMAIN wire[a] /\ wire'[a][i] = wire[a][i])
      BY <1>1, <1>2, <2>2, MayAdd
    <3> QED BY <1>1, <2>2, <3>1, Zenon DEF MessagesOf
  <2> QED BY <1>1, <2>1, <2>2, Zenon
<1>3. ASSUME NEW i \in DOMAIN wire'[c]
      PROVE  /\ Plain(wire'[c][i]) /\ wire'[c][i].command # "ForwardActiveMaster"
             /\ wire'[c][i].command = "ForwardActiveSlave" =>
                   i \in DOMAIN wire[c] /\ wire'[c][i] = wire[c][i]
  <2>1. CASE wire'[c] = wire[c]
    BY <1>1, <1>3, <2>1, Zenon DEF MessagesOf
  <2>2. ASSUME NEW m \in Message, wire'[c] = Append(wire[c], m), Plain(m),
               m.command \notin {"ForwardActiveSlave", "ForwardActiveMaster"}
        PROVE  /\ Plain(wire'[c][i]) /\ wire'[c][i].command # "ForwardActiveMaster"
               /\ wire'[c][i].command = "ForwardActiveSlave" =>
                     i \in DOMAIN wire[c] /\ wire'[c][i] = wire[c][i]
    <3>1. wire'[c][i] = m \/ (i \in DOMAIN wire[c] /\ wire'[c][i] = wire[c][i])
      BY <1>1, <1>3, <2>2, MayAdd
    <3> QED BY <1>1, <2>2, <3>1, Zenon DEF MessagesOf
  <2> QED BY <1>0, <1>1, <2>1, <2>2, Zenon
<1>4. Has(wire'[c], "ForwardActiveSlave") => pc'[c] = "idle" /\ pc'[a] \notin {"idle", "ask"}
  BY <1>0, <1>1, <1>3, Zenon DEF MessagesOf, Has
<1>5. MessagesOf(a, c)'
  BY <1>1, <1>2, <1>3, <1>4, SMTT(20) DEF MessagesOf
<1> QED BY <1>1, <1>5, Zenon DEF Messages

\* The activation stays first in a step that does not touch hdcd's queue and
\* sends no byte before it.
LEMMA FirstKeeps ==
    ASSUME Bridge, Typed', direction' = direction, queue'["D"] = queue["D"],
           pc'["D"] \in {"ask", "wait"} => pc["D"] \in {"ask", "wait"},
           Linked("D")' => Linked("D"), alive' => alive,
           \/ wire'["D"] = wire["D"]
           \/ \E m \in Message : /\ wire'["D"] = Append(wire["D"], m)
                                 /\ m.byte = 0 \/ (alive /\ reader["H"] # "off")
           \/ ~alive' /\ \E k \in 0..Len(wire["D"]) : wire'["D"] = SubSeq(wire["D"], 1, k),
           direction = "rport" /\ alive' /\ reader'["H"] # "off" =>
              reader["H"] # "off" \/ Has(wire'["D"], "ForwardActiveMaster")
    PROVE  ActivatedFirst'
<1> SUFFICES ASSUME direction = "rport", pc'["D"] \in {"ask", "wait"}, queue["D"] = <<>>,
                    Linked("D")'
             PROVE  /\ Announced(wire'["D"])
                    /\ alive' /\ reader'["H"] # "off" => Has(wire'["D"], "ForwardActiveMaster")
  BY Zenon DEF ActivatedFirst, Bridge
<1>1. /\ Announced(wire["D"]) /\ wire["D"] \in Seq(Message)
      /\ alive /\ reader["H"] # "off" => Has(wire["D"], "ForwardActiveMaster")
  BY Zenon DEF Bridge, ActivatedFirst, Typed, End
<1>2. CASE wire'["D"] = wire["D"]
  BY <1>1, <1>2, Zenon
<1>3. ASSUME NEW m \in Message, wire'["D"] = Append(wire["D"], m),
             m.byte = 0 \/ (alive /\ reader["H"] # "off")
      PROVE  /\ Announced(wire'["D"])
             /\ alive' /\ reader'["H"] # "off" => Has(wire'["D"], "ForwardActiveMaster")
  <2>1. /\ Len(wire["D"]) \in Nat /\ DOMAIN wire["D"] = 1..Len(wire["D"])
        /\ DOMAIN wire'["D"] = 1..(Len(wire["D"]) + 1)
        /\ \A i \in DOMAIN wire["D"] : wire'["D"][i] = wire["D"][i]
        /\ wire'["D"][Len(wire["D"]) + 1] = m
    BY <1>1, <1>3, MessageSeqs
  <2>2. Has(wire["D"], "ForwardActiveMaster") => Has(wire'["D"], "ForwardActiveMaster")
    BY <2>1 DEF Has
  <2>3. Announced(wire'["D"])
    BY <1>1, <1>3, <2>1 DEF Announced, Has
  <2> QED BY <1>1, <2>2, <2>3, Zenon
<1>4. ASSUME ~alive', NEW k \in 0..Len(wire["D"]), wire'["D"] = SubSeq(wire["D"], 1, k)
      PROVE  Announced(wire'["D"])
  <2>1. /\ Len(wire["D"]) \in Nat /\ DOMAIN wire["D"] = 1..Len(wire["D"])
        /\ DOMAIN wire'["D"] = 1..k
        /\ \A i \in 1..k : i \in DOMAIN wire["D"] /\ wire'["D"][i] = wire["D"][i]
    BY <1>1, <1>4, MessageSeqs
  <2> QED BY <1>1, <2>1, SMTT(20) DEF Announced
<1> QED BY <1>2, <1>3, <1>4, Zenon

-----------------------------------------------------------------------------
(* Steps of the setup, and those that move no byte.                        *)

\* The two ends by the part they play.
LEMMA Parts ==
    ASSUME Bridge, NEW a, NEW c, a = Acceptor, c = Connector
    PROVE  /\ a \in End /\ c \in End /\ a # c /\ Peer(a) = c /\ Peer(c) = a
           /\ \A e \in End : e \in {a, c}
           /\ pc \in [End -> Accepts \cup Connects] /\ PhasesOf(a, c) /\ MessagesOf(a, c)
           /\ ~HdcdSlave(a)
           /\ direction' = direction =>
                 /\ Acceptor' = a /\ Connector' = c
                 /\ \A e \in End : HdcdSlave(e)' <=> HdcdSlave(e)
                 /\ pc' \in [End -> Accepts \cup Connects] /\ PhasesOf(a, c)' => Phases'
<1>1. /\ a \in End /\ c \in End /\ a # c /\ Peer(a) = c /\ Peer(c) = a
      /\ (\A e \in End : e \in {a, c}) /\ ~HdcdSlave(a)
  BY TheEnds, Zenon DEF Bridge
<1>2. pc \in [End -> Accepts \cup Connects] /\ PhasesOf(a, c) /\ MessagesOf(a, c)
  BY Zenon DEF Bridge, Phases, Messages
<1>3. direction' = direction =>
         Acceptor' = a /\ Connector' = c /\ \A e \in End : HdcdSlave(e)' <=> HdcdSlave(e)
  BY Zenon DEF Acceptor, Connector, HdcdSlave
<1> QED BY <1>1, <1>2, <1>3, Zenon DEF Phases

\* What is sent goes to the peer.
LEMMA Sent ==
    ASSUME Typed, NEW e \in End, NEW m \in Message, Send(e, m) \/ SendOrNot(e,
       m) \/ wire' = wire
    PROVE  /\ \A x \in End \ {Peer(e)} : wire'[x] = wire[x]
           /\ \/ wire'[Peer(e)] = wire[Peer(e)]
              \/ alive /\ wire'[Peer(e)] = Append(wire[Peer(e)], m)
           /\ \A x \in End : m.command # "ForwardActiveMaster" /\
                 Has(wire'[x], "ForwardActiveMaster") => Has(wire[x], "ForwardActiveMaster")
<1>1. Peer(e) \in End /\ wire \in [End -> Seq(Message)]
  BY TheEnds, Zenon DEF Typed
<1>2. /\ \A x \in End \ {Peer(e)} : wire'[x] = wire[x]
      /\ \/ wire'[Peer(e)] = wire[Peer(e)]
         \/ alive /\ wire'[Peer(e)] = Append(wire[Peer(e)], m)
  BY <1>1, Zenon DEF SendOrNot, Send, SendFails
<1>3. ASSUME NEW x \in End, m.command # "ForwardActiveMaster",
             Has(wire'[x], "ForwardActiveMaster")
      PROVE  Has(wire[x], "ForwardActiveMaster")
  <2>1. PICK i \in DOMAIN wire'[x] : wire'[x][i].command = "ForwardActiveMaster"
    BY <1>3, Zenon DEF Has
  <2>2. i \in DOMAIN wire[x] /\ wire'[x][i] = wire[x][i]
    <3>1. CASE wire'[x] = wire[x]
      BY <2>1, <3>1, Zenon
    <3>2. CASE wire'[x] = Append(wire[x], m)
      BY <1>1, <1>3, <2>1, <3>2, MayAdd
    <3> QED BY <1>2, <3>1, <3>2, Zenon
  <2> QED BY <2>1, <2>2, Zenon DEF Has
<1> QED BY <1>2, <1>3, Zenon

\* A step that leaves both setups where they are.
LEMMA PhasesSame ==
    ASSUME Bridge, Typed', UNCHANGED <<direction, pc>>,
           \A e \in End :
              /\ Has(wire'[e], "ForwardActiveMaster") => Has(wire[e], "ForwardActiveMaster")
              /\ sender'[e] => sender[e]
              /\ app[e] = "none" => app'[e] = "none"
              /\ reader'[e] = reader[e] \/ (reader[e] = "run" /\ reader'[e] = "done")
              /\ writer[e] = "off" => writer'[e] = "off" /\ got'[e] = got[e]
              /\ queue[e] = <<>> /\ ~sender[e] => queue'[e] = <<>>
              /\ \A i \in DOMAIN queue'[e] : queue'[e][i] = Activation =>
                    \/ \E j \in DOMAIN queue[e] : queue[e][j] = Activation
                    \/ Has(wire[e], "ForwardActiveMaster")
    PROVE  Phases'
<1>0. PICK a, c : a = Acceptor /\ c = Connector
  BY Zenon
<1>1. /\ a \in End /\ c \in End /\ PhasesOf(a, c) /\ (HdcdSlave(c)' <=> HdcdSlave(c))
      /\ PhasesOf(a, c)' => Phases'
  BY <1>0, Parts, Zenon
<1>2. Unanswered(a) => Unanswered(a)'
  BY <1>1, Zenon DEF Unanswered
<1>3. (Off(a) => Off(a)') /\ (Off(c) => Off(c)')
  BY <1>1, Zenon DEF Off
<1>4. PhasesOf(a, c)'
  BY <1>1, <1>2, <1>3, Zenon DEF PhasesOf
<1> QED BY <1>1, <1>4, Zenon

\* The tasks that end, an application that closes, and the end of the rule.
LEMMA EndsKeep ==
    ASSUME Bridge, Typed',
           \/ \E e \in End : AppCloses(e) \/ WriterEnds(e)
           \/ RemoveRule \/ UNCHANGED vars
    PROVE  Bridge'
<1>0. /\ Typed /\ UNCHANGED <<direction, alive, written, sock, got, pc, reader, sender, queue>>
      /\ \A e \in End : app[e] = "none" => app'[e] = "none"
      /\ \A e \in End : app'[e] # "closed" => app[e] # "closed"
      /\ \A e \in End : writer[e] = "off" => writer'[e] = "off"
      /\ rule = "closed" => rule' = "closed"
  BY Zenon DEF AppCloses, WriterEnds, RemoveRule, vars, Bridge, Typed
<1>1. PICK m \in Message : m = Msg("KernelChannelClose", 0)
  BY Kinds, Zenon
<1>2. m.byte = 0 /\ m.command = "KernelChannelClose" /\ Plain(m)
  BY <1>1, Kinds DEF Plain
<1>3. SendOrNot("H", m) \/ wire' = wire
  BY <1>1, Zenon DEF AppCloses, WriterEnds, RemoveRule, vars
<1>4. /\ Peer("H") = "D" /\ "D" \in End /\ "H" \in End
      /\ \A e \in End \ {"D"} : wire'[e] = wire[e]
      /\ wire'["D"] = wire["D"] \/ (alive /\ wire'["D"] = Append(wire["D"], m))
      /\ \A e \in End : Has(wire'[e], "ForwardActiveMaster") => Has(wire[e],
         "ForwardActiveMaster")
  <2>1. Peer("H") = "D" /\ "D" \in End /\ "H" \in End
    BY Zenon DEF Peer, End
  <2> QED BY <1>0, <1>2, <1>3, <2>1, Sent
<1>5. \A e \in End : Linked(e)' => Linked(e)
  BY <1>0, Zenon DEF Linked
<1>6. Sockets' /\ \A e \in End : Flow(e)' /\ Given(e)'
  BY <1>0, <1>2, <1>4, <1>5, Quiet, Zenon
<1>7. Messages'
  BY <1>0, <1>2, <1>4, MessagesKeep, Zenon
<1>8. Phases'
  BY <1>0, <1>4, PhasesSame, Zenon
<1>9. ActivatedFirst'
  BY <1>0, <1>2, <1>4, <1>5, FirstKeeps, Zenon
<1> QED BY <1>6, <1>7, <1>8, <1>9, Zenon DEF Bridge

\* The acceptor asks for the other end, or cannot.
LEMMA AskKeeps ==
    ASSUME Bridge, Typed', SendActiveSlave
    PROVE  Bridge'
<1>0. PICK a, c, m : a = Acceptor /\ c = Connector /\ m = Msg("ForwardActiveSlave", 0)
  BY Zenon
<1>1. /\ a \in End /\ c \in End /\ a # c /\ Peer(a) = c /\ (\A e \in End : e \in {a, c})
      /\ pc \in [End -> Accepts \cup Connects] /\ PhasesOf(a, c) /\ MessagesOf(a, c) /\ Typed
  BY <1>0, Parts, Zenon DEF Bridge
<1>2. /\ m \in Message /\ m.byte = 0 /\ m.command = "ForwardActiveSlave" /\ Plain(m)
  BY <1>0, Kinds DEF Plain
<1>3. /\ pc[a] = "ask" /\ UNCHANGED <<direction, alive, app, written, sock, got, reader, writer,
                                      queue, rule>>
      /\ \E l \in {"wait", "ended"} : pc' = [pc EXCEPT ![a] = l]
      /\ \A e \in End : sender'[e] => sender[e]
      /\ SendOrNot(a, m)
      /\ pc'[a] = "wait" \/ wire' = wire
  BY <1>0, <1>1, ZenonT(30) DEF SendActiveSlave, Goto, SetSender, SendOrNot, SendFails, Typed
<1>4. /\ wire'[a] = wire[a]
      /\ wire'[c] = wire[c] \/ (alive /\ wire'[c] = Append(wire[c], m))
      /\ \A e \in End : Has(wire'[e], "ForwardActiveMaster") => Has(wire[e],
         "ForwardActiveMaster")
  BY <1>1, <1>2, <1>3, Sent, Zenon
<1>5. /\ pc[c] = "idle" /\ pc'[c] = "idle" /\ pc'[a] \in {"wait", "ended"}
      /\ pc' \in [End -> Accepts \cup Connects]
  BY <1>1, <1>3, Zenon DEF PhasesOf, Accepts, Connects
<1>6. \A e \in End : Linked(e)' => Linked(e)
  BY <1>3, Zenon DEF Linked
<1>7. Sockets' /\ \A e \in End : Flow(e)' /\ Given(e)'
  BY <1>1, <1>2, <1>3, <1>4, <1>6, Quiet, Zenon
<1>8. Messages'
  <2>1. ~Has(wire[c], "ForwardActiveSlave") /\ wire[c] \in Seq(Message)
    BY <1>1, <1>3, Zenon DEF MessagesOf, Typed
  <2>2. MessagesOf(a, c)'
    <3>1. CASE wire'[c] = wire[c]
      BY <1>1, <1>4, <1>5, <2>1, <3>1 DEF MessagesOf, Has
    <3>2. CASE wire'[c] = Append(wire[c], m)
      <4>1. /\ Len(wire[c]) \in Nat /\ DOMAIN wire[c] = 1..Len(wire[c])
            /\ DOMAIN wire'[c] = 1..(Len(wire[c]) + 1)
            /\ \A i \in DOMAIN wire[c] : wire'[c][i] = wire[c][i]
            /\ wire'[c][Len(wire[c]) + 1] = m
        BY <1>2, <2>1, <3>2, MessageSeqs, SMTT(20)
      <4>2. \A i \in DOMAIN wire'[c] :
               /\ Plain(wire'[c][i]) /\ wire'[c][i].command # "ForwardActiveMaster"
               /\ wire'[c][i].command = "ForwardActiveSlave" => i = Len(wire[c]) + 1
        <5>1. \A i \in DOMAIN wire[c] :
                 /\ Plain(wire[c][i]) /\ wire[c][i].command # "ForwardActiveMaster"
                 /\ wire[c][i].command # "ForwardActiveSlave"
          BY <1>1, <2>1, Zenon DEF MessagesOf, Has
        <5>2. \A i \in DOMAIN wire'[c] : i \in DOMAIN wire[c] \/ i = Len(wire[c]) + 1
          BY <4>1
        <5> QED BY <1>2, <4>1, <5>1, <5>2, Zenon
      <4> QED BY <1>1, <1>4, <1>5, <4>2, Zenon DEF MessagesOf
    <3> QED BY <1>4, <3>1, <3>2, Zenon
  <2> QED BY <1>0, <1>3, <2>2, Parts, ZenonT(30) DEF Messages
<1>9. Phases'
  <2>1. Unanswered(a)' /\ Off(a)' /\ Off(c)'
    BY <1>1, <1>3, <1>4, <1>5, Zenon DEF PhasesOf, Unanswered, Off
  <2>2. PhasesOf(a, c)'
    BY <1>1, <1>3, <1>5, <2>1, Zenon DEF PhasesOf, Accepts, Connects, Off
  <2> QED BY <1>0, <1>3, <1>5, <2>2, Parts, ZenonT(30)
<1>10. ActivatedFirst'
  <2>1. /\ "D" \in End /\ (pc'["D"] \in {"ask", "wait"} => pc["D"] \in {"ask", "wait"})
        /\ reader'["H"] = reader["H"]
        /\ wire'["D"] = wire["D"] \/ wire'["D"] = Append(wire["D"], m)
    <3>1. "D" \in End
      BY Zenon DEF End
    <3> QED BY <1>1, <1>3, <1>4, <1>5, <3>1, Zenon
  <2> QED BY <1>2, <1>3, <1>6, <2>1, FirstKeeps, Zenon
<1> QED BY <1>7, <1>8, <1>9, <1>10, Zenon DEF Bridge

\* The acceptor gives up, the connector connects to its target or cannot, and
\* an end whose tasks have ended leaves.
LEMMA MovesKeep ==
    ASSUME Bridge, Typed', ActivationFails \/ ConnectTarget \/ \E e \in End : JoinBridge(e)
    PROVE  Bridge'
<1>0. PICK a, c, m : a = Acceptor /\ c = Connector /\ m = Msg("ForwardFreeContext", 0)
  BY Zenon
<1>1. /\ a \in End /\ c \in End /\ a # c /\ Peer(a) = c /\ (\A e \in End : e \in {a, c})
      /\ pc \in [End -> Accepts \cup Connects] /\ PhasesOf(a, c) /\ Typed
  BY <1>0, Parts, Zenon DEF Bridge
<1>2. /\ m \in Message /\ m.byte = 0 /\ m.command = "ForwardFreeContext" /\ Plain(m)
  BY <1>0, Kinds, SMTT(20) DEF Plain
<1>3. /\ UNCHANGED <<direction, alive, written, sock, got, reader, writer, queue, rule>>
      /\ \A e \in End : sender'[e] => sender[e]
      /\ \A e \in End : (app'[e] # "closed" => app[e] # "closed") \/ pc[e] = "connect"
      /\ \E e \in End : SendOrNot(e, m) \/ wire' = wire
  <2>1. CASE ActivationFails
    BY <1>0, <1>1, <2>1, Zenon DEF ActivationFails, SetSender, Typed, End
  <2>2. CASE ConnectTarget
    BY <1>0, <1>1, <2>2, Zenon DEF ConnectTarget, Typed
  <2>3. CASE \E e \in End : JoinBridge(e)
    BY <1>0, <1>1, <2>3, Zenon DEF JoinBridge, SetSender, Typed
  <2> QED BY <2>1, <2>2, <2>3, Zenon
<1>4. \/ pc[a] = "wait" /\ (\E l \in {"ended", "gave_up"} : pc' = [pc EXCEPT ![a] = l])
         /\ app' = app
      \/ pc[c] = "connect" /\ pc' = [pc EXCEPT ![c] = "insert"]
         /\ app' = [app EXCEPT ![c] = "open"]
      \/ pc[c] = "connect" /\ pc' = [pc EXCEPT ![c] = "ended"] /\ app' = app
      \/ \E e \in End : /\ pc[e] = "bridge" /\ pc' = [pc EXCEPT ![e] = "ended"] /\ app' = app
                        /\ reader[e] = "done"
  BY <1>0, Zenon DEF ActivationFails, ConnectTarget, JoinBridge, Goto
<1>5. PICK x \in End :
         /\ \A e \in End \ {x} : wire'[e] = wire[e]
         /\ wire'[x] = wire[x] \/ (alive /\ wire'[x] = Append(wire[x], m))
         /\ \A e \in End : Has(wire'[e], "ForwardActiveMaster") => Has(wire[e],
            "ForwardActiveMaster")
  <2>1. PICK y \in End : SendOrNot(y, m) \/ wire' = wire
    BY <1>3, Zenon
  <2>2. Peer(y) \in End
    BY <1>1, TheEnds, Zenon
  <2> QED BY <1>1, <1>2, <2>1, <2>2, Sent, Zenon
<1>6. /\ \A e \in End : Linked(e)' => Linked(e)
      /\ \A e \in End : app'[e] # "closed" => app[e] # "closed"
  BY <1>1, <1>3, <1>4, Zenon DEF Linked, PhasesOf, Accepts, Typed
<1>7. Sockets' /\ \A e \in End : Flow(e)' /\ Given(e)'
  BY <1>1, <1>2, <1>3, <1>5, <1>6, Quiet, Zenon
<1>8. /\ pc' \in [End -> Accepts \cup Connects]
      /\ \A e \in End : pc'[e] \in {"idle", "ask", "wait"} => pc'[e] = pc[e]
      /\ \A e \in End : pc[e] \in {"idle", "ask"} => pc'[e] = pc[e]
  BY <1>1, <1>4, Zenon DEF Accepts, Connects
<1>9. Messages'
  BY <1>0, <1>1, <1>2, <1>3, <1>5, <1>8, MessagesKeep, Zenon
<1>10. Phases'
  <2>1. Unanswered(a) => Unanswered(a)'
    BY <1>1, <1>3, <1>4, <1>5, ZenonT(30) DEF Unanswered, PhasesOf, Accepts
  <2>2. (Off(a)' <=> Off(a)) /\ (Off(c)' <=> Off(c)) /\ (HdcdSlave(c)' <=> HdcdSlave(c))
    BY <1>3, Zenon DEF Off, HdcdSlave
  <2>3. ASSUME pc[a] = "wait", NEW l \in {"ended", "gave_up"}, pc' = [pc EXCEPT ![a] = l],
               app' = app
        PROVE  PhasesOf(a, c)'
    BY <1>1, <1>3, <2>1, <2>2, <2>3, Zenon DEF PhasesOf, Accepts, Connects
  <2>4. ASSUME pc[c] = "connect", pc' = [pc EXCEPT ![c] = "insert"],
               app' = [app EXCEPT ![c] = "open"]
        PROVE  PhasesOf(a, c)'
    <3>1. pc'[c] = "insert" /\ pc'[a] = pc[a] /\ app'[a] = app[a]
      BY <1>1, <2>4, Zenon DEF Typed
    <3>2. /\ pc[a] \in Accepts /\ pc[a] \notin {"idle", "ask"} /\ Unanswered(a) /\ Off(c)
          /\ ~sender[c] /\ queue[c] = <<>> /\ (pc[a] = "wait" => Off(a))
          /\ (reader[a] = "run" => pc[a] = "bridge")
      BY <1>1, <2>4, ZenonT(30) DEF PhasesOf
    <3>3. /\ ~sender'[c] /\ queue' = queue /\ reader' = reader /\ Unanswered(a)' /\ Off(c)'
          /\ (pc[a] = "wait" => Off(a)') /\ reader[c] = "off"
      BY <1>1, <1>3, <2>1, <2>2, <3>2, ZenonT(30) DEF Off
    <3> QED BY <3>1, <3>2, <3>3, Zenon DEF PhasesOf, Connects
  <2>5. ASSUME pc[c] = "connect", pc' = [pc EXCEPT ![c] = "ended"], app' = app
        PROVE  PhasesOf(a, c)'
    <3>1. pc'[c] = "ended" /\ pc'[a] = pc[a]
      BY <1>1, <2>5, Zenon
    <3>2. /\ pc[a] \in Accepts /\ pc[a] \notin {"idle", "ask"} /\ Off(c)
          /\ (pc[a] = "wait" => Off(a)) /\ (reader[a] = "run" => pc[a] = "bridge")
      BY <1>1, <2>5, Zenon DEF PhasesOf
    <3>3. /\ reader' = reader /\ (pc[a] = "wait" => Off(a)') /\ reader[c] = "off"
      BY <1>3, <2>2, <3>2, Zenon DEF Off
    <3> QED BY <3>1, <3>2, <3>3, Zenon DEF PhasesOf, Connects
  <2>6. ASSUME NEW e \in End, pc[e] = "bridge", pc' = [pc EXCEPT ![e] = "ended"], app' = app,
               reader[e] = "done"
        PROVE  PhasesOf(a, c)'
    <3>1. pc'[e] = "ended" /\ \A y \in End \ {e} : pc'[y] = pc[y]
      BY <1>1, <2>6, Zenon
    <3>2. CASE e = a
      BY <1>1, <1>3, <2>1, <2>2, <2>6, <3>1, <3>2, Zenon DEF PhasesOf, Accepts, Connects
    <3>3. CASE e = c
      BY <1>1, <1>3, <2>1, <2>2, <2>6, <3>1, <3>3, Zenon DEF PhasesOf, Accepts, Connects
    <3> QED BY <1>1, <3>2, <3>3, Zenon
  <2>7. PhasesOf(a, c)'
    <3>1. CASE pc[a] = "wait" /\ (\E l \in {"ended", "gave_up"} : pc' = [pc EXCEPT ![a] = l])
               /\ app' = app
      BY <2>3, <3>1, Zenon
    <3>2. CASE \E e \in End : /\ pc[e] = "bridge" /\ pc' = [pc EXCEPT ![e] = "ended"]
                             /\ app' = app /\ reader[e] = "done"
      BY <2>6, <3>2, Zenon
    <3> QED BY <1>4, <2>4, <2>5, <3>1, <3>2, Zenon
  <2> QED BY <1>0, <1>3, <1>8, <2>7, Parts, ZenonT(30)
<1>11. ActivatedFirst'
  <2>1. "D" \in End
    BY Zenon DEF End
  <2>2. wire'["D"] = wire["D"] \/ wire'["D"] = Append(wire["D"], m)
    BY <1>5, <2>1, Zenon
  <2> QED BY <1>2, <1>3, <1>6, <1>8, <2>1, <2>2, FirstKeeps, Zenon
<1> QED BY <1>7, <1>9, <1>10, <1>11, Zenon DEF Bridge

\* The connector answers, and starts its tasks unless hdcd's have been started.
LEMMA AnswerKeeps ==
    ASSUME Bridge, Typed', SendActiveMaster
    PROVE  Bridge'
<1>0. PICK a, c, m : a = Acceptor /\ c = Connector /\ m = Msg("ForwardActiveMaster", 0)
  BY Zenon
<1>1. /\ a \in End /\ c \in End /\ a # c /\ Peer(c) = a /\ (\A e \in End : e \in {a, c})
      /\ pc \in [End -> Accepts \cup Connects] /\ PhasesOf(a, c) /\ Typed
  BY <1>0, Parts, Zenon DEF Bridge
<1>2. /\ m \in Message /\ m.byte = 0 /\ m.command = "ForwardActiveMaster" /\ Plain(m)
  BY <1>0, Kinds DEF Plain
<1>3. /\ UNCHANGED <<direction, alive, app, written, sock, got, queue, rule>>
      /\ pc[c] = "master" /\ (\E l \in {"bridge", "ended"} : pc' = [pc EXCEPT ![c] = l])
      /\ \A e \in End : sender'[e] => sender[e]
      /\ SendOrNot(c, m)
      /\ \/ reader' = reader /\ writer' = writer /\ (pc'[c] = "bridge" => HdcdSlave(c))
         \/ /\ reader' = [reader EXCEPT ![c] = "run"] /\ writer' = [writer EXCEPT ![c] = "run"]
            /\ pc'[c] = "bridge" /\ Send(c, m)
      /\ pc'[c] = "ended" => ~HdcdSlave(c)
  BY <1>0, <1>1, SMTT(20) DEF SendActiveMaster, Goto, SetSender, SendOrNot, StartTasks, Typed
<1>4. /\ wire'[c] = wire[c]
      /\ wire'[a] = wire[a] \/ (alive /\ wire'[a] = Append(wire[a], m))
  BY <1>1, <1>2, <1>3, Sent, Zenon
<1>5. /\ \A e \in End : Linked(e)' => Linked(e)
      /\ \A e \in End : reader'[e] = "off" => reader[e] = "off"
      /\ pc' \in [End -> Accepts \cup Connects] /\ pc'[c] \in {"bridge", "ended"}
      /\ pc'[a] = pc[a] /\ reader'[a] = reader[a] /\ writer'[a] = writer[a]
  <2>1. \A e \in End : Linked(e)' => Linked(e)
    BY <1>3, Zenon DEF Linked
  <2>2. /\ \A e \in End : reader'[e] = "off" => reader[e] = "off"
        /\ reader'[a] = reader[a] /\ writer'[a] = writer[a]
    BY <1>1, <1>3, SMTT(20) DEF Typed
  <2>3. /\ pc' \in [End -> Accepts \cup Connects] /\ pc'[c] \in {"bridge", "ended"}
        /\ pc'[a] = pc[a]
    <3>1. PICK l \in {"bridge", "ended"} : pc' = [pc EXCEPT ![c] = l]
      BY <1>3, Zenon
    <3> QED BY <1>1, <3>1, Zenon DEF Connects
  <2> QED BY <2>1, <2>2, <2>3, Zenon
<1>6. Sockets' /\ \A e \in End : Flow(e)' /\ Given(e)'
  BY <1>1, <1>2, <1>3, <1>4, <1>5, Quiet, ZenonT(30)
<1>7. Messages'
  <2>1. /\ direction' = direction /\ (\A e \in End \ {a} : wire'[e] = wire[e])
        /\ pc[Connector] # "idle" /\ pc'[Acceptor] = pc[Acceptor]
    BY <1>0, <1>1, <1>3, <1>4, <1>5, Zenon
  <2>2. \/ wire'[a] = wire[a]
        \/ \E n \in Message :
              /\ wire'[a] = Append(wire[a], n) /\ Plain(n) /\ n.command # "ForwardActiveSlave"
              /\ n.command = "ForwardActiveMaster" => a = Acceptor
    <3>1. m.command # "ForwardActiveSlave"
      BY <1>2, Zenon
    <3> QED BY <1>0, <1>2, <1>4, <3>1, Zenon
  <2> QED BY <1>1, <2>1, <2>2, MessagesKeep, Zenon
<1>8. Phases'
  <2>1. (Off(a)' <=> Off(a)) /\ (HdcdSlave(c)' <=> HdcdSlave(c))
    BY <1>3, <1>5, Zenon DEF Off, HdcdSlave
  <2>2. reader'[c] = "run" => pc'[c] = "bridge" \/ HdcdSlave(c)
    BY <1>1, <1>3, <1>5, Zenon DEF PhasesOf, Off
  <2>3. PhasesOf(a, c)'
    BY <1>1, <1>3, <1>5, <2>1, <2>2, Zenon DEF PhasesOf, Accepts, Connects
  <2> QED BY <1>0, <1>3, <1>5, <2>3, Parts, ZenonT(30)
<1>9. ActivatedFirst'
  <2>1. "D" \in End /\ "H" \in End
    BY Zenon DEF End
  <2>2. direction = "rport" => a = "D" /\ c = "H" /\ ~HdcdSlave(c)
    BY <1>0, Zenon DEF Acceptor, Connector, Peer, HdcdSlave
  <2>3. direction = "rport" /\ reader'["H"] # "off" /\ reader["H"] = "off" =>
           Has(wire'["D"], "ForwardActiveMaster")
    <3> SUFFICES ASSUME direction = "rport", reader'["H"] # "off", reader["H"] = "off"
                 PROVE  Has(wire'["D"], "ForwardActiveMaster")
      BY Zenon
    <3>1. Send(c, m)
      BY <1>1, <1>3, <2>2, Zenon
    <3>2. wire["D"] \in Seq(Message) /\ wire'["D"] = Append(wire["D"], m)
      BY <1>1, <2>1, <2>2, <3>1, Zenon DEF Send, Typed
    <3>3. PICK w : w = wire["D"]
      BY Zenon
    <3>4. Len(w) \in Nat /\ DOMAIN Append(w, m) = 1..(Len(w) + 1) /\ Append(w, m)[Len(w) + 1] = m
      BY <1>2, <3>2, <3>3, MessageSeqs, ZenonT(30)
    <3>5. Len(w) + 1 \in DOMAIN Append(w, m)
      BY <3>4, SMTT(20)
    <3> QED BY <1>2, <3>2, <3>3, <3>4, <3>5, Zenon DEF Has
  <2>4. /\ wire'["D"] = wire["D"] \/ wire'["D"] = Append(wire["D"], m)
        /\ pc'["D"] \in {"ask", "wait"} => pc["D"] \in {"ask", "wait"}
    BY <1>1, <1>4, <1>5, <2>1, Zenon
  <2> QED BY <1>2, <1>3, <1>5, <2>1, <2>3, <2>4, FirstKeeps, Zenon
<1> QED BY <1>6, <1>7, <1>8, <1>9, Zenon DEF Bridge

\* The listener accepts, and the connector puts its sender in the map: nothing
\* is on the way to them.
LEMMA SendersKeep ==
    ASSUME Bridge, Typed', Accept \/ InsertSender
    PROVE  Bridge'
<1>0. PICK a, c : a = Acceptor /\ c = Connector
  BY Zenon
<1>1. /\ a \in End /\ c \in End /\ a # c /\ Peer(a) = c /\ Peer(c) = a
      /\ (\A e \in End : e \in {a, c})
      /\ pc \in [End -> Accepts \cup Connects] /\ PhasesOf(a, c) /\ Typed /\ Sockets
  BY <1>0, Parts, Zenon DEF Bridge
<1>2. PICK x \in End :
         /\ UNCHANGED <<direction, alive, written, sock, got, queue, wire, rule, eof>>
         /\ sender' = [sender EXCEPT ![x] = TRUE]
         /\ \/ /\ x = a /\ pc[a] = "idle" /\ pc' = [pc EXCEPT ![a] = "ask"]
               /\ app' = [app EXCEPT ![a] = "open"] /\ UNCHANGED <<reader, writer>>
            \/ /\ x = c /\ pc[c] = "insert" /\ pc' = [pc EXCEPT ![c] = "master"] /\ app' = app
               /\ \/ UNCHANGED <<reader, writer>>
                  \/ /\ reader' = [reader EXCEPT ![c] = "run"]
                     /\ writer' = [writer EXCEPT ![c] = "run"] /\ HdcdSlave(c)
  BY <1>0, <1>1, Zenon DEF Accept, InsertSender, Goto, SetSender, StartTasks
<1>3. /\ queue[x] = <<>> /\ got[x] = <<>> /\ reader[Peer(x)] = "off" /\ ~sender[x]
  BY <1>1, <1>2, ZenonT(30) DEF PhasesOf, Off, Unanswered
<1>4. /\ \A e \in End : Count(e)' = Count(e)
      /\ \A e \in End : reader'[e] = "off" => reader[e] = "off"
      /\ \A e \in End : app'[e] # "closed" => app[e] # "closed"
      /\ \A e \in End \ {x} : Linked(e)' => Linked(e)
  <2>1. \A e \in End : Count(e)' = Count(e)
    BY <1>2, Zenon DEF Count
  <2>2. \A e \in End : reader'[e] = "off" => reader[e] = "off"
    <3>1. reader' = reader \/ reader' = [reader EXCEPT ![c] = "run"]
      BY <1>2, Zenon
    <3> QED BY <1>1, <3>1, Zenon DEF Typed
  <2>3. \A e \in End : app'[e] # "closed" => app[e] # "closed"
    <3>1. x = a /\ pc[a] = "idle" => app[a] = "none"
      BY <1>1, <1>2, Zenon DEF PhasesOf
    <3>2. app' = app \/ (x = a /\ pc[a] = "idle" /\ app' = [app EXCEPT ![a] = "open"])
      BY <1>2, Zenon
    <3>3. CASE app' = app
      BY <3>3, Zenon
    <3>4. CASE x = a /\ pc[a] = "idle" /\ app' = [app EXCEPT ![a] = "open"]
      <4>1. app[a] # "closed" /\ \A e \in End \ {a} : app'[e] = app[e]
        BY <1>1, <3>1, <3>4, Zenon DEF Typed
      <4> QED BY <4>1, Zenon
    <3> QED BY <3>2, <3>3, <3>4, Zenon
  <2>4. \A e \in End \ {x} : sender'[e] = sender[e]
    BY <1>1, <1>2, Zenon DEF Typed
  <2>5. \A e \in End \ {x} : Linked(e)' => Linked(e)
    BY <1>2, <2>4, Zenon DEF Linked
  <2> QED BY <2>1, <2>2, <2>3, <2>5, Zenon
<1>5. Sockets'
  <2>1. written' = written /\ sock' = sock /\ wire' = wire
    BY <1>2, Zenon
  <2> QED BY <1>1, <1>4, <2>1, ZenonT(30) DEF Sockets
<1>6. ASSUME NEW e \in End, e # x PROVE Flow(e)' /\ Given(e)'
  <2>1. Flow(e) /\ Given(e) /\ Count(Peer(e)) \in Nat /\ Count(Peer(e))' = Count(Peer(e))
    BY <1>1, <1>4, <1>6, Counts, TheEnds, Zenon DEF Bridge
  <2>2. \A mid \in 0..Count(Peer(e)) : OnWay(e, mid) => OnWay(e, mid)'
    BY <1>2, <2>1, Zenon DEF OnWay
  <2>3. /\ queue'[e] = queue[e] /\ got'[e] = got[e] /\ direction' = direction
        /\ (app'[e] # "closed" => app[e] # "closed") /\ (Linked(e)' => Linked(e))
    BY <1>2, <1>4, <1>6, Zenon
  <2>4. Count(Peer(e))' \in Nat /\ Count(Peer(e))' >= Count(Peer(e))
    BY <2>1
  <2> QED BY <2>1, <2>2, <2>3, <2>4, StillFlows, Zenon
<1>7. Flow(x)' /\ Given(x)'
  <2>1. /\ Count(Peer(x))' = 0 /\ Peer(x) \in End /\ x = Peer(Peer(x))
        /\ \A i \in DOMAIN wire[x] : wire[x][i].byte = 0
        /\ wire'[x] = wire[x] /\ wire[x] \in Seq(Message) /\ queue'[x] = <<>> /\ got'[x] = <<>>
    <3>1. Peer(x) \in End /\ x = Peer(Peer(x))
      BY <1>1, TheEnds, Zenon
    <3>2. Count(Peer(x)) = 0 /\ \A i \in DOMAIN wire[x] : wire[x][i].byte = 0
      BY <1>1, <1>3, <3>1, Zenon DEF Sockets
    <3> QED BY <1>1, <1>2, <1>3, <1>4, <3>1, <3>2, Zenon DEF Typed
  <2>2. PICK b : b = BytesOf(wire[x])
    BY Zenon
  <2>3. b \in Seq(Nat) /\ b = BytesOf(wire'[x]) /\ \A i \in DOMAIN b : b[i] = 0
    <3>1. BytesOf(wire[x]) \in Seq(Nat) /\ DOMAIN BytesOf(wire[x]) = DOMAIN wire[x]
          /\ \A i \in DOMAIN wire[x] : BytesOf(wire[x])[i] = wire[x][i].byte
      BY <2>1, TheBytes, Zenon
    <3> QED BY <2>1, <2>2, <3>1, Zenon
  <2>4. Carries(b, 0) /\ AtMost(b, 0) /\ UpTo(b, 0, 0)
    BY <2>3 DEF Carries, AtMost, UpTo
  <2>5. OnWay(x, 0)'
    BY <2>1, <2>3, <2>4, Zenon DEF OnWay
  <2>6. FlowAt(x, 0, 0)'
    <3>1. Carries(<<>>, 0) /\ UpTo(<<>>, 0, 0) /\ AtMost(<<>>, 0)
      BY EmptyCarries, Zenon
    <3>2. 0 <= 0 /\ queue'[x] = <<>> /\ got'[x] = <<>>
      BY <2>1
    <3> QED BY <2>5, <3>1, <3>2, Zenon DEF FlowAt
  <2>7. 0 \in 0..Count(Peer(x))'
    BY <2>1
  <2>8. Flow(x)'
    BY <2>6, <2>7, Zenon DEF Flow
  <2>9. Given(x)'
    BY <2>1 DEF Given
  <2> QED BY <2>8, <2>9, Zenon
<1>8. /\ pc' \in [End -> Accepts \cup Connects]
      /\ pc[c] = "idle" => pc'[c] = "idle"
      /\ pc[a] \notin {"idle", "ask"} => pc'[a] \notin {"idle", "ask"}
  BY <1>1, <1>2, Zenon DEF Accepts, Connects
<1>9. Messages'
  BY <1>0, <1>1, <1>2, <1>8, MessagesKeep, Zenon
<1>10. Phases'
  <2>1. Unanswered(a) => Unanswered(a)'
    <3>1. /\ reader'[a] = reader[a] /\ wire'[a] = wire[a] /\ queue'[a] = queue[a]
          /\ (pc'[a] = pc[a] \/ pc'[a] = "ask")
      BY <1>1, <1>2, SMTT(20) DEF Typed
    <3> QED BY <3>1, Zenon DEF Unanswered
  <2>2. HdcdSlave(c)' <=> HdcdSlave(c)
    BY <1>2, Zenon DEF HdcdSlave
  <2>3. CASE x = a
    <3>1. /\ pc'[a] = "ask" /\ pc[a] = "idle" /\ pc'[c] = pc[c] /\ app'[c] = app[c]
          /\ sender'[c] = sender[c] /\ UNCHANGED <<queue, got, reader, writer>>
      BY <1>1, <1>2, <2>3, ZenonT(30) DEF Typed
    <3>2. (Off(a)' <=> Off(a)) /\ (Off(c)' <=> Off(c))
      BY <3>1, Zenon DEF Off
    <3>3. PhasesOf(a, c)'
      BY <1>1, <2>1, <2>2, <3>1, <3>2, ZenonT(30) DEF PhasesOf, Accepts, Connects
    <3> QED BY <1>0, <1>2, <1>8, <3>3, Parts, Zenon
  <2>4. CASE x = c
    <3>1. /\ pc'[c] = "master" /\ pc[c] = "insert" /\ pc'[a] = pc[a] /\ app'[a] = app[a]
          /\ sender'[a] = sender[a] /\ reader'[a] = reader[a] /\ writer'[a] = writer[a]
          /\ UNCHANGED <<queue, got>> /\ (HdcdSlave(c) \/ UNCHANGED <<reader, writer>>)
      BY <1>1, <1>2, <2>4 DEF Typed
    <3>2. (Off(a)' <=> Off(a)) /\ (~HdcdSlave(c) => (Off(c)' <=> Off(c)))
      BY <3>1, Zenon DEF Off
    <3>3. PhasesOf(a, c)'
      BY <1>1, <2>1, <2>2, <3>1, <3>2, Zenon DEF PhasesOf, Accepts, Connects, Off
    <3> QED BY <1>0, <1>2, <1>8, <3>3, Parts, Zenon
  <2> QED BY <1>1, <2>3, <2>4, Zenon
<1>11. ActivatedFirst'
  <2> SUFFICES ASSUME direction = "rport" PROVE ActivatedFirst'
    BY <1>2, Zenon DEF ActivatedFirst
  <2>1. a = "D" /\ c = "H" /\ ~HdcdSlave(c)
    BY <1>0, Zenon DEF Acceptor, Connector, Peer, HdcdSlave
  <2>2. CASE x = a
    <3>1. /\ queue'["D"] = <<>> /\ reader'["H"] = "off"
          /\ \A i \in DOMAIN wire'["D"] : wire'["D"][i].byte = 0
      <4>0. reader' = reader /\ queue' = queue /\ wire' = wire
        BY <1>1, <1>2, <2>2, Zenon
      <4>1. /\ "D" \in End /\ "H" \in End /\ Peer("H") = "D" /\ queue["D"] = <<>>
            /\ reader["H"] = "off"
        <5>1. x = "D" /\ "D" \in End /\ "H" \in End /\ Peer("D") = "H" /\ Peer("H") = "D"
          BY <1>1, <2>1, <2>2, Zenon
        <5> QED BY <1>3, <5>1, Zenon
      <4>2. \A i \in DOMAIN wire["D"] : wire["D"][i].byte = 0
        <5>1. \A i \in DOMAIN wire[Peer("H")] : wire[Peer("H")][i].byte = 0
          BY <1>1, <4>1, Zenon DEF Sockets
        <5> QED BY <4>1, <5>1, Zenon
      <4> QED BY <4>0, <4>1, <4>2, Zenon
    <3> QED BY <3>1, Zenon DEF ActivatedFirst, Announced
  <2>3. CASE x = c
    <3>1. /\ pc'["D"] = pc["D"] /\ reader' = reader /\ queue' = queue /\ wire' = wire
          /\ (Linked("D")' => Linked("D")) /\ alive' = alive
      BY <1>1, <1>2, <1>4, <2>1, <2>3, Zenon
    <3> QED BY <1>2, <3>1, FirstKeeps
  <2> QED BY <1>1, <2>2, <2>3, Zenon
<1> QED BY <1>5, <1>6, <1>7, <1>9, <1>10, <1>11, Zenon DEF Bridge

=============================================================================
