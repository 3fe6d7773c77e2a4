-------------------------- MODULE ForwardBridgeBytes --------------------------
(***************************************************************************)
(* The steps of ForwardBridge that move bytes keep the invariant of        *)
(* ForwardBridgeProofs, and what follows from it.                          *)
(***************************************************************************)
EXTENDS ForwardBridgeProofs

-----------------------------------------------------------------------------
\* An application writes.
LEMMA WritesKeep ==
    ASSUME Bridge, Typed', NEW x \in End, AppWrites(x)
    PROVE  Bridge'
<1>1. /\ Typed /\ Sockets
      /\ UNCHANGED <<direction, alive, app, got, eof, pc, reader, writer, sender, queue, wire,
         rule>>
      /\ written' = [written EXCEPT ![x] = @ + 1]
      /\ sock' = [sock EXCEPT ![x] = Append(@, written[x] + 1)]
  BY Zenon DEF AppWrites, Bridge
<1>2. ASSUME NEW e \in End
      PROVE  /\ Count(e) \in Nat /\ Count(e)' = Count(e) /\ Len(sock'[e]) <= written'[e]
             /\ \A i \in DOMAIN sock'[e] : sock'[e][i] = Count(e) + i
  <2>1. /\ Count(e) \in Nat /\ Len(sock[e]) \in Nat /\ written[e] \in Nat
        /\ Count(e) = written[e] - Len(sock[e]) /\ sock[e] \in Seq(Nat)
        /\ Len(sock[e]) <= written[e] /\ \A i \in DOMAIN sock[e] : sock[e][i] = Count(e) + i
    BY <1>1, <1>2, Counts, Zenon DEF Sockets, Typed
  <2>2. CASE e # x
    <3>1. sock'[e] = sock[e] /\ written'[e] = written[e]
      BY <1>1, <1>2, <2>2, Zenon DEF Typed
    <3> QED BY <2>1, <3>1, Zenon DEF Count
  <2>3. CASE e = x
    <3>1. sock'[e] = Append(sock[e], written[e] + 1) /\ written'[e] = written[e] + 1
      BY <1>1, <2>3, Zenon DEF Typed
    <3>2. /\ Len(sock'[e]) = Len(sock[e]) + 1 /\ DOMAIN sock[e] = 1..Len(sock[e])
          /\ DOMAIN sock'[e] = 1..(Len(sock[e]) + 1)
          /\ \A i \in DOMAIN sock[e] : sock'[e][i] = sock[e][i]
          /\ sock'[e][Len(sock[e]) + 1] = written[e] + 1
      <4>1. PICK b \in Nat : b = written[e] + 1
        BY <2>1
      <4>2. PICK t : t = Append(sock[e], b)
        BY Zenon
      <4>3. /\ Len(t) = Len(sock[e]) + 1 /\ DOMAIN sock[e] = 1..Len(sock[e])
            /\ DOMAIN t = 1..(Len(sock[e]) + 1) /\ t[Len(sock[e]) + 1] = b
            /\ \A i \in DOMAIN sock[e] : t[i] = sock[e][i]
        BY <2>1, <4>2, Behind, SMTT(20)
      <4> QED BY <3>1, <4>1, <4>2, <4>3, Zenon
    <3>3. Len(sock'[e]) = Len(sock[e]) + 1 /\ written'[e] = written[e] + 1
      BY <3>1, <3>2, Zenon
    <3>4. Count(e)' = Count(e)
      BY <2>1, <3>3, SMTT(20) DEF Count
    <3>5. sock'[e][Len(sock[e]) + 1] = Count(e) + (Len(sock[e]) + 1)
      BY <2>1, <3>2, SMTT(20)
    <3>6. \A i \in DOMAIN sock'[e] : i \in DOMAIN sock[e] \/ i = Len(sock[e]) + 1
      BY <2>1, <3>2
    <3>7. \A i \in DOMAIN sock'[e] : sock'[e][i] = Count(e) + i
      BY <2>1, <3>2, <3>5, <3>6, Zenon
    <3>8. Len(sock'[e]) <= written'[e]
      BY <2>1, <3>3
    <3> QED BY <2>1, <3>4, <3>7, <3>8, Zenon
  <2> QED BY <2>2, <2>3, Zenon
<1>3. Sockets'
  BY <1>1, <1>2 DEF Sockets
<1>4. ASSUME NEW e \in End PROVE Flow(e)' /\ Given(e)'
  <2>1. Flow(e) /\ Given(e) /\ Count(Peer(e)) \in Nat /\ Count(Peer(e))' = Count(Peer(e))
    BY <1>1, <1>2, TheEnds, Zenon DEF Bridge
  <2>2. /\ \A mid \in 0..Count(Peer(e)) : OnWay(e, mid) => OnWay(e, mid)'
        /\ Linked(e)' <=> Linked(e)
    BY <1>1, <2>1, Zenon DEF OnWay, Linked
  <2> QED BY <1>1, <1>4, <2>1, <2>2, StillFlows
<1>5. Messages' /\ Phases' /\ ActivatedFirst'
  <2>1. Messages /\ Phases /\ ActivatedFirst
    BY Zenon DEF Bridge
  <2>2. (Acceptor' = Acceptor) /\ (Connector' = Connector)
    BY <1>1, Zenon DEF Acceptor, Connector
  <2>3. Messages'
    BY <1>1, <2>1, <2>2, Zenon DEF Messages, MessagesOf
  <2>4. Phases'
    BY <1>1, <2>1, <2>2, Zenon DEF Phases, PhasesOf, Unanswered, Off, HdcdSlave
  <2>5. ActivatedFirst'
    BY <1>1, <2>1, Zenon DEF ActivatedFirst, Linked
  <2> QED BY <2>3, <2>4, <2>5, Zenon
<1> QED BY <1>3, <1>4, <1>5, Zenon DEF Bridge

\* The session ends: what is on the way may lose its end.
LEMMA LossKeeps ==
    ASSUME Bridge, Typed', SessionEnds
    PROVE  Bridge'
<1>1. /\ Typed /\ Sockets /\ alive' = FALSE
      /\ UNCHANGED <<direction, app, written, sock, got, eof, pc, reader, writer, sender,
         queue, rule>>
  BY Zenon DEF SessionEnds, Bridge
<1>2. ASSUME NEW e \in End
      PROVE  \E k \in 0..Len(wire[e]) : wire'[e] = SubSeq(wire[e], 1, k)
  <2>1. PICK n \in 0..Len(wire["H"]), d \in 0..Len(wire["D"]) :
           wire' = [H |-> SubSeq(wire["H"], 1, n), D |-> SubSeq(wire["D"], 1, d)]
    BY Zenon DEF SessionEnds
  <2>2. wire'["H"] = SubSeq(wire["H"], 1, n) /\ wire'["D"] = SubSeq(wire["D"], 1, d)
    BY <2>1, Zenon
  <2>3. e = "H" \/ e = "D"
    BY Zenon DEF End
  <2> QED BY <2>2, <2>3, Zenon
<1>3. ASSUME NEW e \in End
      PROVE  /\ wire[e] \in Seq(Message)
             /\ \A i \in DOMAIN wire'[e] : i \in DOMAIN wire[e] /\ wire'[e][i] = wire[e][i]
  <2>1. PICK k \in 0..Len(wire[e]) : wire'[e] = SubSeq(wire[e], 1, k)
    BY <1>2, <1>3, Zenon
  <2>2. wire[e] \in Seq(Message)
    BY <1>1, <1>3, Zenon DEF Typed
  <2>3. DOMAIN wire'[e] = 1..k /\ \A i \in 1..k : i \in DOMAIN wire[e] /\ wire'[e][i] = wire[e][i]
    BY <2>1, <2>2, MessageSeqs
  <2> QED BY <2>2, <2>3, Zenon
<1>4. \A e \in End : /\ Count(e)' = Count(e) /\ Count(e) \in Nat /\ Peer(e) \in End
                     /\ Linked(e)' <=> Linked(e)
  BY <1>1, Counts, Zenon DEF Count, Linked
<1>5. Sockets'
  BY <1>1, <1>3, <1>4 DEF Sockets
<1>6. ASSUME NEW e \in End PROVE Flow(e)' /\ Given(e)'
  <2>1. Flow(e) /\ Given(e) /\ Count(Peer(e)) \in Nat /\ Count(Peer(e))' = Count(Peer(e))
    BY <1>1, <1>4, Zenon DEF Bridge
  <2>2. ASSUME NEW mid \in 0..Count(Peer(e)), OnWay(e, mid) PROVE OnWay(e, mid)'
    BY <1>1, <1>2, <1>3, <2>1, <2>2, OnTheWay
  <2> QED BY <1>1, <1>4, <1>6, <2>1, <2>2, StillFlows
<1>7. \A e \in End : \A command : Has(wire'[e], command) => Has(wire[e], command)
  BY <1>3, Zenon DEF Has
<1>8. Messages'
  <2>1. PICK a, c : a = Acceptor /\ c = Connector
    BY Zenon
  <2>2. a \in End /\ c \in End /\ MessagesOf(a, c) /\ Acceptor' = a /\ Connector' = c
    BY <1>1, <2>1, Parts, Zenon
  <2>3. MessagesOf(a, c)'
    BY <1>1, <1>3, <1>7, <2>2, Zenon DEF MessagesOf
  <2> QED BY <2>2, <2>3, Zenon DEF Messages
<1>9. Phases'
  BY <1>1, <1>7, PhasesSame, Zenon
<1>10. ActivatedFirst'
  <2>1. "D" \in End
    BY Zenon DEF End
  <2> QED BY <1>1, <1>2, <1>4, <2>1, FirstKeeps, Zenon
<1> QED BY <1>5, <1>6, <1>8, <1>9, <1>10, Zenon DEF Bridge

\* A reader sends the next byte, loses it with the session, or ends.
LEMMA ReadsKeep ==
    ASSUME Bridge, Typed', NEW x \in End, ReadSocket(x)
    PROVE  Bridge'
<1>0. PICK y : y = Peer(x)
  BY Zenon
<1>1. /\ Typed /\ Sockets /\ y \in End /\ y # x /\ Peer(y) = x
      /\ reader[x] = "run" /\ Count(x) \in Nat /\ sock[x] \in Seq(Nat)
      /\ UNCHANGED <<direction, alive, app, written, got, eof, pc, writer, sender, queue, rule>>
      /\ \A e \in End : e \in {x, y}
  BY <1>0, TheEnds, Counts, Zenon DEF ReadSocket, Bridge, Typed, End
<1>2. PICK m \in Message :
         /\ m.command \in {"ForwardData", "ForwardFreeContext"} /\ Plain(m)
         /\ SendOrNot(x, m) \/ wire' = wire
         /\ \/ /\ sock[x] # <<>> /\ sock' = [sock EXCEPT ![x] = Tail(@)] /\ m.byte = Head(sock[x])
               /\ (Send(x, m) /\ reader' = reader)
                  \/ (~alive /\ wire' = wire /\ reader' = [reader EXCEPT ![x] = "done"])
            \/ sock' = sock /\ m.byte = 0 /\ reader' = [reader EXCEPT ![x] = "done"]
  <2>1. CASE sock[x] # <<>>
    <3>1. PICK d : d = Msg("ForwardData", Head(sock[x]))
      BY Zenon
    <3>2. Head(sock[x]) \in Nat /\ Head(sock[x]) # 0
      <4>1. 1 \in DOMAIN sock[x] /\ Head(sock[x]) = sock[x][1] /\ sock[x][1] = Count(x) + 1
        BY <1>1, <2>1, ByteTail DEF Sockets
      <4> QED BY <1>1, <4>1
    <3>3. d \in Message /\ d.command = "ForwardData" /\ d.byte = Head(sock[x]) /\ Plain(d)
      BY <3>1, <3>2, Kinds, Zenon DEF Plain
    <3> QED BY <2>1, <3>1, <3>3, Zenon DEF ReadSocket, SendOrNot, SendFails
  <2>2. CASE sock[x] = <<>>
    <3>1. PICK d : d = Msg("ForwardFreeContext", 0)
      BY Zenon
    <3>2. d \in Message /\ d.command = "ForwardFreeContext" /\ d.byte = 0 /\ Plain(d)
      BY <3>1, Kinds DEF Plain
    <3> QED BY <2>2, <3>1, <3>2, Zenon DEF ReadSocket
  <2> QED BY <2>1, <2>2, Zenon
<1>3. /\ wire'[x] = wire[x]
      /\ wire'[y] = wire[y] \/ (alive /\ wire'[y] = Append(wire[y], m))
      /\ \A e \in End : Has(wire'[e], "ForwardActiveMaster") => Has(wire[e],
         "ForwardActiveMaster")
      /\ wire[y] \in Seq(Message)
  BY <1>0, <1>1, <1>2, Sent, Zenon DEF Typed
<1>4. /\ \A e \in End : reader'[e] = reader[e] \/ (reader[e] = "run" /\ reader'[e] = "done")
      /\ \A e \in End : Linked(e)' <=> Linked(e)
  BY <1>1, <1>2, Zenon DEF Linked, Typed
<1>5. Messages'
  BY <1>0, <1>1, <1>2, <1>3, MessagesKeep, Zenon
<1>6. Phases'
  BY <1>1, <1>3, <1>4, PhasesSame, Zenon
<1>7. ActivatedFirst'
  <2>1. "D" \in End /\ "H" \in End /\ (y = "D" => x = "H")
    BY <1>1, Zenon DEF End
  <2>2. \/ wire'["D"] = wire["D"]
        \/ wire'["D"] = Append(wire["D"], m) /\ alive /\ reader["H"] # "off"
    BY <1>1, <1>3, <2>1, Zenon
  <2> QED BY <1>1, <1>4, <2>1, <2>2, FirstKeeps, Zenon
<1>8. Sockets' /\ \A e \in End : Flow(e)' /\ Given(e)'
  <2>1. CASE sock' = sock
    <3>1. sock' = sock /\ (m.byte = 0 \/ wire' = wire)
      <4>1. sock[x] # <<>> => Tail(sock[x]) # sock[x]
        BY <1>1, ByteTail, Zenon
      <4> QED BY <1>1, <1>2, <2>1, <4>1, Zenon DEF Typed
    <3> QED BY <1>1, <1>3, <1>4, <3>1, Quiet, Zenon
  <2>2. CASE /\ sock[x] # <<>> /\ sock' = [sock EXCEPT ![x] = Tail(@)] /\ m.byte = Head(sock[x])
             /\ (Send(x, m) /\ reader' = reader)
                \/ (~alive /\ wire' = wire /\ reader' = [reader EXCEPT ![x] = "done"])
    <3>1. /\ sock'[x] = Tail(sock[x]) /\ sock'[y] = sock[y]
      BY <1>1, <2>2, Zenon DEF Typed
    <3>2. /\ Len(sock[x]) \in Nat /\ Len(sock[x]) > 0 /\ Len(sock'[x]) = Len(sock[x]) - 1
          /\ DOMAIN sock[x] = 1..Len(sock[x]) /\ DOMAIN sock'[x] = 1..(Len(sock[x]) - 1)
          /\ m.byte = sock[x][1]
          /\ \A i \in DOMAIN sock'[x] : i + 1 \in DOMAIN sock[x] /\ sock'[x][i] = sock[x][i + 1]
      <4>1. PICK s, t : s = sock[x] /\ t = Tail(s)
        BY Zenon
      <4>2. /\ Len(s) \in Nat /\ Len(s) > 0 /\ Len(t) = Len(s) - 1 /\ Head(s) = s[1]
            /\ DOMAIN s = 1..Len(s) /\ DOMAIN t = 1..(Len(s) - 1)
            /\ \A i \in DOMAIN t : i + 1 \in DOMAIN s /\ t[i] = s[i + 1]
        BY <1>1, <2>2, <4>1, ByteTail, Zenon
      <4> QED BY <2>2, <3>1, <4>1, <4>2, Zenon
    <3>3. /\ \A i \in DOMAIN sock[x] : sock[x][i] = Count(x) + i
          /\ written[x] \in Nat /\ Len(sock[x]) <= written[x]
          /\ Count(x) = written[x] - Len(sock[x])
      BY <1>1, Counts, Zenon DEF Sockets
    <3>4. Count(x)' = Count(x) + 1 /\ Count(y)' = Count(y) /\ Count(y) \in Nat
      <4>1. \A w, l \in Nat : w - (l - 1) = w - l + 1
        OBVIOUS
      <4>2. Count(x)' = written[x] - (Len(sock[x]) - 1)
        BY <1>1, <3>2, Zenon DEF Count
      <4> QED BY <1>1, <3>1, <3>2, <3>3, <4>1, <4>2, Counts, Zenon DEF Count
    <3>5. m.byte = Count(x) + 1
      BY <3>2, <3>3
    <3>6. /\ Len(sock'[x]) <= written'[x]
          /\ \A i \in DOMAIN sock'[x] : sock'[x][i] = Count(x)' + i
      <4>1. Len(sock'[x]) <= written'[x]
        BY <1>1, <3>2, <3>3
      <4>2. ASSUME NEW i \in DOMAIN sock'[x] PROVE sock'[x][i] = Count(x)' + i
        <5>1. i \in Int /\ sock'[x][i] = Count(x) + (i + 1)
          BY <3>2, <3>3, <4>2
        <5> QED BY <1>1, <3>4, <5>1
      <4> QED BY <4>1, <4>2, Zenon
    <3>7. reader'[x] # "off" /\ reader'[y] = reader[y]
      BY <1>1, <2>2, Zenon DEF Typed
    <3>8. Sockets'
      <4>1. /\ Len(sock[y]) <= written[y] /\ (\A i \in DOMAIN sock[y] : sock[y][i] = Count(y) + i)
            /\ reader[y] = "off" =>
                  Count(y) = 0 /\ \A i \in DOMAIN wire[x] : wire[x][i].byte = 0
        BY <1>1, Zenon DEF Sockets
      <4>2. ASSUME NEW e \in End
            PROVE  /\ Len(sock'[e]) <= written'[e]
                   /\ \A i \in DOMAIN sock'[e] : sock'[e][i] = Count(e)' + i
                   /\ reader'[e] = "off" =>
                         /\ Count(e)' = 0
                         /\ \A i \in DOMAIN wire'[Peer(e)] : wire'[Peer(e)][i].byte = 0
        <5>1. CASE e = x
          BY <3>6, <3>7, <5>1, Zenon
        <5>2. CASE e = y
          BY <1>1, <1>3, <3>1, <3>4, <3>7, <4>1, <5>2, Zenon
        <5> QED BY <1>1, <4>2, <5>1, <5>2, Zenon
      <4> QED BY <4>2, Zenon DEF Sockets
    <3>9. Flow(x)' /\ Given(x)'
      <4>1. Flow(x) /\ Given(x) /\ Count(Peer(x)) \in Nat /\ Count(Peer(x))' = Count(Peer(x))
        BY <1>0, <3>4, Zenon DEF Bridge
      <4>2. \A mid \in 0..Count(Peer(x)) : OnWay(x, mid) => OnWay(x, mid)'
        BY <1>1, <1>3, <4>1, Zenon DEF OnWay
      <4> QED BY <1>1, <1>4, <4>1, <4>2, StillFlows
    <3>10. Flow(y)' /\ Given(y)'
      <4>1. Flow(y) /\ Given(y) /\ Count(Peer(y)) \in Nat /\ Count(Peer(y))' = Count(Peer(y)) + 1
        BY <1>1, <3>4, Zenon DEF Bridge
      <4>2. \/ wire'[y] = Append(wire[y], m) /\ alive
            \/ ~alive' /\ wire'[y] = wire[y]
        BY <1>0, <1>1, <2>2, Zenon DEF Send, Typed
      <4>3. ASSUME NEW mid \in 0..Count(Peer(y)), OnWay(y, mid) PROVE OnWay(y, mid)'
        <5>1. mid \in Nat /\ mid <= Count(Peer(y)) /\ Count(Peer(y))' \in Nat
              /\ Count(Peer(y))' >= Count(Peer(y)) /\ m.byte = Count(Peer(y)) + 1
          BY <1>1, <3>5, <4>1, <4>3
        <5> QED BY <1>1, <1>3, <4>1, <4>2, <4>3, <5>1, OnTheWay, Zenon
      <4> QED BY <1>1, <1>4, <4>1, <4>3, StillFlows
    <3> QED BY <1>1, <3>8, <3>9, <3>10, Zenon
  <2> QED BY <1>2, <2>1, <2>2, Zenon
<1> QED BY <1>5, <1>6, <1>7, <1>8, Zenon DEF Bridge

\* What is taken from a queue is given to the application, or is no byte, or
\* nothing follows that would leave a gap.
LEMMA QueueTaken ==
    ASSUME Bridge, Typed', NEW x \in End, queue[x] # <<>>,
           queue' = [queue EXCEPT ![x] = Tail(@)],
           UNCHANGED <<direction, alive, app, written, sock, sender, wire, rule>>,
           \/ Head(queue[x]) = 0 /\ got' = got
           \/ /\ Head(queue[x]) # 0 /\ app[x] = "open"
              /\ got' = [got EXCEPT ![x] = Append(@, Head(queue[x]))]
           \/ /\ Head(queue[x]) # 0 /\ got' = got
              /\ app[x] = "closed" \/ (got[x] = <<>> /\ direction # "rport")
    PROVE  \A e \in End : Flow(e)' /\ Given(e)'
<1>0. PICK h : h = Head(queue[x])
  BY Zenon
<1>1. /\ Typed /\ Sockets /\ queue[x] \in Seq(Nat) /\ got[x] \in Seq(Nat)
      /\ queue'[x] = Tail(queue[x]) /\ \A e \in End : Flow(e) /\ Given(e)
  BY Zenon DEF Bridge, Typed
<1>2. \A e \in End : /\ Count(e) \in Nat /\ Count(e)' = Count(e) /\ Peer(e) \in End
                     /\ Linked(e)' <=> Linked(e)
  BY <1>1, Counts, Zenon DEF Count, Linked
<1>3. ASSUME NEW e \in End, NEW mid, OnWay(e, mid) PROVE OnWay(e, mid)'
  BY <1>2, <1>3, Zenon DEF OnWay
<1>4. ASSUME NEW e \in End, e # x PROVE Flow(e)' /\ Given(e)'
  <2>1. queue'[e] = queue[e] /\ got'[e] = got[e]
    BY <1>1, <1>4, Zenon DEF Typed
  <2>2. Count(Peer(e)) \in Nat /\ Count(Peer(e))' = Count(Peer(e))
    BY <1>2, <1>4, Zenon
  <2>3. \A mid \in 0..Count(Peer(e)) :
           Linked(e)' => Linked(e) /\ (OnWay(e, mid) => OnWay(e, mid)')
    BY <1>2, <1>3, <1>4, Zenon
  <2>4. /\ Flow(e) /\ Given(e) /\ direction' = direction /\ Count(Peer(e))' \in Nat
        /\ Count(Peer(e))' >= Count(Peer(e)) /\ (app'[e] # "closed" => app[e] # "closed")
    BY <1>1, <1>4, <2>2
  <2> QED BY <1>4, <2>1, <2>2, <2>3, <2>4, StillFlows, Zenon
<1>5. PICK n \in Nat : n = Count(Peer(x)) /\ n = Count(Peer(x))'
  BY <1>2, Zenon
<1>6. PICK lo \in 0..n, mid \in 0..n : FlowAt(x, lo, mid)
  BY <1>1, <1>5, Zenon DEF Flow
<1>7. /\ lo \in Nat /\ mid \in Nat /\ lo <= mid /\ Carries(queue[x], lo)
      /\ UpTo(queue[x], lo, mid) /\ AtMost(queue[x], mid) /\ (Linked(x)' => OnWay(x, mid)')
      /\ app[x] # "closed" /\ got[x] # <<>> => got[x][Len(got[x])] = lo
      /\ app[x] # "closed" /\ got[x] = <<>> /\ direction = "rport" => lo = 0
  BY <1>2, <1>3, <1>6 DEF FlowAt
<1>8. /\ h \in Nat /\ h <= mid /\ AtMost(queue'[x], mid)
      /\ h = 0 => Carries(queue'[x], lo) /\ UpTo(queue'[x], lo, mid)
      /\ h # 0 => h = lo + 1 /\ Carries(queue'[x], lo + 1) /\ UpTo(queue'[x], lo + 1, mid)
  <2>1. PICK s, t : s = queue[x] /\ t = Tail(s)
    BY Zenon
  <2>2. /\ h \in Nat /\ h <= mid /\ AtMost(t, mid)
        /\ h = 0 => Carries(t, lo) /\ UpTo(t, lo, mid)
        /\ h # 0 => h = lo + 1 /\ Carries(t, lo + 1) /\ UpTo(t, lo + 1, mid)
    BY <1>0, <1>1, <1>7, <2>1, TakeFirst, Zenon
  <2> QED BY <1>1, <2>1, <2>2, Zenon
<1>9. Flow(x)'
  <2>1. CASE h = 0
    <3>1. FlowAt(x, lo, mid)'
      BY <1>0, <1>7, <1>8, <2>1, Zenon DEF FlowAt
    <3> QED BY <1>5, <3>1, Zenon DEF Flow
  <2>2. CASE h # 0
    <3>1. lo + 1 \in 0..n /\ lo + 1 <= mid
      BY <1>7, <1>8, <2>2
    <3>2. /\ app'[x] # "closed" /\ got'[x] # <<>> => got'[x][Len(got'[x])] = lo + 1
          /\ app'[x] # "closed" /\ got'[x] = <<>> => direction # "rport"
      <4>1. CASE got' = [got EXCEPT ![x] = Append(@, h)]
        <5>1. PICK g, k : g = got[x] /\ k = Append(g, h)
          BY Zenon
        <5>2. k # <<>> /\ k[Len(k)] = h
          BY <1>1, <1>8, <5>1, SMTT(20)
        <5>3. got'[x] = k
          BY <1>1, <4>1, <5>1, Zenon DEF Typed
        <5> QED BY <1>8, <2>2, <5>2, <5>3, Zenon
      <4>2. CASE got' = got /\ (app[x] = "closed" \/ (got[x] = <<>> /\ direction # "rport"))
        BY <4>2, Zenon
      <4> QED BY <1>0, <2>2, <4>1, <4>2, Zenon
    <3>3. FlowAt(x, lo + 1, mid)'
      BY <1>7, <1>8, <2>2, <3>1, <3>2, Zenon DEF FlowAt
    <3> QED BY <1>5, <3>1, <3>3, Zenon DEF Flow
  <2> QED BY <2>1, <2>2, Zenon
<1>10. Given(x)'
  <2>1. /\ \A i \in DOMAIN got[x] : got[x][i] \in 1..n
        /\ \A i \in 2..Len(got[x]) : got[x][i] = got[x][i - 1] + 1
        /\ direction = "rport" /\ got[x] # <<>> => got[x][1] = 1
    BY <1>1, <1>5, Zenon DEF Given
  <2>2. CASE got' = got
    BY <1>5, <2>1, <2>2, Zenon DEF Given
  <2>3. CASE h # 0 /\ app[x] = "open" /\ got' = [got EXCEPT ![x] = Append(@, h)]
    <3>1. PICK g, k : g = got[x] /\ k = Append(g, h)
      BY Zenon
    <3>2. /\ Len(g) \in Nat /\ Len(k) = Len(g) + 1 /\ DOMAIN g = 1..Len(g)
          /\ DOMAIN k = 1..(Len(g) + 1) /\ k[Len(g) + 1] = h /\ (\A i \in DOMAIN g : k[i] = g[i])
          /\ (g = <<>> <=> Len(g) = 0)
      <4>1. g \in Seq(Nat) /\ h \in Nat
        BY <1>1, <1>8, <3>1, Zenon
      <4> QED BY <3>1, <4>1, SMTT(20)
    <3>3. got'[x] = k
      BY <1>1, <2>3, <3>1, Zenon DEF Typed
    <3>4. h \in 1..n
      BY <1>7, <1>8, <2>3
    <3>5. \A i \in DOMAIN k : k[i] \in 1..n
      BY <2>1, <3>1, <3>2, <3>4
    <3>6. \A i \in 2..Len(k) : k[i] = k[i - 1] + 1
      <4>1. Len(g) # 0 => g[Len(g)] = lo /\ h = lo + 1
        BY <1>7, <1>8, <2>3, <3>1, <3>2, Zenon
      <4> SUFFICES ASSUME NEW i \in 2..Len(k) PROVE k[i] = k[i - 1] + 1
        BY Zenon
      <4>2. CASE i = Len(g) + 1
        BY <3>2, <4>1, <4>2
      <4>3. CASE i # Len(g) + 1
        <5>1. i \in 2..Len(g) /\ i \in DOMAIN g /\ i - 1 \in DOMAIN g
          BY <3>2, <4>3
        <5> QED BY <2>1, <3>1, <3>2, <5>1, Zenon
      <4> QED BY <4>2, <4>3, Zenon
    <3>7. direction = "rport" => k[1] = 1
      <4>1. CASE g = <<>>
        BY <1>7, <1>8, <2>3, <3>1, <3>2, <4>1, SMTT(20)
      <4>2. CASE g # <<>>
        BY <2>1, <3>1, <3>2, <4>2
      <4> QED BY <4>1, <4>2, Zenon
    <3> QED BY <1>5, <3>3, <3>5, <3>6, <3>7, Zenon DEF Given
  <2> QED BY <1>0, <2>2, <2>3, Zenon
<1> QED BY <1>4, <1>9, <1>10, Zenon

\* The accepting end is activated, and writers write.
LEMMA TakesKeep ==
    ASSUME Bridge, Typed', AwaitActivation \/ \E x \in End : WriteSocket(x)
    PROVE  Bridge'
<1>0. PICK a, c : a = Acceptor /\ c = Connector
  BY Zenon
<1>1. /\ a \in End /\ c \in End /\ a # c /\ Peer(a) = c /\ (\A e \in End : e \in {a, c})
      /\ pc \in [End -> Accepts \cup Connects] /\ PhasesOf(a, c) /\ Typed /\ Sockets
      /\ (direction = "rport" => a = "D")
  BY <1>0, Parts, Zenon DEF Bridge, Acceptor
<1>2. PICK x \in End :
         /\ queue[x] # <<>> /\ queue' = [queue EXCEPT ![x] = Tail(@)]
         /\ UNCHANGED <<direction, alive, app, written, sock, sender, wire, rule>>
         /\ \/ /\ x = a /\ pc[a] = "wait" /\ got' = got
               /\ \/ /\ Head(queue[a]) = Activation /\ pc' = [pc EXCEPT ![a] = "bridge"]
                     /\ reader' = [reader EXCEPT ![a] = "run"]
                     /\ writer' = [writer EXCEPT ![a] = "run"]
                  \/ Head(queue[a]) # Activation /\ UNCHANGED <<pc, reader, writer>>
            \/ /\ writer[x] = "run" /\ UNCHANGED <<pc, reader>>
               /\ writer' = writer \/ writer' = [writer EXCEPT ![x] = "done"]
               /\ \/ Head(queue[x]) = 0 /\ got' = got
                  \/ /\ Head(queue[x]) # 0 /\ app[x] = "open"
                     /\ got' = [got EXCEPT ![x] = Append(@, Head(queue[x]))]
                  \/ Head(queue[x]) # 0 /\ app[x] = "closed" /\ got' = got
  BY <1>0, <1>1, Zenon DEF AwaitActivation, WriteSocket, Goto, StartTasks, Activation
<1>3. /\ queue[x] \in Seq(Nat) /\ queue'[x] = Tail(queue[x]) /\ 1 \in DOMAIN queue[x]
      /\ Head(queue[x]) = queue[x][1] /\ (\A e \in End \ {x} : queue'[e] = queue[e])
      /\ \A i \in DOMAIN queue'[x] : i + 1 \in DOMAIN queue[x] /\ queue'[x][i] = queue[x][i + 1]
  <2>1. /\ queue[x] \in Seq(Nat) /\ queue'[x] = Tail(queue[x])
        /\ (\A e \in End \ {x} : queue'[e] = queue[e])
    BY <1>1, <1>2 DEF Typed
  <2>2. PICK s, t : s = queue[x] /\ t = Tail(s)
    BY ZenonT(30)
  <2>3. s \in Seq(Nat) /\ s # <<>>
    BY <1>2, <2>1, <2>2, Zenon
  <2>4. /\ Len(s) \in Nat /\ Len(s) > 0 /\ DOMAIN s = 1..Len(s) /\ Head(s) = s[1]
        /\ \A i \in DOMAIN t : i + 1 \in DOMAIN s /\ t[i] = s[i + 1]
    BY <2>2, <2>3, ByteTail, Zenon
  <2>5. 1 \in DOMAIN s
    BY <2>4
  <2> QED BY <2>1, <2>2, <2>4, <2>5, Zenon
<1>4. pc[a] = "wait" => /\ got[a] = <<>> /\ writer[a] = "off"
                        /\ direction = "rport" /\ x = a => Head(queue[a]) = 0
  BY <1>1, <1>2, <1>3 DEF PhasesOf, Off, Bridge, ActivatedFirst, Activation
<1>5. \A e \in End : Flow(e)' /\ Given(e)'
  BY <1>2, <1>4, QueueTaken, Zenon DEF Activation
<1>6. /\ (\A e \in End : Count(e)' = Count(e)) /\ (\A e \in End : Linked(e)' <=> Linked(e))
      /\ \A e \in End : reader'[e] = "off" => reader[e] = "off"
  BY <1>1, <1>2, ZenonT(30) DEF Count, Linked, Typed
<1>7. Sockets'
  BY <1>1, <1>2, <1>6, ZenonT(30) DEF Sockets
<1>8. /\ pc' \in [End -> Accepts \cup Connects] /\ pc'[c] = pc[c]
      /\ pc[a] \notin {"idle", "ask"} => pc'[a] \notin {"idle", "ask"}
  BY <1>1, <1>2, Zenon DEF Accepts
<1>9. Messages'
  BY <1>0, <1>1, <1>2, <1>8, MessagesKeep, Zenon
<1>10. Phases'
  <2>1. CASE pc' = pc
    <3>1. ASSUME NEW e \in End
          PROVE  /\ reader'[e] = reader[e]
                 /\ writer[e] = "off" => writer'[e] = "off" /\ got'[e] = got[e]
                 /\ queue[e] = <<>> => queue'[e] = <<>>
      BY <1>1, <1>2, <1>3, <2>1, <3>1, Zenon DEF Typed
    <3>2. ASSUME NEW e \in End, NEW i \in DOMAIN queue'[e], queue'[e][i] = Activation
          PROVE  \E j \in DOMAIN queue[e] : queue[e][j] = Activation
      BY <1>3, <3>2, ZenonT(30)
    <3> QED BY <1>2, <2>1, <3>1, <3>2, PhasesSame, Zenon
  <2>2. CASE /\ x = a /\ pc[a] = "wait" /\ Head(queue[a]) = Activation
             /\ pc' = [pc EXCEPT ![a] = "bridge"] /\ got' = got
             /\ reader' = [reader EXCEPT ![a] = "run"] /\ writer' = [writer EXCEPT ![a] = "run"]
    <3>1. ~Unanswered(a) /\ pc'[a] = "bridge" /\ pc[a] = "wait"
      BY <1>1, <1>3, <2>2, Zenon DEF Unanswered
    <3>2. pc[c] \in {"bridge", "ended"}
      BY <1>1, <3>1, Zenon DEF PhasesOf, Connects
    <3>3. reader'[c] = reader[c] /\ (HdcdSlave(c)' <=> HdcdSlave(c))
      BY <1>1, <1>2, <2>2, Zenon DEF Typed, HdcdSlave
    <3>4. reader[c] = "run" => pc[c] = "bridge" \/ HdcdSlave(c)
      BY <1>1, Zenon DEF PhasesOf
    <3>5. PhasesOf(a, c)'
      BY <1>8, <3>1, <3>2, <3>3, <3>4, Zenon DEF PhasesOf, Accepts, Connects
    <3> QED BY <1>0, <1>2, <1>8, <3>5, Parts, Zenon
  <2> QED BY <1>2, <2>1, <2>2, Zenon
<1>11. ActivatedFirst'
  <2> SUFFICES ASSUME direction = "rport", pc'["D"] \in {"ask", "wait"} PROVE ActivatedFirst'
    BY <1>2, Zenon DEF ActivatedFirst
  <2>1. a = "D" /\ c = "H" /\ pc' = pc
    BY <1>0, <1>1, <1>2, <1>4, Zenon DEF Acceptor, Connector, Peer, Activation
  <2>2. Off(a)
    BY <1>1, <2>1, Zenon DEF PhasesOf
  <2>3. x # a
    BY <1>1, <1>2, <1>4, <2>1, <2>2, Zenon DEF Off, Activation
  <2>4. queue'["D"] = queue["D"] /\ reader' = reader
    BY <1>1, <1>2, <1>3, <2>1, <2>3, Zenon
  <2>5. Linked("D")' => Linked("D")
    BY <1>1, <1>6, <2>1, Zenon
  <2> QED BY <1>2, <2>1, <2>4, <2>5, FirstKeeps, Zenon
<1> QED BY <1>5, <1>7, <1>9, <1>10, <1>11, Zenon DEF Bridge

\* What a dispatcher takes continues what is queued, or is no byte, or nothing
\* more will be queued.
LEMMA WireTaken ==
    ASSUME Bridge, Typed', NEW x \in End, wire[x] # <<>>, wire' = [wire EXCEPT ![x] = Tail(@)],
           UNCHANGED <<direction, app, written, sock, got, reader>>, alive' => alive,
           \A e \in End : Linked(e)' => Linked(e),
           \/ queue' = queue /\ (Head(wire[x]).byte = 0 \/ ~Linked(x)')
           \/ queue' = [queue EXCEPT ![x] = Append(@, Head(wire[x]).byte)] /\ Linked(x)
    PROVE  Sockets' /\ \A e \in End : Flow(e)' /\ Given(e)'
<1>0. PICK b : b = Head(wire[x]).byte
  BY Zenon
<1>1. /\ Typed /\ Sockets /\ queue[x] \in Seq(Nat) /\ wire[x] \in Seq(Message)
      /\ wire'[x] = Tail(wire[x]) /\ (\A e \in End : Flow(e) /\ Given(e))
      /\ (\A e \in End \ {x} : wire'[e] = wire[e] /\ queue'[e] = queue[e])
  BY Zenon DEF Bridge, Typed
<1>2. \A e \in End : Count(e) \in Nat /\ Count(e)' = Count(e) /\ Peer(e) \in End
  BY <1>1, Counts, Zenon DEF Count
<1>3. PICK w, v : w = BytesOf(wire[x]) /\ v = BytesOf(wire'[x])
  BY Zenon
<1>4. /\ w \in Seq(Nat) /\ w # <<>> /\ Head(w) = b /\ v = Tail(w)
      /\ \A i \in DOMAIN wire'[x] : i + 1 \in DOMAIN wire[x] /\ wire'[x][i] = wire[x][i + 1]
  <2>1. PICK s, t : s = wire[x] /\ t = Tail(s)
    BY Zenon
  <2>2. \A i \in DOMAIN t : i + 1 \in DOMAIN s /\ t[i] = s[i + 1]
    BY <1>1, <2>1, MessageSeqs
  <2>3. /\ BytesOf(s) \in Seq(Nat) /\ BytesOf(s) # <<>> /\ Head(BytesOf(s)) = b
        /\ BytesOf(t) = Tail(BytesOf(s))
    BY <1>0, <1>1, <2>1, TheBytes, ZenonT(30)
  <2> QED BY <1>1, <1>3, <2>1, <2>2, <2>3, Zenon
<1>5. Sockets'
  <2>1. ASSUME NEW e \in End, \A i \in DOMAIN wire[e] : wire[e][i].byte = 0
        PROVE  \A i \in DOMAIN wire'[e] : wire'[e][i].byte = 0
    <3>1. CASE e = x
      BY <1>4, <2>1, <3>1
    <3>2. CASE e # x
      BY <1>1, <2>1, <3>2, Zenon
    <3> QED BY <3>1, <3>2, Zenon
  <2> QED BY <1>1, <1>2, <2>1 DEF Sockets
<1>6. ASSUME NEW e \in End, e # x PROVE Flow(e)' /\ Given(e)'
  <2>1. /\ Count(Peer(e)) \in Nat /\ Count(Peer(e))' = Count(Peer(e))
        /\ wire'[e] = wire[e] /\ queue'[e] = queue[e]
    BY <1>1, <1>2, <1>6, Zenon
  <2>2. \A mid \in 0..Count(Peer(e)) : OnWay(e, mid) => OnWay(e, mid)'
    BY <2>1, Zenon DEF OnWay
  <2> QED BY <1>1, <1>6, <2>1, <2>2, StillFlows
<1>7. PICK n \in Nat : n = Count(Peer(x)) /\ n = Count(Peer(x))'
  BY <1>2, Zenon
<1>8. ASSUME NEW mid \in Nat, OnWay(x, mid)
      PROVE  /\ b \in Nat /\ b <= n
             /\ b = 0 => OnWay(x, mid)'
             /\ b # 0 => b = mid + 1 /\ OnWay(x, mid + 1)'
  <2>1. Carries(w, mid) /\ AtMost(w, n) /\ (alive => UpTo(w, mid, n))
    BY <1>3, <1>7, <1>8, Zenon DEF OnWay
  <2>2. /\ b \in Nat /\ b <= n /\ AtMost(v, n)
        /\ b = 0 => Carries(v, mid) /\ (alive => UpTo(v, mid, n))
        /\ b # 0 => b = mid + 1 /\ Carries(v, mid + 1) /\ (alive => UpTo(v, mid + 1, n))
    BY <1>4, <1>7, <1>8, <2>1, TakeFirst, Zenon
  <2> QED BY <1>3, <1>7, <2>2, Zenon DEF OnWay
<1>9. Flow(x)' /\ Given(x)'
  <2>1. CASE queue' = queue /\ (b = 0 \/ ~Linked(x)')
    <3>1. \A mid \in 0..Count(Peer(x)) :
             Linked(x)' => Linked(x) /\ (OnWay(x, mid) => OnWay(x, mid)')
      BY <1>7, <1>8, <2>1
    <3>2. /\ queue'[x] = queue[x] /\ Count(Peer(x)) \in Nat /\ Count(Peer(x))' \in Nat
          /\ Count(Peer(x))' >= Count(Peer(x)) /\ Flow(x) /\ Given(x)
      BY <1>1, <1>7, <2>1
    <3> QED BY <3>1, <3>2, StillFlows, Zenon
  <2>2. CASE queue' = [queue EXCEPT ![x] = Append(@, b)] /\ Linked(x)
    <3>1. PICK lo \in 0..n, mid \in 0..n : FlowAt(x, lo, mid)
      BY <1>1, <1>7, ZenonT(30) DEF Flow
    <3>2. /\ lo \in Nat /\ mid \in Nat /\ lo <= mid /\ Carries(queue[x], lo)
          /\ UpTo(queue[x], lo, mid) /\ AtMost(queue[x], mid) /\ OnWay(x, mid)
          /\ app[x] # "closed" /\ got[x] # <<>> => got[x][Len(got[x])] = lo
          /\ app[x] # "closed" /\ got[x] = <<>> /\ direction = "rport" => lo = 0
      BY <2>2, <3>1, SMTT(20) DEF FlowAt
    <3>3. b \in Nat /\ b <= n /\ queue'[x] = Append(queue[x], b)
      BY <1>1, <1>8, <2>2, <3>2 DEF Typed
    <3>4. Flow(x)'
      <4>1. CASE b = 0
        <5>1. PICK q, p : q = queue[x] /\ p = Append(q, 0)
          BY Zenon
        <5>2. /\ DOMAIN q = 1..Len(q) /\ DOMAIN p = 1..(Len(q) + 1) /\ Len(q) \in Nat
              /\ (\A i \in DOMAIN q : p[i] = q[i]) /\ p[Len(q) + 1] = 0
              /\ \A y : Present(q, y) => Present(p, y)
          BY <1>1, <5>1, Behind, SMTT(20)
        <5>3. Carries(p, lo)
          BY <1>1, <3>2, <5>1, AddNothing, Zenon
        <5>4. UpTo(p, lo, mid) /\ AtMost(p, mid)
          BY <3>2, <5>1, <5>2, SMTT(20) DEF UpTo, AtMost
        <5>5. FlowAt(x, lo, mid)'
          BY <1>8, <3>2, <3>3, <4>1, <5>1, <5>3, <5>4, Zenon DEF FlowAt
        <5> QED BY <1>7, <3>1, <5>5, Zenon DEF Flow
      <4>2. CASE b # 0
        <5>1. b = mid + 1 /\ OnWay(x, mid + 1)' /\ mid + 1 \in 0..n /\ lo <= mid + 1
          BY <1>8, <3>2, <3>3, <4>2
        <5>2. PICK q, p : q = queue[x] /\ p = Append(q, mid + 1)
          BY Zenon
        <5>3. Carries(p, lo) /\ UpTo(p, lo, mid + 1) /\ AtMost(p, mid + 1)
          BY <1>1, <3>2, <5>2, AddNext, Zenon
        <5>4. queue'[x] = p
          BY <3>3, <5>1, <5>2, Zenon
        <5>5. FlowAt(x, lo, mid + 1)'
          BY <3>2, <5>1, <5>3, <5>4, Zenon DEF FlowAt
        <5> QED BY <1>7, <3>1, <5>1, <5>5, Zenon DEF Flow
      <4> QED BY <4>1, <4>2, Zenon
    <3>5. Given(x)'
      BY <1>1, <1>7, Zenon DEF Given
    <3> QED BY <3>4, <3>5, Zenon
  <2> QED BY <1>0, <2>1, <2>2, Zenon
<1> QED BY <1>5, <1>6, <1>9, Zenon

\* A dispatcher takes a message.
LEMMA DispatchKeeps ==
    ASSUME Bridge, Typed', NEW x \in End, Dispatch(x)
    PROVE  Bridge'
<1>0. PICK a, c, m : a = Acceptor /\ c = Connector /\ m = Head(wire[x])
  BY Zenon
<1>1. /\ a \in End /\ c \in End /\ a # c /\ Peer(a) = c /\ (\A e \in End : e \in {a, c})
      /\ pc \in [End -> Accepts \cup Connects] /\ PhasesOf(a, c) /\ MessagesOf(a, c) /\ Typed
      /\ wire[x] # <<>> /\ wire[x] \in Seq(Message)
      /\ wire' = [wire EXCEPT ![x] = Tail(@)] /\ wire'[x] = Tail(wire[x])
      /\ (\A e \in End \ {x} : wire'[e] = wire[e])
      /\ UNCHANGED <<direction, app, written, sock, got, eof, reader, writer>>
  BY <1>0, Parts, Zenon DEF Bridge, Dispatch, Taken, Typed
<1>2. /\ 1 \in DOMAIN wire[x] /\ m = wire[x][1]
      /\ \A i \in DOMAIN wire'[x] : i + 1 \in DOMAIN wire[x] /\ wire'[x][i] = wire[x][i + 1]
      /\ \A i \in DOMAIN wire[x] : i # 1 => i - 1 \in DOMAIN wire'[x]
  <2>1. PICK s, t : s = wire[x] /\ t = Tail(s)
    BY Zenon
  <2>2. /\ 1 \in DOMAIN s /\ Head(s) = s[1] /\ Len(s) \in Nat /\ DOMAIN s = 1..Len(s)
        /\ DOMAIN t = 1..(Len(s) - 1)
        /\ \A i \in DOMAIN t : i + 1 \in DOMAIN s /\ t[i] = s[i + 1]
    BY <1>1, <2>1, MessageSeqs
  <2>3. \A i \in DOMAIN s : i # 1 => i - 1 \in DOMAIN t
    BY <2>2
  <2> QED BY <1>0, <1>1, <2>1, <2>2, <2>3, Zenon
<1>3. m \in Message /\ m.byte \in Nat /\ Plain(m)
  <2>1. m \in Message /\ m.byte \in Nat
    <3>1. \A d \in Message : d.byte \in Nat
      BY Zenon DEF Message
    <3>2. m \in Message
      BY <1>1, <1>2, SMTT(20)
    <3> QED BY <3>1, <3>2, Zenon
  <2>2. CASE x = a
    BY <1>1, <1>2, <2>1, <2>2, Zenon DEF MessagesOf
  <2>3. CASE x = c
    BY <1>1, <1>2, <2>1, <2>3, Zenon DEF MessagesOf
  <2> QED BY <1>1, <2>2, <2>3, Zenon
<1>4. m.command = "ForwardActiveSlave" => x = c /\ pc[c] = "idle" /\ pc[a] \notin {"idle", "ask"}
  BY <1>1, <1>2, Zenon DEF MessagesOf, Has
<1>5. /\ (alive' => alive) /\ (rule = "closed" => rule' = "closed")
      /\ (\A e \in End : sender'[e] => sender[e]) /\ (\A e \in End : Linked(e)' => Linked(e))
  <2>1. \/ UNCHANGED <<alive, sender, rule>>
        \/ SetSender(x, FALSE) /\ UNCHANGED <<alive, rule>>
        \/ ChannelClose(x)
    BY Zenon DEF Dispatch
  <2>2. /\ (alive' => alive) /\ (rule = "closed" => rule' = "closed")
        /\ (\A e \in End : sender'[e] => sender[e])
    BY <1>1, <2>1, ZenonT(30) DEF SetSender, ChannelClose, Typed
  <2> QED BY <1>1, <2>2, Zenon DEF Linked
<1>6. /\ pc' = pc \/ (m.command = "ForwardActiveSlave" /\ pc' = [pc EXCEPT ![x] = "connect"])
      /\ \/ /\ queue' = queue /\ (m.byte = 0 \/ ~Linked(x)')
            /\ m.command = "ForwardActiveMaster" => ~Linked(x)'
         \/ /\ queue' = [queue EXCEPT ![x] = Append(@, m.byte)] /\ Linked(x) /\ sender[x]
            /\ pc' = pc /\ (m.byte = 0 => m.command = "ForwardActiveMaster")
  <2>1. PICK ended : ended = (x = "D" /\ direction = "rport" /\ rule = "closed")
    BY Zenon
  <2>2. CASE ended /\ UNCHANGED <<alive, pc, sender, queue, rule>>
    BY <1>1, <2>1, <2>2, Zenon DEF Linked
  <2>3. CASE ~ended /\ m.command = "ForwardActiveSlave" /\ Goto(x, "connect")
             /\ UNCHANGED <<alive, sender, queue, rule>>
    BY <1>3, <2>3, Zenon DEF Plain, Goto
  <2>4. CASE ~ended /\ m.command = "ForwardActiveMaster" /\ ToWriter(x, Activation)
             /\ UNCHANGED <<alive, pc, sender, rule>>
    <3>1. m.byte = 0
      BY <1>3, <2>4, Zenon DEF Plain
    <3>2. sender[x] => Linked(x)
      BY <2>1, <2>4, Zenon DEF Linked
    <3>3. ~sender[x] => ~Linked(x)'
      BY <2>4, Zenon DEF Linked
    <3> QED BY <2>4, <3>1, <3>2, <3>3, Zenon DEF ToWriter, Activation
  <2>5. CASE ~ended /\ m.command = "ForwardData" /\ ToWriter(x, m.byte)
             /\ UNCHANGED <<alive, pc, sender, rule>>
    <3>1. m.byte # 0
      BY <1>3, <2>5, Zenon DEF Plain
    <3>2. sender[x] => Linked(x)
      BY <2>1, <2>5, Zenon DEF Linked
    <3>3. ~sender[x] => ~Linked(x)'
      BY <2>5, Zenon DEF Linked
    <3> QED BY <2>5, <3>1, <3>2, <3>3, Zenon DEF ToWriter
  <2>6. CASE ~ended /\ m.command \in {"ForwardFreeContext", "KernelChannelClose"}
             /\ UNCHANGED <<pc, queue>>
    BY <1>3, <2>6, Zenon DEF Plain
  <2>7. \/ ended /\ UNCHANGED <<alive, pc, sender, queue, rule>>
        \/ ~ended /\ m.command = "ForwardActiveSlave" /\ Goto(x, "connect")
           /\ UNCHANGED <<alive, sender, queue, rule>>
        \/ ~ended /\ m.command = "ForwardActiveMaster" /\ ToWriter(x, Activation)
           /\ UNCHANGED <<alive, pc, sender, rule>>
        \/ ~ended /\ m.command = "ForwardData" /\ ToWriter(x, m.byte)
           /\ UNCHANGED <<alive, pc, sender, rule>>
        \/ ~ended /\ m.command \in {"ForwardFreeContext", "KernelChannelClose"}
           /\ UNCHANGED <<pc, queue>>
    BY <1>0, <2>1, Zenon DEF Dispatch
  <2> QED BY <2>2, <2>3, <2>4, <2>5, <2>6, <2>7, Zenon
<1>7. Sockets' /\ \A e \in End : Flow(e)' /\ Given(e)'
  BY <1>0, <1>1, <1>5, <1>6, WireTaken, Zenon
<1>8. \A e \in End : \A command : Has(wire'[e], command) => Has(wire[e], command)
  <2>1. ASSUME NEW command, Has(wire'[x], command) PROVE Has(wire[x], command)
    BY <1>2, <2>1, Zenon DEF Has
  <2> QED BY <1>1, <2>1, Zenon
<1>9. /\ pc' \in [End -> Accepts \cup Connects] /\ pc'[a] = pc[a]
      /\ pc'[c] = pc[c] \/ (m.command = "ForwardActiveSlave" /\ pc'[c] = "connect")
  BY <1>1, <1>4, <1>6 DEF Connects
<1>10. Messages'
  <2>1. Acceptor' = a /\ Connector' = c
    BY <1>0, <1>1, Parts, Zenon
  <2>2. ASSUME NEW i \in DOMAIN wire'[a]
        PROVE  Plain(wire'[a][i]) /\ wire'[a][i].command # "ForwardActiveSlave"
    <3>1. \E j \in DOMAIN wire[a] : wire'[a][i] = wire[a][j]
      BY <1>1, <1>2, <2>2, SMTT(20)
    <3> QED BY <1>1, <3>1, Zenon DEF MessagesOf
  <2>3. ASSUME NEW i \in DOMAIN wire'[c]
        PROVE  Plain(wire'[c][i]) /\ wire'[c][i].command # "ForwardActiveMaster"
    <3>1. \E j \in DOMAIN wire[c] : wire'[c][i] = wire[c][j]
      BY <1>1, <1>2, <2>3
    <3> QED BY <1>1, <3>1, Zenon DEF MessagesOf
  <2>4. ASSUME NEW i \in DOMAIN wire'[c], NEW j \in DOMAIN wire'[c],
               wire'[c][i].command = "ForwardActiveSlave",
               wire'[c][j].command = "ForwardActiveSlave"
        PROVE  i = j
    <3>1. CASE x = c
      <4>1. i + 1 = j + 1 /\ i \in Int /\ j \in Int
        <5>1. DOMAIN wire'[c] \subseteq Int
          BY <1>1, MessageSeqs, SMTT(20) DEF Typed
        <5>2. i + 1 \in DOMAIN wire[c] /\ j + 1 \in DOMAIN wire[c]
              /\ wire[c][i + 1].command = "ForwardActiveSlave"
              /\ wire[c][j + 1].command = "ForwardActiveSlave"
          BY <1>2, <2>4, <3>1, Zenon
        <5> QED BY <1>1, <2>4, <5>1, <5>2, Zenon DEF MessagesOf
      <4> QED BY <4>1, SMTT(20)
    <3>2. CASE x # c
      BY <1>1, <2>4, <3>2 DEF MessagesOf
    <3> QED BY <3>1, <3>2, Zenon
  <2>5. Has(wire'[c], "ForwardActiveSlave") => pc'[c] = "idle" /\ pc'[a] \notin {"idle", "ask"}
    <3> SUFFICES ASSUME Has(wire'[c], "ForwardActiveSlave")
                 PROVE  pc'[c] = "idle" /\ pc'[a] \notin {"idle", "ask"}
      BY Zenon
    <3>1. pc[c] = "idle" /\ pc[a] \notin {"idle", "ask"}
      BY <1>1, <1>8, Zenon DEF MessagesOf
    <3>2. m.command # "ForwardActiveSlave"
      <4> SUFFICES ASSUME m.command = "ForwardActiveSlave" PROVE FALSE
        BY Zenon
      <4>1. x = c
        BY <1>4, Zenon
      <4>2. PICK i \in DOMAIN wire'[c] : wire'[c][i].command = "ForwardActiveSlave"
        BY Zenon DEF Has
      <4>3. i + 1 \in DOMAIN wire[c] /\ wire[c][i + 1].command = "ForwardActiveSlave"
        BY <1>2, <4>1, <4>2, Zenon
      <4>4. i + 1 = 1
        <5>1. 1 \in DOMAIN wire[c] /\ wire[c][1].command = "ForwardActiveSlave"
          BY <1>2, <4>1, Zenon
        <5> QED BY <1>1, <4>3, <5>1, Zenon DEF MessagesOf
      <4>5. i \in Int /\ i >= 1
        <5>1. wire'[c] \in Seq(Message)
          BY <1>1, Zenon DEF Typed
        <5>2. DOMAIN wire'[c] = 1..Len(wire'[c]) /\ Len(wire'[c]) \in Nat
          BY <5>1, MessageSeqs, Zenon
        <5> QED BY <4>2, <5>2, SMTT(20)
      <4> QED BY <4>4, <4>5
    <3> QED BY <1>9, <3>1, <3>2, Zenon
  <2>6. MessagesOf(a, c)'
    BY <2>2, <2>3, <2>4, <2>5, Zenon DEF MessagesOf
  <2> QED BY <2>1, <2>6, Zenon DEF Messages
<1>11. Phases'
  <2>1. CASE pc' = pc
    <3>1. ASSUME NEW e \in End, queue[e] = <<>>, ~sender[e] PROVE queue'[e] = <<>>
      BY <1>1, <1>6, <3>1, Zenon DEF Typed
    <3>2. ASSUME NEW e \in End, NEW i \in DOMAIN queue'[e], queue'[e][i] = Activation
          PROVE  \/ \E j \in DOMAIN queue[e] : queue[e][j] = Activation
                 \/ Has(wire[e], "ForwardActiveMaster")
      <4>1. CASE queue'[e] = queue[e]
        BY <3>2, <4>1, Zenon
      <4>2. CASE /\ e = x /\ queue'[x] = Append(queue[x], m.byte)
                 /\ m.byte = 0 => m.command = "ForwardActiveMaster"
        <5>1. queue[x] \in Seq(Nat)
          BY <1>1, Zenon DEF Typed
        <5>2. queue'[x][i] = m.byte \/ (i \in DOMAIN queue[x] /\ queue'[x][i] = queue[x][i])
          BY <1>3, <3>2, <4>2, <5>1, SMTT(20)
        <5>3. m.command = "ForwardActiveMaster" => Has(wire[x], "ForwardActiveMaster")
          BY <1>2, Zenon DEF Has
        <5> QED BY <3>2, <4>2, <5>2, <5>3, Zenon DEF Activation
      <4> QED BY <1>1, <1>6, <4>1, <4>2, Zenon DEF Typed
    <3> QED BY <1>1, <1>5, <1>8, <2>1, <3>1, <3>2, PhasesSame, Zenon
  <2>2. CASE pc' # pc
    <3>1. /\ m.command = "ForwardActiveSlave" /\ pc'[c] = "connect" /\ pc'[a] = pc[a]
          /\ x = c /\ pc[c] = "idle" /\ pc[a] \notin {"idle", "ask"} /\ queue' = queue
          /\ wire'[a] = wire[a]
      BY <1>1, <1>4, <1>6, <1>9, <2>2, Zenon
    <3>2. (Off(a)' <=> Off(a)) /\ (Off(c)' <=> Off(c)) /\ (HdcdSlave(c)' <=> HdcdSlave(c))
      BY <1>1, Zenon DEF Off, HdcdSlave
    <3>3. Unanswered(a)'
      BY <1>1, <3>1, Zenon DEF Unanswered, PhasesOf
    <3>4. PhasesOf(a, c)'
      BY <1>1, <1>5, <3>1, <3>2, <3>3, Zenon DEF PhasesOf, Connects
    <3> QED BY <1>0, <1>1, <1>9, <3>4, Parts, Zenon
  <2> QED BY <2>1, <2>2, Zenon
<1>12. ActivatedFirst'
  <2> SUFFICES ASSUME direction = "rport", pc'["D"] \in {"ask", "wait"} PROVE ActivatedFirst'
    BY <1>1, Zenon DEF ActivatedFirst
  <2>1. a = "D" /\ c = "H" /\ pc["D"] \in {"ask", "wait"} /\ "D" \in End
    BY <1>0, <1>1, <1>9, Zenon DEF Acceptor, Connector, Peer
  <2>2. /\ queue["D"] # <<>> => queue["D"][1] = Activation
        /\ queue["D"] = <<>> /\ Linked("D") =>
              /\ Announced(wire["D"])
              /\ alive /\ reader["H"] # "off" => Has(wire["D"], "ForwardActiveMaster")
        /\ queue["D"] \in Seq(Nat)
    BY <2>1, Zenon DEF Bridge, ActivatedFirst, Typed
  <2>3. CASE x # "D"
    <3>1. wire'["D"] = wire["D"] /\ queue'["D"] = queue["D"]
      BY <1>1, <1>6, <2>1, <2>3 DEF Typed
    <3> QED BY <1>1, <1>5, <2>1, <3>1, FirstKeeps, Zenon
  <2>4. CASE x = "D" /\ queue'["D"] = Append(queue["D"], m.byte) /\ Linked("D")
    <3>1. queue["D"] = <<>> => m.byte = 0
      <4>1. \A j \in DOMAIN wire["D"] : ~(j < 1)
        BY <1>1, <2>4, MessageSeqs
      <4> QED BY <1>2, <2>2, <2>4, <4>1, Zenon DEF Announced
    <3>2. queue'["D"] # <<>> /\ queue'["D"][1] = Activation
      <4>1. PICK q, p : q = queue["D"] /\ p = Append(q, m.byte)
        BY Zenon
      <4>2. /\ Len(q) \in Nat /\ p # <<>> /\ p[Len(q) + 1] = m.byte
            /\ (q # <<>> => p[1] = q[1]) /\ (q = <<>> => Len(q) = 0)
        BY <1>3, <2>2, <4>1
      <4> QED BY <2>2, <2>4, <3>1, <4>1, <4>2 DEF Activation
    <3> QED BY <3>2, Zenon DEF ActivatedFirst
  <2>5. CASE x = "D" /\ queue' = queue /\ (m.command = "ForwardActiveMaster" => ~Linked(x)')
    <3> SUFFICES ASSUME queue["D"] = <<>>, Linked("D")'
                 PROVE  /\ Announced(wire'["D"])
                        /\ alive' /\ reader'["H"] # "off" =>
                              Has(wire'["D"], "ForwardActiveMaster")
      BY <2>2, <2>5, Zenon DEF ActivatedFirst
    <3>1. /\ m.command # "ForwardActiveMaster" /\ Announced(wire["D"])
          /\ alive /\ reader["H"] # "off" => Has(wire["D"], "ForwardActiveMaster")
      BY <1>5, <2>1, <2>2, <2>5, Zenon
    <3>2. PICK w, v : w = wire["D"] /\ v = wire'["D"]
      BY Zenon
    <3>3. /\ DOMAIN w \subseteq Int /\ DOMAIN v \subseteq Int
          /\ w[1].command # "ForwardActiveMaster"
          /\ \A i \in DOMAIN v : i + 1 \in DOMAIN w /\ v[i] = w[i + 1]
          /\ \A i \in DOMAIN w : i # 1 => i - 1 \in DOMAIN v
      <4>1. w \in Seq(Message) /\ v \in Seq(Message)
        BY <2>1, <3>2, <1>1, Zenon DEF Typed
      <4>2. /\ Len(w) \in Nat /\ DOMAIN w = 1..Len(w)
            /\ Len(v) \in Nat /\ DOMAIN v = 1..Len(v)
        BY <4>1, MessageSeqs, Zenon
      <4>3. DOMAIN w \subseteq Int /\ DOMAIN v \subseteq Int
        BY <4>2
      <4> QED BY <1>2, <2>5, <3>1, <3>2, <4>3, Zenon
    <3>4. ASSUME NEW j \in DOMAIN w, w[j].command = "ForwardActiveMaster"
          PROVE  j - 1 \in DOMAIN v /\ v[j - 1].command = "ForwardActiveMaster"
      <4>1. j # 1 /\ j \in Int /\ j - 1 \in DOMAIN v /\ (j - 1) + 1 = j
        BY <3>3, <3>4
      <4> QED BY <3>3, <3>4, <4>1, Zenon
    <3>5. Has(w, "ForwardActiveMaster") => Has(v, "ForwardActiveMaster")
      BY <3>4, Zenon DEF Has
    <3>6. Announced(v)
      <4> SUFFICES ASSUME NEW i \in DOMAIN v, v[i].byte # 0
                   PROVE  \E j \in DOMAIN v : j < i /\ v[j].command = "ForwardActiveMaster"
        BY Zenon DEF Announced
      <4>1. i + 1 \in DOMAIN w /\ w[i + 1].byte # 0
        BY <3>3, Zenon
      <4>2. PICK j \in DOMAIN w : j < i + 1 /\ w[j].command = "ForwardActiveMaster"
        BY <3>1, <3>2, <4>1, Zenon DEF Announced
      <4>3. j - 1 \in DOMAIN v /\ v[j - 1].command = "ForwardActiveMaster" /\ j - 1 < i
        BY <3>3, <3>4, <4>2, SMTT(20)
      <4> QED BY <4>3, Zenon
    <3> QED BY <1>1, <1>5, <3>1, <3>2, <3>5, <3>6, Zenon
  <2>6. queue' = [queue EXCEPT ![x] = Append(@, m.byte)] =>
           queue'[x] = Append(queue[x], m.byte)
    BY <1>1, Zenon DEF Typed
  <2> QED BY <1>6, <2>3, <2>4, <2>5, <2>6, Zenon
<1> QED BY <1>7, <1>10, <1>11, <1>12, Zenon DEF Bridge

-----------------------------------------------------------------------------
\* Every step keeps the invariant.
LEMMA BridgeStep == Bridge /\ [Next]_vars => Bridge'
<1> SUFFICES ASSUME Bridge, [Next]_vars PROVE Bridge'
  BY Zenon
<1>1. Typed'
  BY TypedStep, Zenon
<1>2. CASE Accept
  BY <1>1, <1>2, SendersKeep, Zenon
<1>3. CASE SetUp
  BY <1>1, <1>3, AskKeeps, TakesKeep, MovesKeep, SendersKeep, AnswerKeeps, Zenon DEF SetUp
<1>4. CASE RemoveRule \/ UNCHANGED vars
  BY <1>1, <1>4, EndsKeep, Zenon
<1>5. CASE SessionEnds
  BY <1>1, <1>5, LossKeeps, Zenon
<1>6. ASSUME NEW e \in End, AppWrites(e) \/ AppCloses(e) \/ Bridging(e) PROVE Bridge'
  <2>1. CASE AppWrites(e)
    BY <1>1, <2>1, WritesKeep, Zenon
  <2>2. CASE AppCloses(e) \/ WriterEnds(e)
    BY <1>1, <2>2, EndsKeep, Zenon
  <2>3. CASE Dispatch(e)
    BY <1>1, <2>3, DispatchKeeps, Zenon
  <2>4. CASE ReadSocket(e)
    BY <1>1, <2>4, ReadsKeep, Zenon
  <2>5. CASE WriteSocket(e)
    BY <1>1, <2>5, TakesKeep, Zenon
  <2>6. CASE JoinBridge(e)
    BY <1>1, <2>6, MovesKeep, Zenon
  <2> QED BY <1>6, <2>1, <2>2, <2>3, <2>4, <2>5, <2>6, Zenon DEF Bridging
<1> QED BY <1>2, <1>3, <1>4, <1>5, <1>6, Zenon DEF Next

\* Every task of run_forward_bridge, run_rport_bridge and hdcd's forward.rs
\* stays at one of its steps, and no socket is read before its end is a bridge,
\* whatever the number of bytes written and however the session ends.
THEOREM BridgeTypes == Spec => []TypeOK
BY BridgeInit, BridgeStep, BridgeIsRight, PTL DEF Spec

\* The bytes an application is given through a rule are a run of those the
\* other wrote, without gaps, repetitions or reordering, and through an rport
\* the run starts with the first (run_rport_bridge, forward.rs).
THEOREM BytesInOrder == Spec => []Contiguous
BY BridgeInit, BridgeStep, BridgeIsRight, PTL DEF Spec

=============================================================================
