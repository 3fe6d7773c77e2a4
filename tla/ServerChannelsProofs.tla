------------------------ MODULE ServerChannelsProofs ------------------------
(***************************************************************************)
(* The types of ServerChannels, that a request only reaches the device its *)
(* client named or one that took its session's id, and that no             *)
(* registration is left without its task: proved for any devices, ids,     *)
(* sessions, channels, streamers and number of commands.                   *)
(***************************************************************************)
EXTENDS ServerChannels, TLAPS

-----------------------------------------------------------------------------
(* The types of the parts of the state.                                    *)

HandlerState ==
    [pc : HandlerPc \cup {"idle", "done"}, cmd : Command \cup {"none"},
     key : Key \cup {"none"}, sid : Id \cup {NoSession}, rx : Streamer \cup {"none"}]

\* Where the arm of dispatch_task for a command can be.
Suits(pc, cmd, rx) ==
    /\ pc \in HandlerPc
    /\ cmd \in Command
    /\ pc \in {"resolve", "lookup"} => cmd \in Forwarded \cup {"reconnect"}
    /\ pc \in {"send", "failed", "associate"} => cmd \in Forwarded
    /\ pc = "register" => cmd = "track"
    /\ pc \in {"collect_register", "collect"} => cmd = "uninstall"
    /\ pc = "unregister" => cmd \in {"track", "uninstall"}
    /\ pc \in {"send", "failed", "associate", "unregister"} /\ cmd = "track" => rx \in Streamer

IsRecord(r, fields) == DOMAIN r = fields /\ r = [f \in fields |-> r[f]]

\* The types of the parts of the state, and where each handler can be.
ConnectTyped(m) ==
    /\ DOMAIN m \subseteq Key
    /\ \A k \in DOMAIN m :
          m[k] \in [session_id : Id \cup {NoSession}, conn_status : ConnStatus]

TcpTyped(t) ==
    /\ IsRecord(t, {"session_writers", "channel_writers", "channel_sessions", "keep_alive"})
    /\ t.session_writers \subseteq TcpSession
    /\ t.channel_writers \subseteq Channel
    /\ t.keep_alive \subseteq Channel
    /\ DOMAIN t.channel_sessions \subseteq Channel
    /\ \A c \in DOMAIN t.channel_sessions :
          t.channel_sessions[c] \in Id \cup {NoSession}

UsbTyped(u) ==
    /\ IsRecord(u, {"session_senders", "response_channels"})
    /\ u.session_senders \subseteq Id
    /\ DOMAIN u.response_channels \subseteq (Id \cup {NoSession}) \X Channel
    /\ \A p \in DOMAIN u.response_channels : u.response_channels[p] \in Receivers

HandlerTyped(x) ==
    /\ x \in [Channel -> HandlerState]
    /\ \A c \in Channel :
          \/ x[c] = Idle
          \/ x[c] = [Idle EXCEPT !.pc = "done"]
          \/ Suits(x[c].pc, x[c].cmd, x[c].rx)

Boxes == [Channel -> [Receivers -> Seq(Message)]]
StreamState == [pc : {"off", "recv", "end", "unregister"}, sid : Id \cup {NoSession}]
Streams == [Channel -> [Streamer -> StreamState]]
SessionPcs == [Session -> {"new", "open", "connected", "live", "end_session", "wait_writer",
                           "close_channels", "gone"}]

Typed ==
    /\ ConnectTyped(connect_map) /\ TcpTyped(tcp) /\ UsbTyped(usb)
    /\ client \in [Channel -> {"new", "open", "gone"}]
    /\ budget \in [Channel -> 0..MaxCommands]
    /\ socket \in [Channel -> Seq(Command)]
    /\ HandlerTyped(h) /\ inbox \in Boxes /\ stream \in Streams
    /\ spc \in SessionPcs
    /\ wpc \in [UsbSession -> {"off", "run", "ending", "done"}]
    /\ session_id \in [Session -> Id \cup {NoSession}]
    /\ feeds \in [Id -> UsbSession \cup {NoSession}]
    /\ outgoing \in [UsbSession -> Seq(Request)]
    /\ asked \in [Session -> SUBSET Request]
    /\ incoming \in [Session -> Seq(Message)]
    /\ routing \in [Session -> Message \cup {NoMessage}]

\* A sender leads to the queue of a session that goes by the id it is under; a
\* USB session takes its id when it connects.
Named ==
    /\ \A i \in usb.session_senders : feeds[i] \in UsbSession /\ session_id[feeds[i]] = i
    /\ \A s \in UsbSession : spc[s] \in {"new", "open"} => session_id[s] = NoSession
    /\ \A s \in UsbSession : spc[s] = "connected" => session_id[s] \in Id
    /\ \A s \in TcpSession : session_id[s] = s

-----------------------------------------------------------------------------
(* What the operations of the maps and the moves of a handler change.      *)

\* The methods of ConnectMap keep the type of the entries.
LEMMA ConnectTypes ==
    ASSUME NEW m, ConnectTyped(m), NEW k \in Key
    PROVE  /\ \A s \in Id \cup {NoSession}, st \in ConnStatus :
                 ConnectTyped(Put(m, k, DaemonInfo(s, st)))
           /\ ConnectTyped(Remove(m, k))
           /\ ConnectTyped(UpdateStatus(m, k, "Offline"))
<1>1. "Offline" \in ConnStatus
  BY Zenon DEF ConnStatus
<1> QED BY <1>1, Zenon DEF ConnectTyped, Put, Remove, UpdateStatus, DaemonInfo

\* The methods of TcpMap keep its type.
LEMMA TcpTypes ==
    ASSUME NEW t, TcpTyped(t), NEW c \in Channel, NEW s \in Id \cup {NoSession}
    PROVE  /\ TcpTyped(StartChannel(t, c))
           /\ TcpTyped(SetKeepAlive(t, c))
           /\ TcpTyped(EndChannel(t, c))
           /\ TcpTyped(MaybeEndChannel(t, c))
           /\ TcpTyped(Associate(t, c, s))
           /\ TcpTyped(CloseSessionChannels(t, s))
           /\ TcpTyped(EndTcpSession(t, s))
           /\ s \in TcpSession => TcpTyped(StartTcpSession(t, s))
<1>1. TcpTyped(StartChannel(t, c))
  BY Zenon DEF TcpTyped, IsRecord, StartChannel
<1>2. TcpTyped(SetKeepAlive(t, c))
  BY Zenon DEF TcpTyped, IsRecord, SetKeepAlive
<1>3. TcpTyped(EndChannel(t, c))
  BY Zenon DEF TcpTyped, IsRecord, EndChannel
<1>4. TcpTyped(MaybeEndChannel(t, c))
  BY <1>3, Zenon DEF MaybeEndChannel
<1>5. TcpTyped(Associate(t, c, s))
  BY Zenon DEF TcpTyped, IsRecord, Associate, Put
<1>6. TcpTyped(CloseSessionChannels(t, s))
  BY Zenon DEF TcpTyped, IsRecord, CloseSessionChannels, ChannelsOf
<1>7. TcpTyped(EndTcpSession(t, s))
  BY Zenon DEF TcpTyped, IsRecord, EndTcpSession
<1>8. s \in TcpSession => TcpTyped(StartTcpSession(t, s))
  BY Zenon DEF TcpTyped, IsRecord, StartTcpSession
<1> QED BY <1>1, <1>2, <1>3, <1>4, <1>5, <1>6, <1>7, <1>8, Zenon

\* The methods of UsbMap keep its type.
LEMMA UsbTypes ==
    ASSUME NEW u, UsbTyped(u), NEW c \in Channel, NEW s \in Id \cup {NoSession}
    PROVE  /\ \A r \in Receivers : UsbTyped(Register(u, s, c, r))
           /\ UsbTyped(Unregister(u, s, c))
           /\ UsbTyped(EndUsbSession(u, s))
           /\ UsbTyped(EndSessionWithCleanup(u, s))
           /\ s \in Id => UsbTyped(StartUsbSession(u, s))
<1>1. ASSUME NEW r \in Receivers PROVE UsbTyped(Register(u, s, c, r))
  BY <1>1 DEF UsbTyped, IsRecord, Register, Put
<1>2. UsbTyped(Unregister(u, s, c))
  BY Zenon DEF UsbTyped, IsRecord, Unregister, Remove
<1>3. UsbTyped(EndUsbSession(u, s))
  BY Zenon DEF UsbTyped, IsRecord, EndUsbSession
<1>4. UsbTyped(EndSessionWithCleanup(u, s))
  BY Zenon DEF UsbTyped, IsRecord, EndSessionWithCleanup
<1>5. s \in Id => UsbTyped(StartUsbSession(u, s))
  BY Zenon DEF UsbTyped, IsRecord, StartUsbSession
<1> QED BY <1>1, <1>2, <1>3, <1>4, <1>5, Zenon

\* R has lost some of the registrations of Q and gained none.
Fewer(R, Q) == DOMAIN R \subseteq DOMAIN Q /\ \A p \in DOMAIN R : R[p] = Q[p]

\* unregister_response_channel takes one away.
LEMMA UnregisterSets ==
    ASSUME NEW u, UsbTyped(u), NEW s, NEW c
    PROVE  /\ Unregister(u, s, c).response_channels = Remove(u.response_channels, <<s, c>>)
           /\ Unregister(u, s, c).session_senders = u.session_senders
BY Zenon DEF UsbTyped, IsRecord, Unregister

\* The end of a session takes its registrations away, its start adds none.
LEMMA SessionSets ==
    ASSUME NEW u, UsbTyped(u), NEW s
    PROVE  /\ StartUsbSession(u, s).response_channels = u.response_channels
           /\ StartUsbSession(u, s).session_senders = u.session_senders \cup {s}
           /\ EndUsbSession(u, s).response_channels = u.response_channels
           /\ EndUsbSession(u, s).session_senders = u.session_senders \ {s}
           /\ Fewer(EndSessionWithCleanup(u, s).response_channels, u.response_channels)
           /\ EndSessionWithCleanup(u, s).session_senders = u.session_senders \ {s}
<1>1. /\ StartUsbSession(u, s).response_channels = u.response_channels
      /\ StartUsbSession(u, s).session_senders = u.session_senders \cup {s}
      /\ EndUsbSession(u, s).response_channels = u.response_channels
      /\ EndUsbSession(u, s).session_senders = u.session_senders \ {s}
  BY Zenon DEF UsbTyped, IsRecord, StartUsbSession, EndUsbSession
<1>2. /\ Fewer(EndSessionWithCleanup(u, s).response_channels, u.response_channels)
      /\ EndSessionWithCleanup(u, s).session_senders = u.session_senders \ {s}
  BY Zenon DEF UsbTyped, IsRecord, EndSessionWithCleanup, Fewer
<1> QED BY <1>1, <1>2, Zenon

\* A move of one handler leaves the others where they are, and its own
\* command, key and session.
LEMMA Moves ==
    ASSUME HandlerTyped(h), NEW c \in Channel
    PROVE  /\ \A at \in HandlerPc \cup {"done"} : Goto(c, at) =>
                 /\ h'[c] = [h[c] EXCEPT !.pc = at]
                 /\ h'[c].pc = at /\ h'[c].cmd = h[c].cmd
                 /\ h'[c].key = h[c].key /\ h'[c].sid = h[c].sid
                 /\ h'[c].rx = h[c].rx
                 /\ \A d \in Channel \ {c} : h'[d] = h[d]
           /\ Return(c) => /\ h'[c] = Idle
                           /\ \A d \in Channel \ {c} : h'[d] = h[d]
<1>1. Idle \in HandlerState
  BY Zenon DEF Idle, HandlerState
<1>2. ASSUME NEW at \in HandlerPc \cup {"idle", "done"}
      PROVE  [h[c] EXCEPT !.pc = at] \in HandlerState
  BY <1>2, Zenon DEF HandlerTyped, HandlerState
<1> QED BY <1>1, <1>2 DEF HandlerTyped, HandlerState, Goto, Return

\* A handler that moves to where its command can be keeps the type.
LEMMA MoveTypes ==
    ASSUME HandlerTyped(h), NEW c \in Channel
    PROVE  /\ \A at : Suits(at, h[c].cmd, h[c].rx) /\ Goto(c, at) => HandlerTyped(h')
           /\ Return(c) => HandlerTyped(h')
<1>1. Idle \in HandlerState
  BY Zenon DEF Idle, HandlerState
<1>2. ASSUME NEW at, Suits(at, h[c].cmd, h[c].rx), Goto(c, at)
      PROVE  HandlerTyped(h')
  <2>1. at \in HandlerPc
    BY <1>2, Zenon DEF Suits
  <2>2. /\ h'[c].pc = at /\ h'[c].cmd = h[c].cmd /\ h'[c].rx = h[c].rx
        /\ \A d \in Channel \ {c} : h'[d] = h[d]
    BY <1>2, <2>1, Moves, Zenon
  <2>3. h' \in [Channel -> HandlerState]
    BY <1>2, <2>1 DEF HandlerTyped, HandlerState, Goto
  <2> QED BY <1>2, <2>2, <2>3, Zenon DEF HandlerTyped
<1>3. ASSUME Return(c) PROVE HandlerTyped(h')
  BY <1>1, <1>3, Zenon DEF HandlerTyped, Return
<1> QED BY <1>2, <1>3, Zenon

\* The receiver that a track-jpid takes is an unused one.
LEMMA Picks ==
    ASSUME NEW c, \E i \in Streamer : Unused(c, i)
    PROVE  LET i == CHOOSE i \in Streamer : Unused(c, i) IN i \in Streamer /\ Unused(c, i)
BY Zenon

\* What is put into and taken out of the receivers.
LEMMA BoxTypes ==
    ASSUME NEW q \in Boxes, NEW c \in Channel, NEW r \in Receivers
    PROVE  /\ [q EXCEPT ![c][r] = <<>>] \in Boxes
           /\ q[c][r] \in Seq(Message)
           /\ q[c][r] # <<>> => /\ [q EXCEPT ![c][r] = Tail(@)] \in Boxes
                               /\ Head(q[c][r]) \in Message
           /\ \A m \in Message : [q EXCEPT ![c][r] = Append(@, m)] \in Boxes
BY DEF Boxes

\* A streamer that starts, moves on or ends.
LEMMA StreamTypes ==
    ASSUME NEW q \in Streams, NEW c \in Channel, NEW i \in Streamer
    PROVE  /\ q[c][i] \in StreamState
           /\ \A x \in StreamState :
                 /\ [q EXCEPT ![c][i] = x] \in Streams
                 /\ [q EXCEPT ![c][i] = x][c][i] = x
                 /\ \A d \in Channel, j \in Streamer :
                       <<d, j>> # <<c, i>> => [q EXCEPT ![c][i] = x][d][j] = q[d][j]
           /\ \A at \in {"end", "unregister"} :
                 [q EXCEPT ![c][i].pc = at] = [q EXCEPT ![c][i] = [q[c][i] EXCEPT !.pc = at]]
<1>1. q[c][i] \in StreamState
  BY DEF Streams
<1>2. ASSUME NEW x \in StreamState
      PROVE  /\ [q EXCEPT ![c][i] = x] \in Streams
             /\ [q EXCEPT ![c][i] = x][c][i] = x
             /\ \A d \in Channel, j \in Streamer :
                   <<d, j>> # <<c, i>> => [q EXCEPT ![c][i] = x][d][j] = q[d][j]
  BY DEF Streams
<1>3. ASSUME NEW at \in {"end", "unregister"}
      PROVE  [q EXCEPT ![c][i].pc = at] = [q EXCEPT ![c][i] = [q[c][i] EXCEPT !.pc = at]]
  BY DEF Streams
<1> QED BY <1>1, <1>2, <1>3, Zenon

\* What is put into and taken out of a family of queues.
LEMMA QueueTypes ==
    ASSUME NEW D, NEW E, NEW q \in [D -> Seq(E)], NEW d \in D
    PROVE  /\ [q EXCEPT ![d] = <<>>] \in [D -> Seq(E)]
           /\ q[d] # <<>> => /\ [q EXCEPT ![d] = Tail(@)] \in [D -> Seq(E)]
                            /\ Head(q[d]) \in E
           /\ \A e \in E : [q EXCEPT ![d] = Append(@, e)] \in [D -> Seq(E)]
           /\ \A z \in Seq(E) : [q EXCEPT ![d] = @ \o z] \in [D -> Seq(E)]
OBVIOUS

-----------------------------------------------------------------------------
(* Type correctness.                                                       *)

\* The client's steps keep the types.
LEMMA ClientTypeStep ==
    ASSUME Typed, NEW c \in Channel
    PROVE  /\ ClientConnects(c) => Typed'
           /\ \A cmd \in Command : ClientSends(c, cmd) => Typed'
           /\ ClientCloses(c) => Typed'
<1>1. ASSUME ClientConnects(c) PROVE Typed'
  BY <1>1, TcpTypes, Zenon
     DEF Typed, ClientConnects, maps, clientvars, handlervars, sessionvars, idvars, linkvars
<1>2. ASSUME NEW cmd \in Command, ClientSends(c, cmd) PROVE Typed'
  <2>1. budget' \in [Channel -> 0..MaxCommands]
    <3>1. budget \in [Channel -> 0..MaxCommands] /\ MaxCommands \in Nat
      BY ChannelAssumption, Zenon DEF Typed
    <3> QED BY <1>2, <3>1 DEF ClientSends
  <2>2. socket' \in [Channel -> Seq(Command)]
    BY <1>2, QueueTypes, Zenon DEF Typed, ClientSends
  <2> QED BY <1>2, <2>1, <2>2, Zenon
             DEF Typed, ClientSends, maps, clientvars, handlervars, sessionvars, idvars, linkvars
<1>3. ASSUME ClientCloses(c) PROVE Typed'
  BY <1>3, Zenon DEF Typed, ClientCloses, maps, clientvars, handlervars, sessionvars, idvars,
     linkvars
<1> QED BY <1>1, <1>2, <1>3, Zenon

\* The handler's steps keep the types, one action at a time.
LEMMA HandlerTypeStep ==
    ASSUME Typed, Named, NEW c \in Channel, HandlerStep(c)
    PROVE  Typed'
<1>0. /\ HandlerTyped(h) /\ TcpTyped(tcp) /\ UsbTyped(usb) /\ ConnectTyped(connect_map)
      /\ inbox \in Boxes
      /\ h[c].sid \in Id \cup {NoSession} /\ h[c].key \in Key \cup {"none"}
      /\ "handler" \in Receivers /\ Streamer \subseteq Receivers
  BY Zenon DEF Typed, HandlerTyped, HandlerState, Receivers
<1>b. inbox \in Boxes /\ "handler" \in Receivers /\ Streamer \subseteq Receivers
  BY <1>0, Zenon
<1>s. h[c].pc \notin {"idle", "done"} => Suits(h[c].pc, h[c].cmd, h[c].rx)
  BY <1>0 DEF HandlerTyped, Idle
<1>1. ASSUME Recv(c) PROVE Typed'
  <2>1. Head(socket[c]) \in Command /\ socket' \in [Channel -> Seq(Command)]
    BY <1>1, QueueTypes, Zenon DEF Typed, Recv
  <2>2. HandlerTyped(h')
    <3> DEFINE cmd == Head(socket[c])
               x == [Idle EXCEPT !.cmd = cmd,
                        !.pc = IF cmd \in {"list", "waitfor", "keepalive"}
                               THEN "local" ELSE "resolve"]
    <3>1. cmd \in Command
      BY <2>1, Zenon
    <3> HIDE DEF cmd
    <3>2. x \in HandlerState
      BY <3>1, Zenon DEF Idle, HandlerState, HandlerPc
    <3>3. x.cmd = cmd /\ x.pc = IF cmd \in {"list", "waitfor", "keepalive"}
                                THEN "local" ELSE "resolve"
      BY Zenon DEF Idle
    <3>4. Suits(x.pc, x.cmd, x.rx)
      BY <3>1, <3>3, ChannelAssumption DEF Suits, HandlerPc
    <3>5. h' = [h EXCEPT ![c] = x]
      BY <1>1, Zenon DEF Recv, cmd
    <3> HIDE DEF x
    <3> QED BY <1>0, <3>2, <3>4, <3>5, Zenon DEF HandlerTyped
  <2> QED BY <1>1, <2>1, <2>2, Zenon
             DEF Typed, Recv, maps, clientvars, handlervars, sessionvars, idvars, linkvars
<1>2. ASSUME RecvEnd(c) PROVE Typed'
  <2>1. h[c] = Idle
    BY <1>0, <1>2, Zenon DEF HandlerTyped, RecvEnd, At, Suits, HandlerPc, Idle
  <2>2. h' = [h EXCEPT ![c] = [Idle EXCEPT !.pc = "done"]]
    BY <1>2, <2>1, Zenon DEF RecvEnd
  <2>3. [Idle EXCEPT !.pc = "done"] \in HandlerState
    BY Zenon DEF Idle, HandlerState
  <2>4. HandlerTyped(h')
    BY <1>0, <2>2, <2>3, Zenon DEF HandlerTyped
  <2> QED BY <1>2, <2>4, TcpTypes, Zenon
             DEF Typed, RecvEnd, maps, clientvars, handlervars, sessionvars, idvars, linkvars
<1>r. ASSUME ReplyAndEnd(c) PROVE TcpTyped(tcp') /\ HandlerTyped(h')
  BY <1>0, <1>r, TcpTypes, MoveTypes, Zenon DEF ReplyAndEnd
<1>3. ASSUME Local(c) PROVE Typed'
  BY <1>3, <1>r, Zenon DEF Typed, Local, maps, clientvars, handlervars, sessionvars, idvars,
     linkvars
<1>4. ASSUME WaitForGivesUp(c) PROVE Typed'
  BY <1>0, <1>4, MoveTypes, Zenon
     DEF Typed, WaitForGivesUp, maps, clientvars, handlervars, sessionvars, idvars, linkvars
<1>5. ASSUME EnableKeepAlive(c) PROVE Typed'
  BY <1>0, <1>5, MoveTypes, TcpTypes, Zenon
     DEF Typed, EnableKeepAlive, maps, clientvars, handlervars, sessionvars, idvars, linkvars
<1>6. ASSUME Resolve(c) PROVE Typed'
  <2>1. h[c].cmd \in Command /\ h[c].cmd \in Forwarded \cup {"reconnect"}
    BY <1>s, <1>6, Zenon DEF Resolve, At, Suits
  <2>2. HandlerTyped(h')
    <3>1. ASSUME NEW k \in Key, h' = [h EXCEPT ![c].pc = "lookup", ![c].key = k]
          PROVE  HandlerTyped(h')
      <4>1. h \in [Channel -> HandlerState]
        BY <1>0, Zenon DEF HandlerTyped
      <4>2. h' \in [Channel -> HandlerState]
        <5>1. "lookup" \in HandlerPc
          BY Zenon DEF HandlerPc
        <5>2. [h[c] EXCEPT !.pc = "lookup", !.key = k] \in HandlerState
          BY <4>1, <5>1, Zenon DEF HandlerState
        <5>3. h' = [h EXCEPT ![c] = [h[c] EXCEPT !.pc = "lookup", !.key = k]]
          BY <3>1, <4>1, Zenon
        <5> QED BY <4>1, <5>2, <5>3, Zenon
      <4>3. /\ h'[c].pc = "lookup" /\ h'[c].cmd = h[c].cmd /\ h'[c].rx = h[c].rx
            /\ \A d \in Channel \ {c} : h'[d] = h[d]
        BY <3>1, <4>1, Zenon DEF HandlerState
      <4>4. Suits(h'[c].pc, h'[c].cmd, h'[c].rx)
        BY <2>1, <4>3, Zenon DEF Suits, HandlerPc
      <4> QED BY <1>0, <4>2, <4>3, <4>4, Zenon DEF HandlerTyped
    <3>2. CASE Goto(c, "reply")
      BY <1>0, <2>1, <3>2, MoveTypes, Zenon DEF Suits, HandlerPc
    <3>3. Wanted[c] # "any" => Wanted[c] \in Key
      BY ChannelAssumption, Zenon
    <3>4. ConnectedKeys(connect_map) \subseteq Key
      BY <1>0, Zenon DEF ConnectedKeys, ConnectTyped
    <3> QED BY <1>6, <3>1, <3>2, <3>3, <3>4, Zenon DEF Resolve
  <2> QED BY <1>6, <2>2, Zenon DEF Typed, Resolve, maps, clientvars, handlervars, sessionvars,
     idvars, linkvars
<1>7. ASSUME Lookup(c) PROVE Typed'
  <2>1. h[c].cmd \in Command /\ h[c].cmd \in Forwarded \cup {"reconnect"}
    BY <1>s, <1>7, Zenon DEF Lookup, At, Suits
  <2>2. HandlerTyped(h')
    <3>1. CASE h[c].key \in DOMAIN connect_map
      <4> DEFINE sid == connect_map[h[c].key].session_id
                 at == CASE h[c].cmd = "track" -> "register"
                         [] h[c].cmd = "reconnect" -> "drop"
                         [] OTHER -> "send"
      <4>1. h' = [h EXCEPT ![c].sid = sid, ![c].pc = at]
        BY <1>7, <3>1, Zenon DEF Lookup
      <4>2. sid \in Id \cup {NoSession}
        BY <1>0, <3>1, Zenon DEF ConnectTyped
      <4>3. Suits(at, h[c].cmd, h[c].rx)
        BY <2>1, Zenon DEF Suits, HandlerPc
      <4> HIDE DEF sid, at
      <4>4. h \in [Channel -> HandlerState] /\ at \in HandlerPc
        BY <1>0, <4>3, Zenon DEF HandlerTyped, Suits
      <4>5. h' \in [Channel -> HandlerState]
        <5>1. [h[c] EXCEPT !.sid = sid, !.pc = at] \in HandlerState
          BY <4>2, <4>4, Zenon DEF HandlerState
        <5>2. h' = [h EXCEPT ![c] = [h[c] EXCEPT !.sid = sid, !.pc = at]]
          BY <4>1, <4>4, Zenon
        <5> QED BY <4>4, <5>1, <5>2, Zenon
      <4>6. /\ h'[c].pc = at /\ h'[c].cmd = h[c].cmd /\ h'[c].rx = h[c].rx
            /\ \A d \in Channel \ {c} : h'[d] = h[d]
        BY <4>1, <4>4, Zenon DEF HandlerState
      <4> QED BY <1>0, <4>3, <4>5, <4>6, Zenon DEF HandlerTyped
    <3>2. CASE h[c].key \notin DOMAIN connect_map
      <4>1. Goto(c, "reply")
        BY <1>7, <3>2, Zenon DEF Lookup
      <4> QED BY <1>0, <2>1, <4>1, MoveTypes, Zenon DEF Suits, HandlerPc
    <3> QED BY <3>1, <3>2, Zenon
  <2> QED BY <1>7, <2>2, Zenon DEF Typed, Lookup, maps, clientvars, handlervars, sessionvars,
     idvars, linkvars
<1>8. ASSUME Reply(c) PROVE Typed'
  BY <1>8, <1>r, Zenon DEF Typed, Reply, maps, clientvars, handlervars, sessionvars, idvars,
     linkvars
<1>9. ASSUME DropSession(c) PROVE Typed'
  <2>1. Suits("finish", h[c].cmd, h[c].rx)
    BY <1>s, <1>9, Zenon DEF DropSession, At, Suits, HandlerPc
  <2> QED BY <1>0, <1>9, <2>1, MoveTypes, TcpTypes, Zenon
             DEF Typed, DropSession, maps, clientvars, handlervars, sessionvars, idvars, linkvars
<1>10. ASSUME DropEntry(c) PROVE Typed'
  <2>1. Suits("reply", h[c].cmd, h[c].rx)
    BY <1>s, <1>10, Zenon DEF DropEntry, At, Suits, HandlerPc
  <2>2. ConnectTyped(Remove(connect_map, h[c].key))
    BY <1>0, Zenon DEF ConnectTyped, Remove
  <2> QED BY <1>0, <1>10, <2>1, <2>2, MoveTypes, Zenon
             DEF Typed, DropEntry, maps, clientvars, handlervars, sessionvars, idvars, linkvars
<1>11. ASSUME RegisterStream(c) PROVE Typed'
  <2>1. PICK i \in Streamer : /\ usb' = Register(usb, h[c].sid, c, i)
                              /\ inbox' = [inbox EXCEPT ![c][i] = <<>>]
                              /\ h' = [h EXCEPT ![c].pc = "send", ![c].rx = i]
    BY <1>11, Picks, Zenon DEF RegisterStream
  <2>2. HandlerTyped(h')
    <3> DEFINE x == [h[c] EXCEPT !.pc = "send", !.rx = i]
    <3>1. h \in [Channel -> HandlerState] /\ Suits("register", h[c].cmd, h[c].rx)
      BY <1>0, <1>s, <1>11, Zenon DEF HandlerTyped, RegisterStream, At
    <3>2. "send" \in HandlerPc
      BY Zenon DEF HandlerPc
    <3>3. x \in HandlerState /\ x.pc = "send" /\ x.cmd = h[c].cmd /\ x.rx = i
      BY <3>1, <3>2, Zenon DEF HandlerState
    <3>4. Suits(x.pc, x.cmd, x.rx)
      BY <3>1, <3>2, <3>3, Zenon DEF Suits, Forwarded
    <3>5. h' = [h EXCEPT ![c] = x]
      BY <2>1, <3>1, Zenon
    <3> HIDE DEF x
    <3> QED BY <1>0, <3>3, <3>4, <3>5, Zenon DEF HandlerTyped
  <2>3. UsbTyped(usb') /\ inbox' \in Boxes
    BY <1>0, <2>1, UsbTypes, BoxTypes, Zenon
  <2> QED BY <1>11, <2>2, <2>3, Zenon
             DEF Typed, RegisterStream, maps, clientvars, handlervars, sessionvars, idvars, linkvars
<1>18. ASSUME RegisterCollector(c) PROVE Typed'
  <2>1. Suits("collect", h[c].cmd, h[c].rx)
    BY <1>s, <1>18, Zenon DEF RegisterCollector, At, Suits, HandlerPc
  <2>2. HandlerTyped(h')
    BY <1>0, <1>18, <2>1, MoveTypes, Zenon DEF RegisterCollector
  <2>3. UsbTyped(usb') /\ inbox' \in Boxes
    BY <1>0, <1>18, UsbTypes, BoxTypes, Zenon DEF RegisterCollector
  <2> QED BY <1>18, <2>2, <2>3, Zenon
             DEF Typed, RegisterCollector, maps, clientvars, handlervars, sessionvars, idvars,
                linkvars
<1>12. ASSUME Send(c) PROVE Typed'
  <2> DEFINE s == h[c].sid
             r == [cid |-> c, cmd |-> h[c].cmd]
  <2>1. h[c].cmd \in Forwarded /\ Suits("associate", h[c].cmd, h[c].rx) /\ Suits("failed",
     h[c].cmd, h[c].rx)
    BY <1>s, <1>12, Zenon DEF Send, At, Suits, HandlerPc
  <2>2. r \in Request
    BY <2>1, Zenon DEF Request
  <2>3. tcp.session_writers \subseteq Session
    BY <1>0, Zenon DEF TcpTyped, Session
  <2>f. s \in usb.session_senders => feeds[s] \in UsbSession
    BY Zenon DEF Named
  <2> HIDE DEF s, r
  <2>4. /\ outgoing' \in [UsbSession -> Seq(Request)]
        /\ asked' \in [Session -> SUBSET Request]
        /\ HandlerTyped(h')
    <3>1. CASE /\ s \in usb.session_senders
               /\ outgoing' = [outgoing EXCEPT ![feeds[s]] = Append(@, r)]
               /\ Goto(c, "associate")
               /\ UNCHANGED asked
      BY <1>0, <2>1, <2>2, <2>f, <3>1, QueueTypes, MoveTypes, Zenon DEF Typed
    <3>2. CASE /\ s \in tcp.session_writers
               /\ asked' = [asked EXCEPT ![s] = @ \cup {r}]
               /\ Goto(c, "associate")
               /\ UNCHANGED outgoing
      BY <1>0, <2>1, <2>2, <2>3, <3>2, MoveTypes, Zenon DEF Typed
    <3>3. CASE Goto(c, "failed") /\ UNCHANGED <<outgoing, asked>>
      BY <1>0, <2>1, <3>3, MoveTypes, Zenon DEF Typed
    <3> QED BY <1>12, <3>1, <3>2, <3>3, Zenon DEF Send, s, r
  <2> QED BY <1>12, <2>4, Zenon DEF Typed, Send, maps, clientvars, handlervars, sessionvars,
     idvars, linkvars
<1>13. ASSUME SendFailed(c) PROVE Typed'
  <2>1. Suits(IF h[c].cmd = "track" THEN "unregister" ELSE "associate", h[c].cmd, h[c].rx)
    BY <1>s, <1>13, Zenon DEF SendFailed, At, Suits, HandlerPc
  <2>2. HandlerTyped(h')
    BY <1>0, <1>13, <2>1, MoveTypes, Zenon DEF SendFailed
  <2>3. TcpTyped(tcp')
    <3>1. tcp' \in {tcp, MaybeEndChannel(tcp, c)}
      BY <1>13, Zenon DEF SendFailed
    <3> QED BY <1>0, <3>1, TcpTypes, Zenon
  <2> QED BY <1>13, <2>2, <2>3, Zenon
             DEF Typed, SendFailed, maps, clientvars, handlervars, sessionvars, idvars, linkvars
<1>14. ASSUME AssociateChannel(c) PROVE Typed'
  <2>1. h[c].cmd = "uninstall" => Suits("collect_register", h[c].cmd, h[c].rx)
    BY <1>s, <1>14, Zenon DEF AssociateChannel, At, Suits, HandlerPc
  <2>2. HandlerTyped(h')
    BY <1>0, <1>14, <2>1, MoveTypes, Zenon DEF AssociateChannel
  <2>3. stream' \in Streams
    <3> DEFINE x == [pc |-> "recv", sid |-> h[c].sid]
    <3>1. x \in StreamState /\ stream \in Streams
      BY <1>0, Zenon DEF Typed, StreamState
    <3>2. h[c].cmd = "track" => h[c].rx \in Streamer
      BY <1>s, <1>14, Zenon DEF AssociateChannel, At, Suits
    <3> HIDE DEF x
    <3> QED BY <1>14, <3>1, <3>2, StreamTypes, Zenon DEF AssociateChannel, x
  <2> QED BY <1>0, <1>14, <2>2, <2>3, TcpTypes, Zenon
             DEF Typed, AssociateChannel, maps, clientvars, handlervars, sessionvars, idvars,
                linkvars
<1>15. ASSUME Collect(c) PROVE Typed'
  <2>1. Suits("unregister", h[c].cmd, h[c].rx)
    BY <1>s, <1>15, Zenon DEF Collect, At, Suits, HandlerPc
  <2>2. HandlerTyped(h')
    BY <1>0, <1>15, <2>1, MoveTypes, Zenon DEF Collect
  <2>3. inbox' \in Boxes
    <3>1. \/ inbox' = inbox
          \/ /\ inbox[c]["handler"] # <<>>
             /\ inbox' = [inbox EXCEPT ![c]["handler"] = Tail(@)]
      BY <1>15, Zenon DEF Collect
    <3>2. CASE /\ inbox[c]["handler"] # <<>>
               /\ inbox' = [inbox EXCEPT ![c]["handler"] = Tail(@)]
      BY <1>b, <3>2, BoxTypes, Zenon
    <3> QED BY <1>b, <3>1, <3>2, Zenon
  <2> QED BY <1>15, <2>2, <2>3, Zenon
             DEF Typed, Collect, maps, clientvars, handlervars, sessionvars, idvars, linkvars
<1>16. ASSUME UnregisterReceiver(c) PROVE Typed'
  <2>1. Suits("finish", h[c].cmd, h[c].rx)
    BY <1>s, <1>16, Zenon DEF UnregisterReceiver, At, Suits, HandlerPc
  <2>2. HandlerTyped(h')
    BY <1>0, <1>16, <2>1, MoveTypes, Zenon DEF UnregisterReceiver
  <2>3. inbox' \in Boxes
    <3>1. (IF h[c].cmd = "track" THEN h[c].rx ELSE "handler") \in Receivers
      BY <1>0, <1>s, <1>16, Zenon DEF UnregisterReceiver, At, Suits
    <3> QED BY <1>0, <1>16, <3>1, BoxTypes, Zenon DEF UnregisterReceiver
  <2> QED BY <1>0, <1>16, <2>2, <2>3, UsbTypes, Zenon DEF Typed, UnregisterReceiver, maps,
             clientvars, handlervars, sessionvars, idvars, linkvars
<1>17. ASSUME FinishCollect(c) PROVE Typed'
  BY <1>0, <1>17, MoveTypes, TcpTypes, Zenon
     DEF Typed, FinishCollect, maps, clientvars, handlervars, sessionvars, idvars, linkvars
<1> QED BY Zenon, <1>1, <1>2, <1>3, <1>4, <1>5, <1>6, <1>7, <1>8, <1>9, <1>10, <1>11, <1>12, <1>13,
           <1>14, <1>15, <1>16, <1>17, <1>18 DEF HandlerStep

\* The streamer's steps keep the types.
LEMMA StreamTypeStep ==
    ASSUME Typed, NEW c \in Channel, NEW i \in Streamer, StreamStep(c, i)
    PROVE  Typed'
<1>0. /\ TcpTyped(tcp) /\ UsbTyped(usb) /\ inbox \in Boxes /\ stream \in Streams
      /\ i \in Receivers
  BY Zenon DEF Typed, Receivers
<1>s. stream[c][i].sid \in Id \cup {NoSession} /\ NoStream \in StreamState
      /\ \A at \in {"end", "unregister"} : [stream[c][i] EXCEPT !.pc = at] \in StreamState
  <2>1. stream[c][i] \in StreamState
    BY <1>0, StreamTypes, Zenon
  <2> QED BY <2>1, Zenon DEF StreamState, NoStream
<1>g. \A at \in {"end", "unregister"} :
          stream' = [stream EXCEPT ![c][i].pc = at] => stream' \in Streams
  <2> SUFFICES ASSUME NEW at \in {"end", "unregister"},
                      stream' = [stream EXCEPT ![c][i].pc = at]
               PROVE  stream' \in Streams
    BY Zenon
  <2> DEFINE x == [stream[c][i] EXCEPT !.pc = at]
  <2>1. x \in StreamState
    BY <1>s, Zenon
  <2>2. stream' = [stream EXCEPT ![c][i] = x]
    BY <1>0, StreamTypes, Zenon
  <2> HIDE DEF x
  <2>3. \A y \in StreamState : [stream EXCEPT ![c][i] = y] \in Streams
    BY <1>0, StreamTypes, Zenon
  <2> QED BY <2>1, <2>2, <2>3, Zenon
<1>1. ASSUME StreamRecv(c, i) PROVE Typed'
  <2>1. \/ inbox' = inbox
        \/ /\ inbox[c][i] # <<>>
           /\ inbox' = [inbox EXCEPT ![c][i] = Tail(@)]
    BY <1>1, Zenon DEF StreamRecv
  <2>2. inbox' \in Boxes
    <3>1. CASE /\ inbox[c][i] # <<>>
               /\ inbox' = [inbox EXCEPT ![c][i] = Tail(@)]
      BY <1>0, <3>1, BoxTypes, Zenon
    <3> QED BY <1>0, <2>1, <3>1, Zenon
  <2>3. stream' = stream \/ stream' = [stream EXCEPT ![c][i].pc = "end"]
    BY <1>1, Zenon DEF StreamRecv
  <2>4. stream' \in Streams
    BY <1>0, <1>g, <2>3, Zenon
  <2> QED BY <1>1, <2>2, <2>4, Zenon
             DEF Typed, StreamRecv, maps, clientvars, handlervars, sessionvars, idvars, linkvars
<1>2. ASSUME StreamEnds(c, i) PROVE Typed'
  <2>1. stream' \in Streams
    BY <1>g, <1>2, Zenon DEF StreamEnds
  <2> QED BY <1>0, <1>2, <2>1, TcpTypes, Zenon
             DEF Typed, StreamEnds, maps, clientvars, handlervars, sessionvars, idvars, linkvars
<1>3. ASSUME StreamUnregisters(c, i) PROVE Typed'
  <2>1. stream' \in Streams
    BY <1>0, <1>s, <1>3, StreamTypes, Zenon DEF StreamUnregisters
  <2>2. inbox' \in Boxes
    BY <1>0, <1>3, BoxTypes, Zenon DEF StreamUnregisters
  <2>3. UsbTyped(usb')
    BY <1>0, <1>s, <1>3, UsbTypes, Zenon DEF StreamUnregisters
  <2> QED BY <1>0, <1>3, <2>1, <2>2, <2>3, Zenon
             DEF Typed, StreamUnregisters, maps, clientvars, handlervars, sessionvars, idvars,
                linkvars
<1> QED BY <1>1, <1>2, <1>3, Zenon DEF StreamStep

\* The steps of the tasks of a USB session keep the types.
LEMMA UsbTypeStep ==
    ASSUME Typed, Named, NEW s \in UsbSession, UsbStep(s)
    PROVE  Typed'
<1>0. /\ TcpTyped(tcp) /\ UsbTyped(usb) /\ ConnectTyped(connect_map) /\ spc \in SessionPcs
      /\ s \in Session /\ KeyOf[s] \in Key
      /\ {"Ready", "Connected", "Offline"} \subseteq ConnStatus
      /\ Assigned[s] \subseteq Id
  BY ChannelAssumption, Zenon DEF Typed, Session, ConnStatus
<1>g. \A at \in {"open", "gone", "connected", "live", "wait_writer", "close_channels"} :
          SessionGoto(s, at) => spc' \in SessionPcs
  BY <1>0, Zenon DEF SessionGoto, SessionPcs
<1>1. ASSUME SessionOpens(s) PROVE Typed'
  BY <1>0, <1>g, <1>1, ConnectTypes, Zenon
     DEF Typed, SessionOpens, maps, clientvars, handlervars, sessionvars, idvars, linkvars
<1>2. ASSUME SessionFails(s) PROVE Typed'
  BY <1>0, <1>g, <1>2, ConnectTypes, Zenon
     DEF Typed, SessionFails, maps, clientvars, handlervars, sessionvars, idvars, linkvars
<1>3. ASSUME SessionConnected(s) PROVE Typed'
  <2>1. /\ ConnectTyped(connect_map')
        /\ session_id' \in [Session -> Id \cup {NoSession}]
    <3>1. PICK i \in Id : /\ session_id' = [session_id EXCEPT ![s] = i]
                          /\ connect_map' = Put(connect_map, KeyOf[s], DaemonInfo(i, "Connected"))
      BY <1>0, <1>3, Zenon DEF SessionConnected
    <3> QED BY <1>0, <3>1, ConnectTypes, Zenon DEF Typed
  <2> QED BY <1>g, <1>3, <2>1, Zenon DEF Typed, SessionConnected, maps, clientvars, handlervars,
             sessionvars, idvars, linkvars
<1>4. ASSUME StartSession(s) PROVE Typed'
  <2>1. session_id[s] \in Id
    BY <1>4, Zenon DEF Named, StartSession, SessionAt
  <2>2. UsbTyped(usb')
    BY <1>0, <1>4, <2>1, Zenon DEF StartSession, UsbTyped, IsRecord, StartUsbSession
  <2>3. feeds' \in [Id -> UsbSession \cup {NoSession}]
    BY <1>4, Zenon DEF Typed, StartSession
  <2> QED BY <1>0, <1>g, <1>4, <2>2, <2>3, Zenon
             DEF Typed, StartSession, maps, clientvars, handlervars, sessionvars, idvars, linkvars
<1>5. ASSUME Write(s) PROVE Typed'
  <2>1. outgoing' \in [UsbSession -> Seq(Request)] /\ Head(outgoing[s]) \in Request
    BY <1>5, QueueTypes, Zenon DEF Typed, Write
  <2>2. asked' \in [Session -> SUBSET Request]
    BY <1>0, <1>5, <2>1, Zenon DEF Typed, Write
  <2> QED BY <1>5, <2>1, <2>2, Zenon
             DEF Typed, Write, maps, clientvars, handlervars, sessionvars, idvars, linkvars
<1>6. ASSUME WriteFails(s) PROVE Typed'
  BY <1>6, Zenon DEF Typed, WriteFails, maps, clientvars, handlervars, sessionvars, idvars, linkvars
<1>7. ASSUME WriterEnds(s) PROVE Typed'
  <2>1. UsbTyped(usb')
    BY <1>0, <1>7, Zenon DEF WriterEnds, UsbTyped, IsRecord, EndUsbSession
  <2>2. outgoing' \in [UsbSession -> Seq(Request)]
    BY <1>7, QueueTypes, Zenon DEF Typed, WriterEnds
  <2> QED BY <1>7, <2>1, <2>2, Zenon
             DEF Typed, WriterEnds, maps, clientvars, handlervars, sessionvars, idvars, linkvars
<1>8. ASSUME EndSession(s) PROVE Typed'
  <2>1. UsbTyped(usb')
    BY <1>0, <1>8, Zenon DEF EndSession, UsbTyped, IsRecord, EndSessionWithCleanup
  <2> QED BY <1>g, <1>8, <2>1, Zenon
             DEF Typed, EndSession, maps, clientvars, handlervars, sessionvars, idvars, linkvars
<1>9. ASSUME WriterJoined(s) PROVE Typed'
  BY <1>g, <1>9, Zenon DEF Typed, WriterJoined, maps, clientvars, handlervars, sessionvars,
     idvars, linkvars
<1>10. ASSUME CloseChannels(s) PROVE Typed'
  <2>1. TcpTyped(tcp')
    BY <1>0, <1>10, Zenon
       DEF CloseChannels, TcpTyped, IsRecord, CloseSessionChannels, ChannelsOf
  <2> QED BY <1>g, <1>10, <2>1, Zenon
             DEF Typed, CloseChannels, maps, clientvars, handlervars, sessionvars, idvars, linkvars
<1> QED BY <1>1, <1>2, <1>3, <1>4, <1>5, <1>6, <1>7, <1>8, <1>9, <1>10, Zenon
        DEF UsbStep, WriterStep, CleanupStep

\* The steps of a TCP session keep the types.
LEMMA TcpTypeStep ==
    ASSUME Typed, NEW s \in TcpSession, TcpStep(s)
    PROVE  Typed'
<1>0. /\ TcpTyped(tcp) /\ ConnectTyped(connect_map) /\ spc \in SessionPcs
      /\ s \in Session /\ s \in Id /\ KeyOf[s] \in Key /\ "Connected" \in ConnStatus
  BY ChannelAssumption, Zenon DEF Typed, Session, ConnStatus
<1>g. \A at \in {"open", "gone", "live"} : SessionGoto(s, at) => spc' \in SessionPcs
  BY <1>0, Zenon DEF SessionGoto, SessionPcs
<1>t. TcpTyped(StartTcpSession(tcp, s)) /\ TcpTyped(EndTcpSession(tcp, s))
  BY <1>0, Zenon DEF TcpTyped, IsRecord, StartTcpSession, EndTcpSession
<1>1. ASSUME TcpStart(s) PROVE Typed'
  BY <1>g, <1>t, <1>1, Zenon DEF Typed, TcpStart, maps, clientvars, handlervars, sessionvars,
     idvars, linkvars
<1>2. ASSUME TcpFails(s) PROVE Typed'
  BY <1>g, <1>t, <1>2, Zenon DEF Typed, TcpFails, maps, clientvars, handlervars, sessionvars,
     idvars, linkvars
<1>3. ASSUME TcpConnected(s) PROVE Typed'
  BY <1>0, <1>g, <1>3, ConnectTypes, Zenon
     DEF Typed, TcpConnected, maps, clientvars, handlervars, sessionvars, idvars, linkvars
<1>4. ASSUME TcpEnd(s) PROVE Typed'
  BY <1>g, <1>t, <1>4, Zenon DEF Typed, TcpEnd, maps, clientvars, handlervars, sessionvars,
     idvars, linkvars
<1> QED BY <1>1, <1>2, <1>3, <1>4, Zenon DEF TcpStep

\* The steps of a daemon and of the reader of a session keep the types.
LEMMA ReaderTypeStep ==
    ASSUME Typed, NEW s \in Session
    PROVE  /\ \A r \in Request : DaemonAnswers(s, r) => Typed'
           /\ Route(s) => Typed'
           /\ Deliver(s) => Typed'
           /\ ReadError(s) => Typed'
<1>0. /\ UsbTyped(usb) /\ TcpTyped(tcp) /\ ConnectTyped(connect_map) /\ inbox \in Boxes
      /\ incoming \in [Session -> Seq(Message)] /\ spc \in SessionPcs
      /\ routing[s] \in Message \cup {NoMessage} /\ KeyOf[s] \in Key
  BY ChannelAssumption, Zenon DEF Typed
<1>1. ASSUME NEW r \in Request, DaemonAnswers(s, r) PROVE Typed'
  <2>1. Replies(r.cid, r.cmd) \subseteq Seq(Message)
    <3>1. r.cid \in Channel
      BY <1>1, Zenon DEF Request
    <3>2. [cid |-> r.cid, kind |-> "data"] \in Message /\ [cid |-> r.cid,
       kind |-> "close"] \in Message
      BY <3>1, Zenon DEF Message
    <3>3. ASSUME NEW a \in Message, NEW b \in Message
          PROVE  <<a>> \in Seq(Message) /\ <<a, b>> \in Seq(Message)
      BY SMTT(20)
    <3> QED BY <3>2, <3>3, Zenon DEF Replies
  <2>2. incoming' \in [Session -> Seq(Message)]
    BY <1>0, <1>1, <2>1, QueueTypes DEF DaemonAnswers
  <2>3. asked' \in [Session -> SUBSET Request]
    BY <1>1, Zenon DEF Typed, DaemonAnswers
  <2> QED BY <1>1, <2>2, <2>3, Zenon
             DEF Typed, DaemonAnswers, maps, clientvars, handlervars, sessionvars, idvars, linkvars
<1>2. ASSUME Route(s) PROVE Typed'
  <2> DEFINE m == Head(incoming[s])
  <2>1. incoming' \in [Session -> Seq(Message)] /\ m \in Message
    BY <1>0, <1>2, QueueTypes, Zenon DEF Route
  <2>2. m.cid \in Channel
    BY <2>1, Zenon DEF Message
  <2>3. \/ /\ Registered(usb, session_id[s], m.cid)
           /\ inbox' = [inbox EXCEPT
                 ![m.cid][usb.response_channels[<<session_id[s], m.cid>>]] = Append(@, m)]
           /\ routing' = routing
        \/ inbox' = inbox /\ routing' = [routing EXCEPT ![s] = m]
    BY <1>2, Zenon DEF Route
  <2> HIDE DEF m
  <2>4. Registered(usb, session_id[s], m.cid)
           => usb.response_channels[<<session_id[s], m.cid>>] \in Receivers
    BY <1>0, Zenon DEF UsbTyped, Registered
  <2>5. inbox' \in Boxes
    <3>1. inbox \in Boxes
      BY <1>0, Zenon
    <3>2. \/ inbox' = inbox
          \/ \E x \in Receivers : inbox' = [inbox EXCEPT ![m.cid][x] = Append(@, m)]
      BY <2>3, <2>4, Zenon
    <3>3. ASSUME NEW x \in Receivers, inbox' = [inbox EXCEPT ![m.cid][x] = Append(@, m)]
          PROVE  inbox' \in Boxes
      BY <2>1, <2>2, <3>1, <3>3, BoxTypes, Zenon
    <3> QED BY <3>1, <3>2, <3>3, Zenon
  <2>6. routing' \in [Session -> Message \cup {NoMessage}]
    BY <2>1, <2>3, Zenon DEF Typed
  <2> QED BY <1>2, <2>1, <2>5, <2>6, Zenon
             DEF Typed, Route, maps, clientvars, handlervars, sessionvars, idvars, linkvars
<1>3. ASSUME Deliver(s) PROVE Typed'
  <2>1. routing[s] \in Message
    BY <1>0, <1>3, Zenon DEF Deliver
  <2>2. TcpTyped(tcp')
    BY <1>0, <1>3, <2>1, TcpTypes, Zenon DEF Deliver, Message
  <2> QED BY <1>3, <2>2, Zenon DEF Typed, Deliver, maps, clientvars, handlervars, sessionvars,
     idvars, linkvars
<1>4. ASSUME ReadError(s) PROVE Typed'
  <2>1. incoming' \in [Session -> Seq(Message)]
    BY <1>0, <1>4, QueueTypes, Zenon DEF ReadError
  <2>2. asked' \in [Session -> SUBSET Request]
    BY <1>4, Zenon DEF Typed, ReadError
  <2>3. spc' \in SessionPcs
    BY <1>0, <1>4, ZenonT(30) DEF ReadError, SessionGoto, SessionPcs
  <2> QED BY <1>0, <1>4, <2>1, <2>2, <2>3, ConnectTypes, Zenon
             DEF Typed, ReadError, maps, clientvars, handlervars, sessionvars, idvars, linkvars
<1> QED BY <1>1, <1>2, <1>3, <1>4, Zenon

\* The parts give the type invariant that the runs check.
LEMMA TypedIsTypeOK == Typed => TypeOK
<1> SUFFICES ASSUME Typed PROVE TypeOK
  BY Zenon
<1>1. ASSUME NEW c \in Channel
      PROVE  \/ h[c] = Idle
             \/ h[c].pc = "done"
             \/ h[c] \in [pc : HandlerPc, cmd : Command, key : Key \cup {"none"},
                          sid : Id \cup {NoSession}, rx : Streamer \cup {"none"}]
  <2>1. h[c] \in HandlerState
    BY Zenon DEF Typed, HandlerTyped
  <2>2. CASE Suits(h[c].pc, h[c].cmd, h[c].rx)
    BY <2>1, <2>2, Zenon DEF Suits, HandlerState
  <2> QED BY <2>2, Zenon DEF Typed, HandlerTyped, Idle
<1>2. /\ DOMAIN connect_map \subseteq Key
      /\ \A k \in DOMAIN connect_map :
            connect_map[k] \in [session_id : Id \cup {NoSession}, conn_status : ConnStatus]
  BY Zenon DEF Typed, ConnectTyped
<1> QED BY <1>1, <1>2, Zenon DEF Typed, TypeOK, TcpTyped, UsbTyped, Boxes, Streams,
        StreamState, SessionPcs

\* They hold when the server starts.
LEMMA TypedInit == Init => Typed /\ Named
<1> SUFFICES ASSUME Init PROVE Typed /\ Named
  BY Zenon
<1>1. ConnectTyped(connect_map)
  BY Zenon DEF Init, ConnectTyped, EmptyMap
<1>2. TcpTyped(tcp)
  BY Zenon DEF Init, TcpTyped, IsRecord, EmptyTcpMap, EmptyMap
<1>3. UsbTyped(usb)
  BY Zenon DEF Init, UsbTyped, IsRecord, EmptyUsbMap, EmptyMap
<1>4. HandlerTyped(h)
  BY Zenon DEF Init, HandlerTyped, HandlerState, Idle
<1>5. inbox \in Boxes /\ spc \in SessionPcs
  BY DEF Init, Boxes, SessionPcs
<1>8. stream \in Streams
  BY Zenon DEF Init, Streams, StreamState, NoStream
<1>9. /\ session_id \in [Session -> Id \cup {NoSession}]
      /\ feeds \in [Id -> UsbSession \cup {NoSession}]
  BY ChannelAssumption, Zenon DEF Init, Session
<1>7. Named
  <2>1. usb.session_senders = {}
    BY Zenon DEF Init, EmptyUsbMap
  <2> QED BY <2>1, ChannelAssumption, Zenon DEF Init, Named, Session
<1>6. budget \in [Channel -> 0..MaxCommands]
  BY ChannelAssumption DEF Init
<1> QED BY <1>1, <1>2, <1>3, <1>4, <1>5, <1>6, <1>7, <1>8, <1>9 DEF Init, Typed

\* Every step keeps the names of the sessions right.
LEMMA NamedStep ==
    ASSUME Typed, Named, Next
    PROVE  Named'
<1>0. /\ UsbTyped(usb) /\ spc \in SessionPcs
      /\ session_id \in [Session -> Id \cup {NoSession}]
      /\ feeds \in [Id -> UsbSession \cup {NoSession}]
      /\ usb.session_senders \subseteq Id /\ NoSession \notin Id
      /\ UsbSession \subseteq Session /\ TcpSession \subseteq Session
      /\ UsbSession \cap TcpSession = {}
  BY ChannelAssumption, Zenon DEF Typed, UsbTyped, Session
<1>q. ASSUME usb'.session_senders \subseteq usb.session_senders,
             UNCHANGED <<spc, session_id, feeds>>
      PROVE  Named'
  BY <1>q, Zenon DEF Named
<1>1. ASSUME NEW c \in Channel, HandlerStep(c) PROVE Named'
  <2>1. usb'.session_senders = usb.session_senders
    <3>1. CASE RegisterStream(c) \/ RegisterCollector(c)
      <4>1. PICK s, r : usb' = Register(usb, s, c, r)
        BY <3>1, Zenon DEF RegisterStream, RegisterCollector
      <4>2. Register(usb, s, c, r).session_senders = usb.session_senders
        BY <1>0, Zenon DEF UsbTyped, IsRecord, Register
      <4> QED BY <4>1, <4>2, Zenon
    <3>3. CASE UnregisterReceiver(c)
      BY <1>0, <3>3, UnregisterSets DEF UnregisterReceiver
    <3>4. CASE ~RegisterStream(c) /\ ~RegisterCollector(c) /\ ~UnregisterReceiver(c)
      <4>1. usb' = usb
        BY <1>1, <3>4, ZenonT(30)
           DEF HandlerStep, Recv, RecvEnd, Local, WaitForGivesUp, EnableKeepAlive, Resolve,
           Lookup, Reply, DropSession, DropEntry, Send, SendFailed, AssociateChannel, Collect,
           FinishCollect, maps
      <4> QED BY <4>1, Zenon
    <3> QED BY <3>1, <3>3, <3>4, Zenon
  <2>2. UNCHANGED <<spc, session_id, feeds>>
    BY <1>1, ZenonT(30)
       DEF HandlerStep, Recv, RecvEnd, Local, WaitForGivesUp, EnableKeepAlive, Resolve, Lookup,
       Reply, DropSession, DropEntry, RegisterStream, RegisterCollector, Send, SendFailed,
       AssociateChannel, Collect, UnregisterReceiver, FinishCollect, sessionvars, idvars
  <2> QED BY <1>q, <2>1, <2>2, Zenon
<1>2. ASSUME NEW c \in Channel, NEW i \in Streamer, StreamStep(c, i) PROVE Named'
  <2>1. usb' = usb \/ \E s : usb' = Unregister(usb, s, c)
    BY <1>2, Zenon DEF StreamStep, StreamRecv, StreamEnds, StreamUnregisters, maps
  <2>2. usb'.session_senders = usb.session_senders
    <3>1. CASE usb' = usb
      BY <3>1, Zenon
    <3>2. ASSUME NEW s, usb' = Unregister(usb, s, c)
          PROVE  usb'.session_senders = usb.session_senders
      <4>1. Unregister(usb, s, c).session_senders = usb.session_senders
        BY <1>0, UnregisterSets
      <4> QED BY <3>2, <4>1, Zenon
    <3> QED BY <2>1, <3>1, <3>2, Zenon
  <2>3. UNCHANGED <<spc, session_id, feeds>>
    BY <1>2, Zenon DEF StreamStep, StreamRecv, StreamEnds, StreamUnregisters, sessionvars, idvars
  <2> QED BY <1>q, <2>2, <2>3, Zenon
<1>3. ASSUME NEW c \in Channel,
             ClientConnects(c) \/ ClientCloses(c) \/ \E cmd \in Command : ClientSends(c, cmd)
      PROVE  Named'
  <2>1. UNCHANGED <<usb, spc, session_id, feeds>>
    BY <1>3, Zenon DEF ClientConnects, ClientCloses, ClientSends, maps, sessionvars, idvars
  <2> QED BY <1>q, <2>1, Zenon
<1>m. ASSUME NEW s \in Session, NEW at, SessionGoto(s, at),
             at \notin {"new", "open", "connected"} \/ (at = "open" /\ spc[s] = "new"),
             UNCHANGED <<session_id, feeds>>,
             usb'.session_senders \subseteq usb.session_senders
      PROVE  Named'
  <2>1. spc'[s] = at /\ \A u \in Session \ {s} : spc'[u] = spc[u]
    BY <1>0, <1>m, Zenon DEF SessionGoto, SessionPcs
  <2> QED BY <1>0, <1>m, <2>1, Zenon DEF Named
<1>4. ASSUME NEW s \in UsbSession, UsbStep(s) PROVE Named'
  <2>s. s \in Session
    BY <1>0, Zenon
  <2>1. CASE SessionOpens(s)
    BY <1>m, <2>1, <2>s, Zenon DEF SessionOpens, SessionAt, idvars
  <2>2. CASE SessionFails(s)
    BY <1>m, <2>2, <2>s, Zenon DEF SessionFails, idvars
  <2>3. CASE SessionConnected(s)
    <3>1. PICK i \in Assigned[s] : session_id' = [session_id EXCEPT ![s] = i]
      BY <2>3, Zenon DEF SessionConnected
    <3>2. i \in Id
      BY <3>1, ChannelAssumption, Zenon
    <3>3. /\ session_id'[s] = i /\ \A u \in Session \ {s} : session_id'[u] = session_id[u]
          /\ spc'[s] = "connected" /\ \A u \in Session \ {s} : spc'[u] = spc[u]
      BY <1>0, <2>3, <2>s, <3>1, Zenon DEF SessionConnected, SessionGoto, SessionPcs
    <3>4. session_id[s] = NoSession /\ UNCHANGED <<usb, feeds>>
      BY <2>3, Zenon DEF SessionConnected, SessionAt, Named
    <3>5. \A j \in usb.session_senders : feeds[j] \in UsbSession /\ session_id'[feeds[j]] = j
      <4> SUFFICES ASSUME NEW j \in usb.session_senders
                   PROVE  feeds[j] \in UsbSession /\ session_id'[feeds[j]] = j
        BY Zenon
      <4>1. feeds[j] \in UsbSession /\ session_id[feeds[j]] = j /\ j # NoSession
        BY <1>0, Zenon DEF Named
      <4>2. feeds[j] # s
        BY <3>4, <4>1, Zenon
      <4> QED BY <1>0, <3>3, <4>1, <4>2, Zenon
    <3> QED BY <1>0, <3>2, <3>3, <3>4, <3>5, Zenon DEF Named
  <2>4. CASE StartSession(s)
    <3>1. PICK i \in Id : i = session_id[s]
      BY <2>4, Zenon DEF StartSession, SessionAt, Named
    <3>2. /\ usb'.session_senders = usb.session_senders \cup {i}
          /\ feeds'[i] = s /\ \A j \in Id \ {i} : feeds'[j] = feeds[j]
      BY <1>0, <2>4, <3>1, SessionSets, Zenon DEF StartSession
    <3>3. /\ spc'[s] = "live" /\ \A u \in Session \ {s} : spc'[u] = spc[u]
          /\ session_id' = session_id
      BY <1>0, <2>4, <2>s, Zenon DEF StartSession, SessionGoto, SessionPcs
    <3>4. \A j \in usb'.session_senders : feeds'[j] \in UsbSession /\ session_id[feeds'[j]] = j
      BY <1>0, <3>1, <3>2, Zenon DEF Named
    <3> QED BY <1>0, <3>3, <3>4, Zenon DEF Named
  <2>5. CASE WriterStep(s)
    <3>1. usb' = usb \/ usb' = EndUsbSession(usb, session_id[s])
      BY <2>5, Zenon DEF WriterStep, Write, WriteFails, WriterEnds, maps
    <3>2. usb'.session_senders \subseteq usb.session_senders
      BY <1>0, <3>1, SessionSets
    <3>3. UNCHANGED <<spc, session_id, feeds>>
      BY <2>5, Zenon DEF WriterStep, Write, WriteFails, WriterEnds, sessionvars, idvars
    <3> QED BY <1>q, <3>2, <3>3, Zenon
  <2>6. CASE CleanupStep(s)
    <3>1. usb' = usb \/ usb' = EndSessionWithCleanup(usb, session_id[s])
      BY <2>6, Zenon DEF CleanupStep, EndSession, WriterJoined, CloseChannels, maps
    <3>2. usb'.session_senders \subseteq usb.session_senders
      BY <1>0, <3>1, SessionSets
    <3>3. /\ UNCHANGED <<session_id, feeds>>
          /\ \E at \in {"wait_writer", "close_channels", "gone"} : SessionGoto(s, at)
      BY <2>6, Zenon DEF CleanupStep, EndSession, WriterJoined, CloseChannels, idvars
    <3> QED BY <1>m, <2>s, <3>2, <3>3, Zenon
  <2> QED BY <1>4, <2>1, <2>2, <2>3, <2>4, <2>5, <2>6, Zenon DEF UsbStep
<1>5. ASSUME NEW s \in TcpSession, TcpStep(s) PROVE Named'
  <2>1. /\ UNCHANGED <<usb, session_id, feeds>>
        /\ \E at \in {"gone", "live", "open"} : SessionGoto(s, at)
    BY <1>5, Zenon DEF TcpStep, TcpStart, TcpFails, TcpConnected, TcpEnd, idvars
  <2>2. \A u \in UsbSession : spc'[u] = spc[u]
    BY <1>0, <2>1, Zenon DEF SessionGoto, SessionPcs
  <2> QED BY <1>0, <2>1, <2>2, Zenon DEF Named
<1>6. ASSUME NEW s \in Session,
             Route(s) \/ Deliver(s) \/ ReadError(s) \/ \E r \in Request : DaemonAnswers(s, r)
      PROVE  Named'
  <2>1. CASE ReadError(s)
    BY <1>m, <2>1, Zenon DEF ReadError, idvars
  <2>2. CASE ~ReadError(s)
    <3>1. UNCHANGED <<usb, spc, session_id, feeds>>
      BY <1>6, <2>2, Zenon DEF Route, Deliver, DaemonAnswers, maps, sessionvars, idvars
    <3> QED BY <1>q, <3>1, Zenon
  <2> QED BY <2>1, <2>2, Zenon
<1> QED BY <1>1, <1>2, <1>3, <1>4, <1>5, <1>6, Zenon DEF Next

\* Every step keeps both.
LEMMA TypedStep ==
    ASSUME Typed, Named, [Next]_vars
    PROVE  Typed' /\ Named'
<1>1. CASE UNCHANGED vars
  BY <1>1, Zenon DEF Typed, Named, vars, maps, clientvars, handlervars, sessionvars, idvars,
     linkvars
<1>2. CASE Next
  <2>1. Typed'
    BY Zenon, <1>2, ClientTypeStep, HandlerTypeStep, StreamTypeStep, UsbTypeStep, TcpTypeStep,
       ReaderTypeStep DEF Next
  <2> QED BY <1>2, <2>1, NamedStep, Zenon
<1> QED BY <1>1, <1>2, Zenon

\* The types of ServerChannels hold in every reachable state: in particular
\* a writer is only ever registered for a session of its own kind, and a
\* receiver for the handler or the streamer of a channel (TcpMapInner and
\* UsbMapInner of server.rs).
THEOREM ChannelTypes == Spec => []TypeOK
<1>1. Spec => [](Typed /\ Named)
  BY TypedInit, TypedStep, PTL DEF Spec
<1> QED BY <1>1, TypedIsTypeOK, PTL

-----------------------------------------------------------------------------
(* Requests reach the device that was named.                               *)

\* A session of device k goes, or went, by the id i.
Belongs(ids, i, k) == \E s \in Session : ids[s] = i /\ KeyOf[s] = k

\* An entry of connect_map holds an id of its own device; a handler keeps the
\* key its client asked for, and an id of that device; the requests on their
\* way to a daemon are for a device that its session shares its id with.
KeysRight(m, ids) ==
    \A k \in DOMAIN m : m[k].session_id \in Id => Belongs(ids, m[k].session_id, k)

HandlerRight(c, x, ids) ==
    /\ x.pc \in {"lookup", "register", "send"} => Wanted[c] \in {x.key, "any"}
    /\ x.pc \in {"register", "send"} /\ x.sid \in Id => Belongs(ids, x.sid, x.key)

RequestRight(r, i, ids) ==
    i \in Id /\ (Wanted[r.cid] = "any" \/ Belongs(ids, i, Wanted[r.cid]))

AskedRight(a, ids) == \A s \in Session : \A r \in a[s] : RequestRight(r, ids[s], ids)

QueuedRight(q, ids) ==
    \A s \in UsbSession : \A i \in DOMAIN q[s] : RequestRight(q[s][i], ids[s], ids)

Directed ==
    /\ KeysRight(connect_map, session_id)
    /\ \A c \in Channel : HandlerRight(c, h[c], session_id)
    /\ AskedRight(asked, session_id)
    /\ QueuedRight(outgoing, session_id)

\* All this outlives a session that takes an id.
LEMMA RightGrows ==
    ASSUME NEW old, NEW new, \A s \in Session : old[s] \in Id => new[s] = old[s]
    PROVE  /\ \A i \in Id : \A k : Belongs(old, i, k) => Belongs(new, i, k)
           /\ \A m : KeysRight(m, old) => KeysRight(m, new)
           /\ \A c, x : HandlerRight(c, x, old) => HandlerRight(c, x, new)
           /\ \A a : AskedRight(a, old) => AskedRight(a, new)
           /\ \A q : QueuedRight(q, old) => QueuedRight(q, new)
<1>1. \A i \in Id : \A k : Belongs(old, i, k) => Belongs(new, i, k)
  BY Zenon DEF Belongs
<1>2. ASSUME NEW r, NEW s \in Session, RequestRight(r, old[s], old)
      PROVE  RequestRight(r, new[s], new)
  BY <1>1, <1>2, Zenon DEF RequestRight
<1>3. ASSUME NEW m, KeysRight(m, old) PROVE KeysRight(m, new)
  BY <1>1, <1>3, Zenon DEF KeysRight
<1>4. ASSUME NEW c, NEW x, HandlerRight(c, x, old) PROVE HandlerRight(c, x, new)
  BY <1>1, <1>4, Zenon DEF HandlerRight
<1>5. ASSUME NEW a, AskedRight(a, old) PROVE AskedRight(a, new)
  BY <1>2, <1>5, Zenon DEF AskedRight
<1>6. ASSUME NEW q, QueuedRight(q, old) PROVE QueuedRight(q, new)
  BY <1>2, <1>6, Zenon DEF QueuedRight, Session
<1> QED BY <1>1, <1>3, <1>4, <1>5, <1>6, Zenon

\* The methods of ConnectMap, as the tasks of a session call them.
LEMMA KeysStayRight ==
    ASSUME NEW m, NEW ids, ConnectTyped(m), KeysRight(m, ids), NEW k
    PROVE  /\ KeysRight(Remove(m, k), ids)
           /\ KeysRight(UpdateStatus(m, k, "Offline"), ids)
           /\ KeysRight(Put(m, k, DaemonInfo(NoSession, "Ready")), ids)
           /\ \A i : Belongs(ids, i, k) =>
                 KeysRight(Put(m, k, DaemonInfo(i, "Connected")), ids)
<1>1. KeysRight(Remove(m, k), ids)
  BY Zenon DEF KeysRight, Remove
<1>2. KeysRight(UpdateStatus(m, k, "Offline"), ids)
  BY Zenon DEF KeysRight, UpdateStatus, ConnectTyped
<1>3. KeysRight(Put(m, k, DaemonInfo(NoSession, "Ready")), ids)
  BY ChannelAssumption, Zenon DEF KeysRight, Put, DaemonInfo
<1>4. ASSUME NEW i, Belongs(ids, i, k)
      PROVE  KeysRight(Put(m, k, DaemonInfo(i, "Connected")), ids)
  BY <1>4, Zenon DEF KeysRight, Put, DaemonInfo
<1> QED BY <1>1, <1>2, <1>3, <1>4, Zenon

\* A handler that moves on, except to where it would use its key or session,
\* stays right; so does one that goes from registering to sending.
LEMMA MovesStayRight ==
    ASSUME HandlerTyped(h), \A d \in Channel : HandlerRight(d, h[d], session_id), NEW c \in Channel
    PROVE  /\ \A at \in HandlerPc \cup {"done"} :
                 /\ Goto(c, at)
                 /\ at \in {"lookup", "register", "send"} => h[c].pc = "register" /\ at = "send"
                 => \A d \in Channel : HandlerRight(d, h'[d], session_id)
           /\ Return(c) => \A d \in Channel : HandlerRight(d, h'[d], session_id)
<1>1. ASSUME NEW at \in HandlerPc \cup {"done"}, Goto(c, at),
             at \in {"lookup", "register", "send"} => h[c].pc = "register" /\ at = "send"
      PROVE  \A d \in Channel : HandlerRight(d, h'[d], session_id)
  <2>1. /\ h'[c].pc = at /\ h'[c].key = h[c].key /\ h'[c].sid = h[c].sid
        /\ \A d \in Channel \ {c} : h'[d] = h[d]
    BY <1>1, Moves, Zenon
  <2>2. HandlerRight(c, h'[c], session_id)
    BY <1>1, <2>1, Zenon DEF HandlerRight
  <2> QED BY <2>1, <2>2, Zenon
<1>2. ASSUME Return(c) PROVE \A d \in Channel : HandlerRight(d, h'[d], session_id)
  <2>1. h'[c] = Idle /\ \A d \in Channel \ {c} : h'[d] = h[d]
    BY <1>2, Moves, Zenon
  <2>2. HandlerRight(c, Idle, session_id)
    BY Zenon DEF HandlerRight, Idle
  <2> QED BY <2>1, <2>2, Zenon
<1> QED BY <1>1, <1>2, Zenon

\* The handler's steps keep requests on their way to the right device.
LEMMA HandlerDirected ==
    ASSUME Typed, Named, Directed, NEW c \in Channel, HandlerStep(c)
    PROVE  Directed'
<1>0. /\ HandlerTyped(h) /\ ConnectTyped(connect_map) /\ UsbTyped(usb) /\ TcpTyped(tcp)
      /\ \A d \in Channel : HandlerRight(d, h[d], session_id)
      /\ outgoing \in [UsbSession -> Seq(Request)]
      /\ asked \in [Session -> SUBSET Request]
  BY Zenon DEF Typed, Directed
<1>p. {"done", "reply", "finish", "collect", "send", "associate", "failed", "unregister",
       "collect_register"} \subseteq HandlerPc \cup {"done"}
  BY Zenon DEF HandlerPc
<1>q. \A at \in {"done", "reply", "finish", "collect", "associate", "failed", "unregister",
                 "collect_register"} :
          Goto(c, at) => \A d \in Channel : HandlerRight(d, h'[d], session_id)
  BY <1>0, <1>p, MovesStayRight, Zenon
<1>r. Return(c) => \A d \in Channel : HandlerRight(d, h'[d], session_id)
  BY <1>0, MovesStayRight, Zenon
<1>1. ASSUME Recv(c) PROVE Directed'
  <2> DEFINE x == h'[c]
  <2>1. x.pc \in {"local", "resolve"} /\ \A d \in Channel \ {c} : h'[d] = h[d]
    BY <1>0, <1>1, Zenon DEF Recv, HandlerTyped, HandlerState, Idle
  <2>2. HandlerRight(c, x, session_id)
    BY <2>1, Zenon DEF HandlerRight
  <2>3. \A d \in Channel : HandlerRight(d, h'[d], session_id)
    BY <1>0, <2>1, <2>2, Zenon
  <2> QED BY <1>1, <2>3, Zenon DEF Directed, Recv, maps, clientvars, handlervars, sessionvars,
     idvars, linkvars
<1>2. ASSUME RecvEnd(c) PROVE Directed'
  <2>1. Goto(c, "done")
    BY <1>2, Zenon DEF RecvEnd, Goto
  <2> QED BY <1>2, <1>q, <2>1, Zenon
             DEF Directed, RecvEnd, maps, clientvars, handlervars, sessionvars, idvars, linkvars
<1>3. ASSUME Local(c) PROVE Directed'
  BY <1>3, <1>r, Zenon
     DEF Directed, Local, ReplyAndEnd, maps, clientvars, handlervars, sessionvars, idvars, linkvars
<1>4. ASSUME WaitForGivesUp(c) PROVE Directed'
  BY <1>4, <1>r, Zenon
     DEF Directed, WaitForGivesUp, maps, clientvars, handlervars, sessionvars, idvars, linkvars
<1>5. ASSUME EnableKeepAlive(c) PROVE Directed'
  BY <1>5, <1>r, Zenon
     DEF Directed, EnableKeepAlive, maps, clientvars, handlervars, sessionvars, idvars, linkvars
<1>6. ASSUME Resolve(c) PROVE Directed'
  <2>1. \A d \in Channel : HandlerRight(d, h'[d], session_id)
    <3>1. ASSUME NEW k, h' = [h EXCEPT ![c].pc = "lookup", ![c].key = k],
                 Wanted[c] \in {k, "any"}
          PROVE  \A d \in Channel : HandlerRight(d, h'[d], session_id)
      <4>1. /\ h'[c].pc = "lookup" /\ h'[c].key = k
            /\ \A d \in Channel \ {c} : h'[d] = h[d]
        BY <1>0, <3>1, Zenon DEF HandlerTyped, HandlerState
      <4>2. HandlerRight(c, h'[c], session_id)
        BY <3>1, <4>1, Zenon DEF HandlerRight
      <4> QED BY <1>0, <4>1, <4>2, Zenon
    <3>2. CASE Goto(c, "reply")
      BY <1>q, <3>2, Zenon
    <3> QED BY <1>6, <3>1, <3>2, Zenon DEF Resolve
  <2> QED BY <1>6, <2>1, Zenon
             DEF Directed, Resolve, maps, clientvars, handlervars, sessionvars, idvars, linkvars
<1>7. ASSUME Lookup(c) PROVE Directed'
  <2>1. \A d \in Channel : HandlerRight(d, h'[d], session_id)
    <3>1. CASE h[c].key \in DOMAIN connect_map
      <4> DEFINE sid == connect_map[h[c].key].session_id
                 at == CASE h[c].cmd = "track" -> "register"
                         [] h[c].cmd = "reconnect" -> "drop"
                         [] OTHER -> "send"
      <4>1. h' = [h EXCEPT ![c].sid = sid, ![c].pc = at]
        BY <1>7, <3>1, Zenon DEF Lookup
      <4>2. sid \in Id => Belongs(session_id, sid, h[c].key)
        BY <3>1, Zenon DEF Directed, KeysRight
      <4>3. Wanted[c] \in {h[c].key, "any"}
        BY <1>0, <1>7, Zenon DEF HandlerRight, Lookup, At
      <4> HIDE DEF sid, at
      <4>4. /\ h'[c].key = h[c].key /\ h'[c].sid = sid
            /\ \A d \in Channel \ {c} : h'[d] = h[d]
        BY <1>0, <4>1, Zenon DEF HandlerTyped, HandlerState
      <4>5. HandlerRight(c, h'[c], session_id)
        BY <4>2, <4>3, <4>4, Zenon DEF HandlerRight
      <4> QED BY <1>0, <4>4, <4>5, Zenon
    <3>2. CASE h[c].key \notin DOMAIN connect_map
      BY <1>7, <1>q, <3>2, Zenon DEF Lookup
    <3> QED BY <3>1, <3>2, Zenon
  <2> QED BY <1>7, <2>1, Zenon
             DEF Directed, Lookup, maps, clientvars, handlervars, sessionvars, idvars, linkvars
<1>8. ASSUME Reply(c) PROVE Directed'
  BY <1>8, <1>r, Zenon
     DEF Directed, Reply, ReplyAndEnd, maps, clientvars, handlervars, sessionvars, idvars, linkvars
<1>9. ASSUME DropSession(c) PROVE Directed'
  BY <1>9, <1>q, Zenon DEF Directed, DropSession, maps, clientvars, handlervars, sessionvars,
     idvars, linkvars
<1>10. ASSUME DropEntry(c) PROVE Directed'
  BY <1>0, <1>10, <1>q, KeysStayRight, Zenon
     DEF Directed, DropEntry, maps, clientvars, handlervars, sessionvars, idvars, linkvars
<1>11. ASSUME RegisterStream(c) PROVE Directed'
  <2>1. PICK i : h' = [h EXCEPT ![c].pc = "send", ![c].rx = i]
    BY <1>11, Zenon DEF RegisterStream
  <2>2. /\ h'[c].pc = "send" /\ h'[c].key = h[c].key /\ h'[c].sid = h[c].sid
        /\ \A d \in Channel \ {c} : h'[d] = h[d]
    BY <1>0, <2>1, Zenon DEF HandlerTyped, HandlerState
  <2>3. h[c].pc = "register"
    BY <1>11, Zenon DEF RegisterStream, At
  <2>4. HandlerRight(c, h'[c], session_id)
    BY <1>0, <2>2, <2>3, Zenon DEF HandlerRight
  <2>5. \A d \in Channel : HandlerRight(d, h'[d], session_id)
    BY <1>0, <2>2, <2>4, Zenon
  <2> QED BY <1>11, <2>5, Zenon DEF Directed, RegisterStream, maps, clientvars, handlervars,
             sessionvars, idvars, linkvars
<1>18. ASSUME RegisterCollector(c) PROVE Directed'
  BY <1>18, <1>q, Zenon
     DEF Directed, RegisterCollector, maps, clientvars, handlervars, sessionvars, idvars, linkvars
<1>12. ASSUME Send(c) PROVE Directed'
  <2> DEFINE r == [cid |-> c, cmd |-> h[c].cmd]
  <2>0. PICK i : i = h[c].sid
    BY Zenon
  <2>1. \A d \in Channel : HandlerRight(d, h'[d], session_id)
    BY <1>12, <1>q, Zenon DEF Send
  <2>2. i \in Id => RequestRight(r, i, session_id)
    BY <1>0, <1>12, <2>0, Zenon DEF Send, At, HandlerRight, RequestRight
  <2>3. /\ i \in usb.session_senders => i \in Id /\ feeds[i] \in UsbSession
                                       /\ session_id[feeds[i]] = i
        /\ i \in tcp.session_writers => i \in Id /\ i \in Session /\ session_id[i] = i
    BY <1>0, ChannelAssumption, Zenon DEF Named, UsbTyped, TcpTyped, Session
  <2>4. AskedRight(asked, session_id) /\ QueuedRight(outgoing, session_id)
    BY Zenon DEF Directed
  <2> HIDE DEF r
  <2>5. AskedRight(asked', session_id) /\ QueuedRight(outgoing', session_id)
    <3>1. CASE /\ i \in usb.session_senders
               /\ outgoing' = [outgoing EXCEPT ![feeds[i]] = Append(@, r)]
               /\ UNCHANGED asked
      <4>1. PICK u \in UsbSession : u = feeds[i]
        BY <2>3, <3>1, Zenon
      <4>2. outgoing'[u] = Append(outgoing[u], r) /\ outgoing[u] \in Seq(Request)
            /\ \A v \in UsbSession \ {u} : outgoing'[v] = outgoing[v]
        BY <1>0, <3>1, <4>1, Zenon
      <4>3. \A j \in DOMAIN outgoing'[u] :
               outgoing'[u][j] = r \/ (j \in DOMAIN outgoing[u] /\ outgoing'[u][j] = outgoing[u][j])
        BY <4>2
      <4>4. RequestRight(r, session_id[u], session_id)
        BY <2>2, <2>3, <3>1, <4>1, Zenon
      <4>5. QueuedRight(outgoing', session_id)
        BY <2>4, <4>2, <4>3, <4>4, Zenon DEF QueuedRight
      <4> QED BY <2>4, <3>1, <4>5, Zenon
    <3>2. CASE /\ i \in tcp.session_writers
               /\ asked' = [asked EXCEPT ![i] = @ \cup {r}]
               /\ UNCHANGED outgoing
      <4>1. AskedRight(asked', session_id)
        BY <1>0, <2>2, <2>3, <2>4, <3>2, Zenon DEF AskedRight
      <4> QED BY <2>4, <3>2, <4>1, Zenon
    <3>3. CASE UNCHANGED <<outgoing, asked>>
      BY <2>4, <3>3, Zenon
    <3> QED BY <1>12, <2>0, <3>1, <3>2, <3>3, Zenon DEF Send, r
  <2> QED BY <1>12, <2>1, <2>5, Zenon
             DEF Directed, Send, maps, clientvars, handlervars, sessionvars, idvars, linkvars
<1>13. ASSUME SendFailed(c) PROVE Directed'
  BY <1>13, <1>q, <1>r, Zenon
     DEF Directed, SendFailed, maps, clientvars, handlervars, sessionvars, idvars, linkvars
<1>14. ASSUME AssociateChannel(c) PROVE Directed'
  BY <1>14, <1>q, <1>r, Zenon
     DEF Directed, AssociateChannel, maps, clientvars, handlervars, sessionvars, idvars, linkvars
<1>15. ASSUME Collect(c) PROVE Directed'
  BY <1>15, <1>q, Zenon DEF Directed, Collect, maps, clientvars, handlervars, sessionvars,
     idvars, linkvars
<1>16. ASSUME UnregisterReceiver(c) PROVE Directed'
  BY <1>16, <1>q, <1>r, Zenon
     DEF Directed, UnregisterReceiver, maps, clientvars, handlervars, sessionvars, idvars, linkvars
<1>17. ASSUME FinishCollect(c) PROVE Directed'
  BY <1>17, <1>r, Zenon
     DEF Directed, FinishCollect, maps, clientvars, handlervars, sessionvars, idvars, linkvars
<1> QED BY Zenon, <1>1, <1>2, <1>3, <1>4, <1>5, <1>6, <1>7, <1>8, <1>9, <1>10, <1>11, <1>12, <1>13,
           <1>14, <1>15, <1>16, <1>17, <1>18 DEF HandlerStep

\* So do the steps of everybody else.
LEMMA OthersDirected ==
    ASSUME Typed, Named, Directed
    PROVE  /\ \A c \in Channel : ClientConnects(c) \/ ClientCloses(c) => Directed'
           /\ \A c \in Channel, i \in Streamer : StreamStep(c, i) => Directed'
           /\ \A c \in Channel, cmd \in Command : ClientSends(c, cmd) => Directed'
           /\ \A s \in UsbSession : UsbStep(s) => Directed'
           /\ \A s \in TcpSession : TcpStep(s) => Directed'
           /\ \A s \in Session : \A r \in Request : DaemonAnswers(s, r) => Directed'
           /\ \A s \in Session : Route(s) \/ Deliver(s) \/ ReadError(s) => Directed'
<1>0. /\ ConnectTyped(connect_map) /\ KeysRight(connect_map, session_id)
      /\ AskedRight(asked, session_id) /\ QueuedRight(outgoing, session_id)
      /\ session_id \in [Session -> Id \cup {NoSession}]
      /\ outgoing \in [UsbSession -> Seq(Request)]
      /\ asked \in [Session -> SUBSET Request]
      /\ UsbSession \subseteq Session /\ TcpSession \subseteq Session
  BY Zenon DEF Typed, Directed, Session
<1>7. ASSUME NEW c \in Channel, NEW i \in Streamer, StreamStep(c, i) PROVE Directed'
  <2>1. UNCHANGED <<connect_map, h, outgoing, asked, session_id>>
    BY <1>7, ZenonT(30) DEF StreamStep, StreamRecv, StreamEnds, StreamUnregisters, maps,
       clientvars, handlervars, sessionvars, idvars, linkvars
  <2> QED BY <2>1, Zenon DEF Directed
<1>1. ASSUME NEW c \in Channel, ClientConnects(c) \/ ClientCloses(c)
      PROVE  Directed'
  <2>1. UNCHANGED <<connect_map, h, outgoing, asked, session_id>>
    BY <1>1, ZenonT(30) DEF ClientConnects,
                ClientCloses, maps, clientvars, handlervars, sessionvars, idvars, linkvars
  <2> QED BY <2>1, Zenon DEF Directed
<1>2. ASSUME NEW c \in Channel, NEW cmd \in Command, ClientSends(c, cmd) PROVE Directed'
  BY <1>2 DEF Directed, ClientSends, maps, clientvars, handlervars, sessionvars, idvars, linkvars
<1>3. ASSUME NEW s \in UsbSession, UsbStep(s) PROVE Directed'
  <2>1. CASE SessionConnected(s)
    <3>1. PICK i \in Id : /\ session_id' = [session_id EXCEPT ![s] = i]
                          /\ connect_map' = Put(connect_map, KeyOf[s], DaemonInfo(i, "Connected"))
      BY <2>1, ChannelAssumption, Zenon DEF SessionConnected
    <3>2. session_id[s] = NoSession /\ UNCHANGED <<h, asked, outgoing>>
      BY <2>1, Zenon DEF SessionConnected, SessionAt, Named, handlervars, linkvars
    <3>3. /\ session_id'[s] = i
          /\ \A u \in Session : session_id[u] \in Id => session_id'[u] = session_id[u]
      BY <1>0, <3>1, <3>2, ChannelAssumption, Zenon
    <3>4. /\ KeysRight(connect_map, session_id')
          /\ \A c \in Channel : HandlerRight(c, h[c], session_id')
          /\ AskedRight(asked, session_id') /\ QueuedRight(outgoing, session_id')
      BY <3>3, RightGrows, Zenon DEF Directed
    <3>5. Belongs(session_id', i, KeyOf[s])
      BY <1>0, <3>3, Zenon DEF Belongs
    <3>6. KeysRight(connect_map', session_id')
      BY <1>0, <3>1, <3>4, <3>5, KeysStayRight, Zenon
    <3> QED BY <3>2, <3>4, <3>6, Zenon DEF Directed
  <2>2. CASE ~SessionConnected(s)
    <3>1. h' = h /\ session_id' = session_id /\ KeysRight(connect_map', session_id)
      BY <1>0, <1>3, <2>2, KeysStayRight, Zenon
         DEF UsbStep, SessionOpens, SessionFails,
         StartSession, WriterStep, Write, WriteFails, WriterEnds, CleanupStep, EndSession,
         WriterJoined, CloseChannels, maps, clientvars, handlervars, sessionvars, idvars, linkvars
    <3>2. AskedRight(asked', session_id) /\ QueuedRight(outgoing', session_id)
      <4>1. CASE Write(s)
        <5>1. /\ \A i \in DOMAIN outgoing'[s] :
                    i + 1 \in DOMAIN outgoing[s] /\ outgoing'[s][i] = outgoing[s][i + 1]
              /\ 1 \in DOMAIN outgoing[s] /\ Head(outgoing[s]) = outgoing[s][1]
          <6>1. outgoing'[s] = Tail(outgoing[s]) /\ outgoing[s] \in Seq(Request)
                /\ outgoing[s] # <<>>
            BY <1>0, <4>1, Zenon DEF Write
          <6> QED BY <6>1
        <5>2. \A u \in UsbSession \ {s} : outgoing'[u] = outgoing[u]
          BY <1>0, <4>1, Zenon DEF Write
        <5>3. QueuedRight(outgoing', session_id)
          BY <1>0, <5>1, <5>2 DEF QueuedRight
        <5>4. RequestRight(Head(outgoing[s]), session_id[s], session_id)
          BY <1>0, <5>1, Zenon DEF QueuedRight
        <5>5. AskedRight(asked', session_id)
          BY <1>0, <4>1, <5>4, Zenon DEF AskedRight, Write
        <5> QED BY <5>3, <5>5, Zenon
      <4>2. CASE WriterEnds(s)
        BY <1>0, <4>2 DEF QueuedRight, WriterEnds
      <4>3. CASE ~Write(s) /\ ~WriterEnds(s)
        <5>1. UNCHANGED <<asked, outgoing>>
          BY <1>3, <2>2, <4>3, Zenon DEF UsbStep, SessionOpens, SessionFails,
             StartSession, WriterStep, WriteFails, CleanupStep, EndSession,
             WriterJoined, CloseChannels, maps, clientvars, handlervars, sessionvars, idvars,
                linkvars
        <5> QED BY <1>0, <5>1, Zenon
      <4> QED BY <4>1, <4>2, <4>3, Zenon
    <3> QED BY <3>1, <3>2, Zenon DEF Directed
  <2> QED BY <2>1, <2>2, Zenon
<1>4. ASSUME NEW s \in TcpSession, TcpStep(s) PROVE Directed'
  <2>1. Belongs(session_id, s, KeyOf[s])
    BY <1>0, Zenon DEF Named, Belongs
  <2> QED BY <1>0, <1>4, <2>1, KeysStayRight, Zenon
     DEF Directed, TcpStep, TcpStart, TcpFails, TcpConnected, TcpEnd,
     maps, clientvars, handlervars, sessionvars, idvars, linkvars
<1>5. ASSUME NEW s \in Session, NEW r \in Request, DaemonAnswers(s, r) PROVE Directed'
  <2>1. AskedRight(asked', session_id)
    BY <1>0, <1>5, Zenon DEF AskedRight, DaemonAnswers
  <2> QED BY <1>5, <2>1, Zenon
             DEF Directed, DaemonAnswers, maps, clientvars, handlervars, sessionvars, idvars,
                linkvars
<1>6. ASSUME NEW s \in Session, Route(s) \/ Deliver(s) \/ ReadError(s) PROVE Directed'
  <2>1. CASE Route(s) \/ Deliver(s)
    BY <2>1, ZenonT(30)
       DEF Directed, Route, Deliver, maps, clientvars, handlervars, sessionvars, idvars, linkvars
  <2>2. CASE ReadError(s)
    <3>1. AskedRight(asked', session_id)
      BY <1>0, <2>2, Zenon DEF AskedRight, ReadError
    <3> QED BY <1>0, <2>2, <3>1, KeysStayRight, ZenonT(30)
               DEF Directed, ReadError, maps, clientvars, handlervars, sessionvars, idvars, linkvars
  <2> QED BY <1>6, <2>1, <2>2, Zenon
<1> QED BY <1>1, <1>2, <1>3, <1>4, <1>5, <1>6, <1>7, Zenon

\* A request only ever reaches the device its client named (-t), or one whose
\* daemon had its session take the id of a session of that device, although
\* dispatch_task resolves the key, looks the id up and sends in three steps
\* while sessions start, end and take each other's place in the maps.
THEOREM RequestsAreRight == Spec => []RightDevice
<1>1. Init => Directed
  <2> SUFFICES ASSUME Init PROVE Directed
    BY Zenon
  <2>1. KeysRight(connect_map, session_id)
    BY Zenon DEF Init, KeysRight, EmptyMap
  <2>2. \A c \in Channel : HandlerRight(c, h[c], session_id)
    BY Zenon DEF Init, HandlerRight, Idle
  <2>3. AskedRight(asked, session_id) /\ QueuedRight(outgoing, session_id)
    BY DEF Init, AskedRight, QueuedRight, Session
  <2> QED BY <2>1, <2>2, <2>3, Zenon DEF Directed
<1>2. ASSUME Typed, Named, Directed, [Next]_vars PROVE Directed'
  <2>1. CASE UNCHANGED vars
    BY <1>2, <2>1, Zenon DEF Directed, vars, maps, clientvars, handlervars, sessionvars, idvars,
       linkvars
  <2>2. CASE Next
    BY <1>2, <2>2, HandlerDirected, OthersDirected, Zenon DEF Next
  <2> QED BY <1>2, <2>1, <2>2, Zenon
<1>3. Directed => RightDevice
  <2> SUFFICES ASSUME Directed PROVE RightDevice
    BY Zenon
  <2>1. \A r, i : RequestRight(r, i, session_id) => Wanted[r.cid] \in Devices(i) \cup {"any"}
    BY Zenon DEF RequestRight, Belongs, Devices
  <2> QED BY <2>1, Zenon DEF Directed, RightDevice, AskedRight, QueuedRight
<1> QED BY <1>1, <1>2, <1>3, TypedInit, TypedStep, PTL DEF Spec

-----------------------------------------------------------------------------
(* Registrations have their task.                                          *)

\* The task of a registration, from its registration to its withdrawal.
HandlerReads(i, c) ==
    h[c].pc \in {"collect", "unregister"} /\ h[c].cmd = "uninstall" /\ h[c].sid = i

Tracking(x) == x.pc \in {"send", "failed", "associate", "unregister"} /\ x.cmd = "track"

TrackReads(i, c, r) ==
    \/ Tracking(h[c]) /\ h[c].rx = r /\ h[c].sid = i
    \/ stream[c][r].pc # "off" /\ stream[c][r].sid = i

Lost(c) == c \notin tcp.channel_writers \/ client[c] = "gone"

\* A registration has its task, or the channel is closed or its client gone.
Read(p) ==
    IF usb.response_channels[p] = "handler"
    THEN HandlerReads(p[1], p[2])
    ELSE TrackReads(p[1], p[2], usb.response_channels[p]) \/ Lost(p[2])

\* A client that has not connected has left nothing behind.
Fresh(c) ==
    /\ h[c].pc = "idle" /\ socket[c] = <<>>
    /\ \A i \in Streamer : stream[c][i].pc = "off"
    /\ \A p \in DOMAIN usb.response_channels : p[2] # c

\* No streamer has the receiver that a track-jpid is about to start one with.
Free(x, y) == Tracking(x) => y[x.rx].pc = "off"

Attended ==
    /\ \A c \in Channel : client[c] = "new" => Fresh(c)
    /\ \A c \in Channel : Free(h[c], stream[c])
    /\ \A p \in DOMAIN usb.response_channels : Read(p)

\* What the methods of TcpMap do to the writers of channels.
LEMMA WriterSets ==
    ASSUME NEW t, TcpTyped(t)
    PROVE  /\ \A c : StartChannel(t, c).channel_writers = t.channel_writers \cup {c}
           /\ \A c : SetKeepAlive(t, c).channel_writers = t.channel_writers
           /\ \A c : EndChannel(t, c).channel_writers = t.channel_writers \ {c}
           /\ \A c : MaybeEndChannel(t, c).channel_writers \subseteq t.channel_writers
           /\ \A c, s : Associate(t, c, s).channel_writers = t.channel_writers
           /\ \A s : CloseSessionChannels(t, s).channel_writers \subseteq t.channel_writers
           /\ \A s : EndTcpSession(t, s).channel_writers = t.channel_writers
           /\ \A s : StartTcpSession(t, s).channel_writers = t.channel_writers
<1>1. ASSUME NEW c PROVE StartChannel(t, c).channel_writers = t.channel_writers \cup {c}
  BY Zenon DEF TcpTyped, IsRecord, StartChannel
<1>2. ASSUME NEW c PROVE SetKeepAlive(t, c).channel_writers = t.channel_writers
  BY Zenon DEF TcpTyped, IsRecord, SetKeepAlive
<1>3. ASSUME NEW c PROVE EndChannel(t, c).channel_writers = t.channel_writers \ {c}
  BY Zenon DEF TcpTyped, IsRecord, EndChannel
<1>4. ASSUME NEW c PROVE MaybeEndChannel(t, c).channel_writers \subseteq t.channel_writers
  BY <1>3, Zenon DEF MaybeEndChannel
<1>5. ASSUME NEW c, NEW s PROVE Associate(t, c, s).channel_writers = t.channel_writers
  BY Zenon DEF TcpTyped, IsRecord, Associate
<1>6. ASSUME NEW s
      PROVE  CloseSessionChannels(t, s).channel_writers \subseteq t.channel_writers
  BY Zenon DEF TcpTyped, IsRecord, CloseSessionChannels
<1>7. ASSUME NEW s
      PROVE  /\ EndTcpSession(t, s).channel_writers = t.channel_writers
             /\ StartTcpSession(t, s).channel_writers = t.channel_writers
  BY Zenon DEF TcpTyped, IsRecord, EndTcpSession, StartTcpSession
<1> QED BY <1>1, <1>2, <1>3, <1>4, <1>5, <1>6, <1>7, Zenon

\* Nothing changes for the readers in a step that moves no handler, no
\* streamer and no client, registers nothing and opens no channel.
LEMMA Quiet ==
    ASSUME Typed, Attended,
           h' = h, stream' = stream, client' = client, socket' = socket,
           tcp'.channel_writers \subseteq tcp.channel_writers,
           Fewer(usb'.response_channels, usb.response_channels)
    PROVE  Attended'
<1>1. ASSUME NEW c \in Channel, client'[c] = "new" PROVE Fresh(c)'
  BY <1>1, Zenon DEF Attended, Fresh, Fewer
<1>2. \A c \in Channel : Free(h'[c], stream'[c])
  BY Zenon DEF Attended
<1>3. ASSUME NEW p \in DOMAIN usb'.response_channels PROVE Read(p)'
  BY <1>3, Zenon DEF Attended, Read, HandlerReads, TrackReads, Lost, Fewer
<1> QED BY <1>1, <1>2, <1>3, Zenon DEF Attended

\* A step of the tasks of one connected channel only concerns its own
\* registrations.
LEMMA OwnStep ==
    ASSUME Typed, Attended, NEW c \in Channel, client[c] # "new", client' = client,
           \A d \in Channel \ {c} :
              h'[d] = h[d] /\ stream'[d] = stream[d] /\ socket'[d] = socket[d],
           tcp'.channel_writers \subseteq tcp.channel_writers,
           UsbTyped(usb'),
           \A p \in DOMAIN usb'.response_channels : p[2] # c =>
              /\ p \in DOMAIN usb.response_channels
              /\ usb'.response_channels[p] = usb.response_channels[p],
           Free(h'[c], stream'[c]),
           \A p \in DOMAIN usb'.response_channels : p[2] = c => Read(p)'
    PROVE  Attended'
<1>1. ASSUME NEW d \in Channel, client'[d] = "new" PROVE Fresh(d)'
  <2>1. d # c /\ Fresh(d)
    BY <1>1, Zenon DEF Attended
  <2> QED BY <2>1, Zenon DEF Fresh
<1>2. \A d \in Channel : Free(h'[d], stream'[d])
  BY Zenon DEF Attended
<1>3. ASSUME NEW p \in DOMAIN usb'.response_channels PROVE Read(p)'
  <2>1. CASE p[2] # c
    <3>1. p[2] \in Channel
      BY <1>3, Zenon DEF UsbTyped
    <3>2. Read(p)
      BY <1>3, <2>1, Zenon DEF Attended
    <3>3. h'[p[2]] = h[p[2]] /\ stream'[p[2]] = stream[p[2]]
          /\ usb'.response_channels[p] = usb.response_channels[p]
      BY <1>3, <2>1, <3>1, Zenon
    <3> QED BY <3>2, <3>3, Zenon DEF Read, HandlerReads, TrackReads, Lost
  <2> QED BY <1>3, <2>1, Zenon
<1> QED BY <1>1, <1>2, <1>3, Zenon DEF Attended

\* A handler that reads no registration may go anywhere.
LEMMA FreeMove ==
    ASSUME Typed, Attended, NEW c \in Channel, client' = client,
           usb' = usb, stream'[c] = stream[c],
           tcp'.channel_writers \subseteq tcp.channel_writers,
           ~(h[c].pc \in {"collect", "unregister"} /\ h[c].cmd = "uninstall"),
           ~Tracking(h[c])
    PROVE  \A p \in DOMAIN usb'.response_channels : p[2] = c => Read(p)'
BY Zenon DEF Attended, Read, HandlerReads, TrackReads, Lost

\* The handler's steps leave no registration without a reader.
LEMMA HandlerAttends ==
    ASSUME Typed, Named, Attended, NEW c \in Channel, HandlerStep(c)
    PROVE  Attended'
<1>0. /\ HandlerTyped(h) /\ UsbTyped(usb) /\ TcpTyped(tcp) /\ UsbTyped(usb')
      /\ stream \in Streams /\ socket \in [Channel -> Seq(Command)]
      /\ h[c].pc # "idle" => Suits(h[c].pc, h[c].cmd, h[c].rx) \/ h[c].pc = "done"
      /\ h[c].pc = "idle" => h[c] = Idle
  <2>1. HandlerTyped(h)
    BY Zenon DEF Typed
  <2>2. /\ h[c].pc # "idle" => Suits(h[c].pc, h[c].cmd, h[c].rx) \/ h[c].pc = "done"
        /\ h[c].pc = "idle" => h[c] = Idle
    BY <2>1 DEF HandlerTyped, Idle, Suits, HandlerPc
  <2> QED BY <2>1, <2>2, HandlerTypeStep, Zenon DEF Typed
<1>c. client' = client /\ client[c] # "new"
  <2>1. client' = client
    BY Zenon
       DEF HandlerStep, Recv, RecvEnd, Local, WaitForGivesUp, EnableKeepAlive, Resolve, Lookup,
       Reply, DropSession, DropEntry, RegisterStream, RegisterCollector, Send, SendFailed,
       AssociateChannel, Collect, UnregisterReceiver, FinishCollect, maps, clientvars,
          handlervars, sessionvars, idvars,
       linkvars
  <2>2. \/ h[c].pc # "idle"
        \/ socket[c] # <<>>
        \/ client[c] = "gone"
    BY Zenon
       DEF HandlerStep, Recv, RecvEnd, Local, WaitForGivesUp, EnableKeepAlive, Resolve, Lookup,
       Reply, DropSession, DropEntry, RegisterStream, RegisterCollector, Send, SendFailed,
       AssociateChannel, Collect, UnregisterReceiver, FinishCollect, At
  <2> QED BY <2>1, <2>2, Zenon DEF Attended, Fresh
<1>p. {"done", "reply", "finish", "collect", "send", "associate", "failed", "unregister",
       "collect_register"} \subseteq HandlerPc \cup {"done"}
  BY Zenon DEF HandlerPc
<1>q. \A at \in {"done", "reply", "finish", "collect", "send", "associate", "failed",
                 "unregister", "collect_register"} : Goto(c, at) =>
          /\ h'[c].pc = at /\ h'[c].cmd = h[c].cmd /\ h'[c].sid = h[c].sid
          /\ h'[c].rx = h[c].rx
          /\ \A d \in Channel \ {c} : h'[d] = h[d]
  BY <1>0, <1>p, Moves, Zenon
<1>r. Return(c) => /\ h'[c].pc = "idle" /\ h'[c].cmd = "none"
                   /\ \A d \in Channel \ {c} : h'[d] = h[d]
  BY <1>0, Moves DEF Idle
<1>t. Free(h[c], stream[c])
  BY Zenon DEF Attended
\* A step that moves a handler which reads no registration, and nothing else.
<1>f. ASSUME usb' = usb, stream' = stream,
             tcp'.channel_writers \subseteq tcp.channel_writers,
             \A d \in Channel \ {c} : h'[d] = h[d] /\ socket'[d] = socket[d],
             ~Tracking(h'[c]), ~Tracking(h[c]),
             ~(h[c].pc \in {"collect", "unregister"} /\ h[c].cmd = "uninstall")
      PROVE  Attended'
  <2>2. Free(h'[c], stream'[c])
    BY <1>f, Zenon DEF Free
  <2>1. \A p \in DOMAIN usb'.response_channels : p[2] = c => Read(p)'
    BY <1>c, <1>f, FreeMove, Zenon
  <2> QED BY <1>0, <1>c, <1>f, <2>1, <2>2, OwnStep, Zenon
<1>1. ASSUME Recv(c) PROVE Attended'
  <2>1. /\ h'[c].pc \in {"local", "resolve"}
        /\ \A d \in Channel \ {c} : h'[d] = h[d] /\ socket'[d] = socket[d]
    BY <1>0, <1>1, Zenon DEF Recv, HandlerTyped, HandlerState, Idle
  <2>2. h[c].pc = "idle"
    BY <1>1, Zenon DEF Recv, At
  <2>3. UNCHANGED <<usb, stream, tcp>>
    BY <1>1, Zenon DEF Recv, maps, clientvars, handlervars, sessionvars, idvars, linkvars
  <2> QED BY <1>f, <2>1, <2>2, <2>3, Zenon DEF Tracking
<1>2. ASSUME RecvEnd(c) PROVE Attended'
  <2>1. Goto(c, "done")
    BY <1>2, Zenon DEF RecvEnd, Goto
  <2>2. tcp'.channel_writers \subseteq tcp.channel_writers
    BY <1>0, <1>2, WriterSets DEF RecvEnd
  <2>3. UNCHANGED <<usb, stream, socket>> /\ h[c].pc = "idle"
    BY <1>2, Zenon DEF RecvEnd, At, maps, clientvars, handlervars, sessionvars, idvars, linkvars
  <2> QED BY <1>f, <1>q, <2>1, <2>2, <2>3, Zenon DEF Tracking
<1>e. ReplyAndEnd(c) => Return(c) /\ tcp'.channel_writers \subseteq tcp.channel_writers
  BY <1>0, WriterSets, ZenonT(30) DEF ReplyAndEnd
<1>3. ASSUME Local(c) PROVE Attended'
  <2>1. UNCHANGED <<usb, stream, socket>> /\ h[c].pc = "local"
    BY <1>3, Zenon DEF Local, At, maps, clientvars, handlervars, sessionvars, idvars, linkvars
  <2> QED BY <1>e, <1>f, <1>r, <1>3, <2>1, Zenon DEF Local, Tracking
<1>4. ASSUME WaitForGivesUp(c) PROVE Attended'
  <2>1. UNCHANGED <<tcp, usb, stream, socket>> /\ h[c].pc = "local"
    BY <1>4, Zenon DEF WaitForGivesUp, At, maps, clientvars, handlervars, sessionvars, idvars,
       linkvars
  <2> QED BY <1>f, <1>r, <1>4, <2>1, Zenon DEF WaitForGivesUp, Tracking
<1>5. ASSUME EnableKeepAlive(c) PROVE Attended'
  <2>1. UNCHANGED <<usb, stream, socket>> /\ h[c].pc = "local"
    BY <1>5, Zenon DEF EnableKeepAlive, At, maps, clientvars, handlervars, sessionvars, idvars,
       linkvars
  <2>2. tcp'.channel_writers = tcp.channel_writers
    BY <1>0, <1>5, WriterSets, Zenon DEF EnableKeepAlive
  <2> QED BY <1>f, <1>r, <1>5, <2>1, <2>2, Zenon DEF EnableKeepAlive, Tracking
<1>6. ASSUME Resolve(c) PROVE Attended'
  <2>1. UNCHANGED <<tcp, usb, stream, socket>> /\ h[c].pc = "resolve"
    BY <1>6, Zenon DEF Resolve, At, maps, clientvars, handlervars, sessionvars, idvars, linkvars
  <2>2. h'[c].pc \in {"lookup", "reply"} /\ \A d \in Channel \ {c} : h'[d] = h[d]
    BY <1>0, <1>6, <1>q DEF Resolve, HandlerTyped, HandlerState
  <2> QED BY <1>f, <2>1, <2>2, Zenon DEF Tracking
<1>7. ASSUME Lookup(c) PROVE Attended'
  <2>1. UNCHANGED <<tcp, usb, stream, socket>> /\ h[c].pc = "lookup"
    BY <1>7, Zenon DEF Lookup, At, maps, clientvars, handlervars, sessionvars, idvars, linkvars
  <2>2. ~Tracking(h'[c]) /\ \A d \in Channel \ {c} : h'[d] = h[d]
    BY <1>0, <1>7, <1>q, SMTT(20) DEF Lookup, HandlerTyped, HandlerState, Tracking
  <2> QED BY <1>f, <2>1, <2>2, Zenon DEF Tracking
<1>8. ASSUME Reply(c) PROVE Attended'
  <2>1. UNCHANGED <<usb, stream, socket>> /\ h[c].pc = "reply"
    BY <1>8, Zenon DEF Reply, At, maps, clientvars, handlervars, sessionvars, idvars, linkvars
  <2> QED BY <1>e, <1>f, <1>r, <1>8, <2>1, Zenon DEF Reply, Tracking
<1>9. ASSUME DropSession(c) PROVE Attended'
  <2>1. UNCHANGED <<usb, stream, socket>> /\ h[c].pc = "drop" /\ Goto(c, "finish")
    BY <1>9, Zenon DEF DropSession, At, maps, clientvars, handlervars, sessionvars, idvars, linkvars
  <2>2. tcp'.channel_writers = tcp.channel_writers
    BY <1>0, <1>9, WriterSets, ZenonT(30) DEF DropSession
  <2> QED BY <1>f, <1>q, <2>1, <2>2, Zenon DEF Tracking
<1>10. ASSUME DropEntry(c) PROVE Attended'
  <2>1. UNCHANGED <<tcp, usb, stream, socket>> /\ h[c].pc = "finish" /\ Goto(c, "reply")
    BY <1>10, Zenon DEF DropEntry, At, maps, clientvars, handlervars, sessionvars, idvars, linkvars
  <2> QED BY <1>f, <1>q, <2>1, Zenon DEF Tracking
\* A step that registers one receiver, whose task is the handler.
<1>g. ASSUME NEW r, NEW s, UNCHANGED <<tcp, stream, socket>>,
             usb'.response_channels = Put(usb.response_channels, <<s, c>>, r),
             ~Tracking(h[c]),
             ~(h[c].pc \in {"collect", "unregister"} /\ h[c].cmd = "uninstall"),
             \A d \in Channel \ {c} : h'[d] = h[d],
             Free(h'[c], stream[c]),
             IF r = "handler" THEN HandlerReads(s, c)' ELSE TrackReads(s, c, r)'
      PROVE  Attended'
  <2> DEFINE R == usb.response_channels
  <2>3. /\ DOMAIN usb'.response_channels = DOMAIN R \cup {<<s, c>>}
        /\ usb'.response_channels[<<s, c>>] = r
        /\ \A p \in DOMAIN R : p # <<s, c>> => usb'.response_channels[p] = R[p]
    BY <1>g, Zenon DEF Put
  <2>6. Read(<<s, c>>)'
    <3>1. <<s, c>>[1] = s /\ <<s, c>>[2] = c
      BY Zenon
    <3> QED BY <1>g, <2>3, <3>1, Zenon DEF Read
  <2>7. ASSUME NEW p \in DOMAIN R, p # <<s, c>>, p[2] = c PROVE Read(p)'
    <3>1. /\ R[p] # "handler"
          /\ (stream[c][R[p]].pc # "off" /\ stream[c][R[p]].sid = p[1]) \/ Lost(c)
      BY <1>g, <2>7, Zenon DEF Attended, Read, HandlerReads, TrackReads
    <3> QED BY <1>c, <1>g, <2>3, <2>7, <3>1, Zenon DEF Read, TrackReads, Lost
  <2> HIDE DEF R
  <2>8. ASSUME NEW p \in DOMAIN usb'.response_channels, p[2] = c PROVE Read(p)'
    <3>1. p = <<s, c>> \/ (p \in DOMAIN R /\ p # <<s, c>>)
      BY <2>3, <2>8, Zenon
    <3> QED BY <2>6, <2>7, <2>8, <3>1, Zenon
  <2>9. \A p \in DOMAIN usb'.response_channels : p[2] # c =>
           p \in DOMAIN R /\ usb'.response_channels[p] = R[p]
    <3>1. <<s, c>>[2] = c
      BY Zenon
    <3> QED BY <2>3, <3>1, Zenon
  <2> QED BY <1>0, <1>c, <1>g, <2>8, <2>9, OwnStep, Zenon DEF R
<1>11. ASSUME RegisterStream(c) PROVE Attended'
  <2>0. PICK s : s = h[c].sid
    BY Zenon
  <2>1. PICK i \in Streamer : /\ Unused(c, i)
                              /\ usb' = Register(usb, h[c].sid, c, i)
                              /\ h' = [h EXCEPT ![c].pc = "send", ![c].rx = i]
    BY <1>11, Picks, Zenon DEF RegisterStream
  <2>2. UNCHANGED <<tcp, stream, socket>> /\ h[c].pc = "register"
    BY <1>11, Zenon DEF RegisterStream, At, maps, clientvars, handlervars, sessionvars, linkvars
  <2>3. usb'.response_channels = Put(usb.response_channels, <<s, c>>, i)
    BY <1>0, <2>0, <2>1, Zenon DEF UsbTyped, IsRecord, Register
  <2>4. /\ h'[c].pc = "send" /\ h'[c].cmd = h[c].cmd /\ h'[c].sid = h[c].sid /\ h'[c].rx = i
        /\ \A d \in Channel \ {c} : h'[d] = h[d]
    BY <1>0, <2>1, Zenon DEF HandlerTyped, HandlerState
  <2>5. h[c].cmd = "track" /\ i # "handler"
    BY <1>0, <2>2, ChannelAssumption, Zenon DEF Suits
  <2>6. Free(h'[c], stream[c]) /\ TrackReads(s, c, i)'
    BY <2>0, <2>1, <2>4, <2>5, Zenon DEF Free, Unused, TrackReads, Tracking
  <2> QED BY <1>g, <2>2, <2>3, <2>4, <2>5, <2>6, Zenon DEF Tracking
<1>18. ASSUME RegisterCollector(c) PROVE Attended'
  <2>0. PICK s : s = h[c].sid
    BY Zenon
  <2>1. UNCHANGED <<tcp, stream, socket>> /\ h[c].pc = "collect_register" /\ Goto(c, "collect")
        /\ usb' = Register(usb, h[c].sid, c, "handler")
    BY <1>18, Zenon DEF RegisterCollector, At, maps, clientvars, handlervars, sessionvars, linkvars
  <2>2. usb'.response_channels = Put(usb.response_channels, <<s, c>>, "handler")
    BY <1>0, <2>0, <2>1, Zenon DEF UsbTyped, IsRecord, Register
  <2>3. /\ h'[c].pc = "collect" /\ h'[c].cmd = h[c].cmd /\ h'[c].sid = h[c].sid
        /\ \A d \in Channel \ {c} : h'[d] = h[d]
    BY <1>q, <2>1, Zenon
  <2>4. h[c].cmd = "uninstall"
    BY <1>0, <2>1, Zenon DEF Suits
  <2>5. Free(h'[c], stream[c]) /\ HandlerReads(s, c)'
    BY <2>0, <2>3, <2>4, Zenon DEF Free, HandlerReads, Tracking
  <2> QED BY <1>g, <2>1, <2>2, <2>3, <2>5, Zenon DEF Tracking
<1>12. ASSUME Send(c) PROVE Attended'
  <2>1. UNCHANGED <<tcp, usb, stream, socket>> /\ h[c].pc = "send"
    BY <1>12, Zenon DEF Send, At, maps, clientvars, handlervars, sessionvars, idvars, linkvars
  <2>2. \E at \in {"associate", "failed"} : Goto(c, at)
    BY <1>12, Zenon DEF Send
  <2>3. /\ h'[c].pc \in {"associate", "failed"} /\ h'[c].cmd = h[c].cmd /\ h'[c].sid = h[c].sid
        /\ h'[c].rx = h[c].rx
        /\ \A d \in Channel \ {c} : h'[d] = h[d]
    BY <1>q, <2>2, Zenon
  <2>4. \A p \in DOMAIN usb'.response_channels : p[2] = c => Read(p)'
    BY <1>c, <2>1, <2>3, ZenonT(30)
       DEF Attended, Read, HandlerReads, TrackReads, Lost, Tracking
  <2>5. Free(h'[c], stream'[c])
    BY <1>t, <2>1, <2>3, Zenon DEF Free, Tracking
  <2> QED BY <1>0, <1>c, <2>1, <2>3, <2>4, <2>5, OwnStep, Zenon
<1>13. ASSUME SendFailed(c) PROVE Attended'
  <2>1. UNCHANGED <<usb, stream, socket>> /\ h[c].pc = "failed"
    BY <1>13, ZenonT(30) DEF SendFailed, At, maps, clientvars, handlervars, sessionvars, idvars,
       linkvars
  <2>2. tcp'.channel_writers \subseteq tcp.channel_writers
    <3>1. tcp' \in {tcp, MaybeEndChannel(tcp, c)}
      BY <1>13, ZenonT(30) DEF SendFailed
    <3> QED BY <1>0, <3>1, WriterSets, Zenon
  <2>3. CASE FALSE \in SendResult(c) /\ Return(c)
    <3>1. Lost(c)
      BY <2>3, ZenonT(30) DEF SendResult, Lost
    <3>2. \A p \in DOMAIN usb'.response_channels : p[2] = c => Read(p)'
      BY <1>c, <2>1, <2>2, <3>1, Zenon DEF Attended, Read, HandlerReads, Lost
    <3>3. Free(h'[c], stream'[c])
      BY <1>r, <2>3, Zenon DEF Free, Tracking
    <3> QED BY <1>0, <1>c, <1>r, <2>1, <2>2, <2>3, <3>2, <3>3, OwnStep, Zenon
  <2>4. CASE Goto(c, IF h[c].cmd = "track" THEN "unregister" ELSE "associate")
    <3>1. /\ h'[c].pc = IF h[c].cmd = "track" THEN "unregister" ELSE "associate"
          /\ h'[c].cmd = h[c].cmd /\ h'[c].sid = h[c].sid /\ h'[c].rx = h[c].rx
          /\ \A d \in Channel \ {c} : h'[d] = h[d]
      BY <1>q, <2>4, Zenon
    <3>2. Tracking(h'[c]) <=> Tracking(h[c])
      BY <2>1, <3>1, Zenon DEF Tracking
    <3>3. \A p \in DOMAIN usb'.response_channels : p[2] = c => Read(p)'
      BY <1>c, <2>1, <2>2, <3>1, <3>2, ZenonT(30)
         DEF Attended, Read, HandlerReads, TrackReads, Lost
    <3>4. Free(h'[c], stream'[c])
      BY <1>t, <2>1, <3>1, <3>2, Zenon DEF Free
    <3> QED BY <1>0, <1>c, <2>1, <2>2, <3>1, <3>3, <3>4, OwnStep, ZenonT(30)
  <2> QED BY <1>13, <2>3, <2>4, Zenon DEF SendFailed
<1>14. ASSUME AssociateChannel(c) PROVE Attended'
  <2>1. UNCHANGED <<usb, socket>> /\ h[c].pc = "associate"
    BY <1>14, Zenon DEF AssociateChannel, At, maps, clientvars, handlervars, sessionvars,
       idvars, linkvars
  <2>2. tcp'.channel_writers \subseteq tcp.channel_writers
    <3>1. tcp' = Associate(tcp, c, h[c].sid)
      BY <1>14, ZenonT(30) DEF AssociateChannel
    <3>2. \A x, s : Associate(tcp, x, s).channel_writers = tcp.channel_writers
      BY <1>0, WriterSets, ZenonT(30)
    <3> QED BY <3>1, <3>2, Zenon
  <2>3. CASE h[c].cmd = "track"
    <3>0. PICK i : i = h[c].rx
      BY Zenon
    <3>i. i \in Streamer /\ [pc |-> "recv", sid |-> h[c].sid] \in StreamState
      BY <1>0, <2>1, <2>3, <3>0, Zenon DEF Suits, HandlerTyped, HandlerState, StreamState
    <3>1. Return(c) /\ stream' = [stream EXCEPT ![c][i] = [pc |-> "recv", sid |-> h[c].sid]]
      BY <1>14, <2>3, <3>0, ZenonT(30) DEF AssociateChannel
    <3>2. /\ stream'[c][i].pc = "recv" /\ stream'[c][i].sid = h[c].sid
          /\ \A j \in Streamer \ {i} : stream'[c][j] = stream[c][j]
      <4>1. stream'[c][i] = [pc |-> "recv", sid |-> h[c].sid]
        BY <1>0, <3>1, <3>i DEF Streams
      <4> QED BY <1>0, <3>1, <3>i, <4>1 DEF Streams
    <3>4. \A d \in Channel \ {c} : stream'[d] = stream[d]
      BY <1>0, <3>1, Zenon DEF Streams
    <3>5. stream[c][i].pc = "off"
      BY <1>t, <2>1, <2>3, <3>0, Zenon DEF Free, Tracking
    <3>3. \A p \in DOMAIN usb'.response_channels : p[2] = c => Read(p)'
      <4> SUFFICES ASSUME NEW p \in DOMAIN usb.response_channels, p[2] = c PROVE Read(p)'
        BY <2>1, Zenon
      <4>0. PICK r : r = usb.response_channels[p]
        BY Zenon
      <4>1. r \in Streamer /\ (TrackReads(p[1], c, r) \/ Lost(c)) /\ r # "handler"
        <5>1. r # "handler" /\ (TrackReads(p[1], c, r) \/ Lost(c))
          BY <2>1, <2>3, <4>0, Zenon DEF Attended, Read, HandlerReads
        <5> QED BY <1>0, <4>0, <5>1, Zenon DEF UsbTyped, Receivers
      <4>2. Lost(c) => Lost(c)'
        BY <1>c, <2>1, <2>2, Zenon DEF Lost
      <4>3. TrackReads(p[1], c, r) => TrackReads(p[1], c, r)'
        <5>1. CASE r = i
          BY <3>2, <3>5, <5>1, Zenon DEF TrackReads
        <5>2. CASE r # i
          BY <3>0, <3>2, <4>1, <5>2, Zenon DEF TrackReads
        <5> QED BY <5>1, <5>2, Zenon
      <4> QED BY <2>1, <4>0, <4>1, <4>2, <4>3, Zenon DEF Read
    <3>6. Free(h'[c], stream'[c])
      BY <1>r, <3>1, Zenon DEF Free, Tracking
    <3> QED BY <1>0, <1>c, <1>r, <2>1, <2>2, <3>1, <3>4, <3>3, <3>6, OwnStep, Zenon
  <2>4. CASE h[c].cmd # "track"
    <3>1. stream' = stream /\ (Return(c) \/ Goto(c, "collect_register"))
      BY <1>14, <2>4, Zenon DEF AssociateChannel
    <3>2. h'[c].cmd # "track" /\ \A d \in Channel \ {c} : h'[d] = h[d]
      BY <1>q, <1>r, <2>4, <3>1, Zenon
    <3> QED BY <1>f, <2>1, <2>2, <2>4, <3>1, <3>2, Zenon DEF Tracking
  <2> QED BY <2>3, <2>4, Zenon
<1>15. ASSUME Collect(c) PROVE Attended'
  <2>1. UNCHANGED <<tcp, usb, stream, socket>> /\ h[c].pc = "collect"
    BY <1>15, Zenon DEF Collect, At, maps, clientvars, handlervars, sessionvars, idvars, linkvars
  <2>2. h' = h \/ Goto(c, "unregister")
    BY <1>15, Zenon DEF Collect
  <2>3. /\ h'[c].pc \in {"collect", "unregister"} /\ h'[c].cmd = h[c].cmd
        /\ h'[c].sid = h[c].sid
        /\ \A d \in Channel \ {c} : h'[d] = h[d]
    BY <1>q, <2>1, <2>2, Zenon
  <2>5. ~Tracking(h[c]) /\ ~Tracking(h'[c])
    BY <1>0, <2>1, <2>3, Zenon DEF Tracking, Suits
  <2>6. Free(h'[c], stream'[c])
    BY <2>5, Zenon DEF Free
  <2>4. \A p \in DOMAIN usb'.response_channels : p[2] = c => Read(p)'
    BY <1>c, <2>1, <2>3, <2>5, ZenonT(30)
       DEF Attended, Read, HandlerReads, TrackReads, Lost
  <2> QED BY <1>0, <1>c, <2>1, <2>3, <2>4, <2>6, OwnStep, Zenon
<1>16. ASSUME UnregisterReceiver(c) PROVE Attended'
  <2> DEFINE s == h[c].sid
             R == usb.response_channels
  <2>1. UNCHANGED <<tcp, stream, socket>> /\ h[c].pc = "unregister"
    BY <1>16, Zenon DEF UnregisterReceiver, At, maps, clientvars, handlervars, sessionvars,
       idvars, linkvars
  <2>2. usb'.response_channels = Remove(R, <<s, c>>)
    <3>1. usb' = Unregister(usb, s, c)
      BY <1>16, Zenon DEF UnregisterReceiver
    <3> QED BY <1>0, <3>1, UnregisterSets, SMTT(20)
  <2>3. /\ DOMAIN usb'.response_channels = DOMAIN R \ {<<s, c>>}
        /\ \A p \in DOMAIN usb'.response_channels : usb'.response_channels[p] = R[p]
    BY <2>2, Zenon DEF Remove
  <2>4. Free(h'[c], stream'[c]) /\ \A d \in Channel \ {c} : h'[d] = h[d]
    BY <1>q, <1>r, <1>16, Zenon DEF UnregisterReceiver, Free, Tracking
  <2>5. ASSUME NEW p \in DOMAIN usb'.response_channels, p[2] = c PROVE Read(p)'
    <3>1. p \in DOMAIN R /\ p # <<s, c>> /\ p \in (Id \cup {NoSession}) \X Channel
      BY <1>0, <2>3, <2>5, Zenon DEF UsbTyped
    <3>2. p = <<p[1], p[2]>>
      BY <3>1
    <3>3. p[1] # s
      BY <2>5, <3>1, <3>2, Zenon
    <3>4. R[p] # "handler"
          /\ ((stream[c][R[p]].pc # "off" /\ stream[c][R[p]].sid = p[1]) \/ Lost(c))
      BY <2>5, <3>1, <3>3, Zenon DEF Attended, Read, HandlerReads, TrackReads
    <3> QED BY <1>c, <2>1, <2>3, <2>5, <3>4, Zenon DEF Read, TrackReads, Lost
  <2> HIDE DEF s
  <2> QED BY <1>0, <1>c, <2>1, <2>3, <2>4, <2>5, OwnStep, Zenon
<1>17. ASSUME FinishCollect(c) PROVE Attended'
  <2>1. UNCHANGED <<usb, stream, socket>> /\ h[c].pc = "finish" /\ Return(c)
    BY <1>17, Zenon DEF FinishCollect, At, maps, clientvars, handlervars, sessionvars, idvars,
       linkvars
  <2>2. tcp'.channel_writers \subseteq tcp.channel_writers
    BY <1>0, <1>17, WriterSets, Zenon DEF FinishCollect
  <2> QED BY <1>f, <1>r, <2>1, <2>2, Zenon DEF Tracking
<1> QED BY Zenon, <1>1, <1>2, <1>3, <1>4, <1>5, <1>6, <1>7, <1>8, <1>9, <1>10, <1>11, <1>12, <1>13,
           <1>14, <1>15, <1>16, <1>17, <1>18 DEF HandlerStep

\* So do the streamers': each is the last to leave its receiver.
LEMMA StreamAttends ==
    ASSUME Typed, Attended, NEW c \in Channel, NEW i \in Streamer, StreamStep(c, i)
    PROVE  Attended'
<1>0. /\ UsbTyped(usb) /\ TcpTyped(tcp) /\ UsbTyped(usb') /\ stream \in Streams
  BY StreamTypeStep, Zenon DEF Typed
<1>1. stream[c][i].pc # "off" /\ UNCHANGED <<client, socket, h>>
  BY Zenon
     DEF StreamStep, StreamRecv, StreamEnds, StreamUnregisters, maps, clientvars, handlervars,
     sessionvars, idvars, linkvars
<1>2. client[c] # "new" /\ Free(h[c], stream[c])
  BY <1>1, Zenon DEF Attended, Fresh
<1>h. HandlerTyped(h)
  BY Zenon DEF Typed
<1>r. Tracking(h[c]) => h[c].rx \in Streamer /\ h[c].rx # i
  <2>1. Tracking(h[c]) => Suits(h[c].pc, h[c].cmd, h[c].rx)
    BY <1>h DEF HandlerTyped, Tracking, Idle
  <2>2. Tracking(h[c]) => h[c].rx \in Streamer
    BY <2>1, Zenon DEF Suits, Tracking
  <2> QED BY <1>1, <1>2, <2>2, Zenon DEF Free
<1>3. ASSUME stream' = stream \/ \E at \in {"end", "unregister"} :
                                    stream' = [stream EXCEPT ![c][i].pc = at],
             usb' = usb, tcp'.channel_writers \subseteq tcp.channel_writers
      PROVE  Attended'
  <2>1. /\ stream'[c][i].pc # "off" /\ stream'[c][i].sid = stream[c][i].sid
        /\ \A j \in Streamer \ {i} : stream'[c][j] = stream[c][j]
        /\ \A d \in Channel \ {c} : stream'[d] = stream[d]
    BY <1>0, <1>1, <1>3 DEF Streams, StreamState
  <2>2. ASSUME NEW p \in DOMAIN usb.response_channels, p[2] = c PROVE Read(p)'
    <3>0. PICK r : r = usb.response_channels[p]
      BY Zenon
    <3>1. r \in Receivers /\ Read(p)
      BY <1>0, <2>2, <3>0, Zenon DEF UsbTyped, Attended
    <3>2. CASE r = "handler"
      BY <1>1, <1>3, <2>2, <3>0, <3>1, <3>2, Zenon DEF Read, HandlerReads
    <3>3. CASE r # "handler"
      <4>1. r = i \/ r \in Streamer \ {i}
        BY <3>1, <3>3, Zenon DEF Receivers
      <4>2. TrackReads(p[1], c, r) => TrackReads(p[1], c, r)'
        BY <1>1, <2>1, <4>1, Zenon DEF TrackReads
      <4>3. Lost(c) => Lost(c)'
        BY <1>1, <1>3, Zenon DEF Lost
      <4> QED BY <1>3, <2>2, <3>0, <3>1, <3>3, <4>2, <4>3, Zenon DEF Read
    <3> QED BY <3>2, <3>3, Zenon
  <2>3. Free(h'[c], stream'[c])
    BY <1>1, <1>2, <1>r, <2>1, Zenon DEF Free
  <2> QED BY <1>0, <1>1, <1>2, <1>3, <2>1, <2>2, <2>3, OwnStep, Zenon
<1>4. CASE StreamRecv(c, i)
  BY <1>3, <1>4, Zenon DEF StreamRecv, maps, clientvars, handlervars, sessionvars, idvars, linkvars
<1>5. CASE StreamEnds(c, i)
  <2>1. tcp'.channel_writers \subseteq tcp.channel_writers
    BY <1>0, <1>5, WriterSets, SMTT(20) DEF StreamEnds
  <2> QED BY <1>3, <1>5, <2>1, Zenon DEF StreamEnds
<1>6. CASE StreamUnregisters(c, i)
  <2> DEFINE R == usb.response_channels
  <2>0. PICK s : s = stream[c][i].sid
    BY Zenon
  <2>1. usb'.response_channels = Remove(R, <<s, c>>) /\ tcp' = tcp
    BY <1>0, <1>6, <2>0, UnregisterSets DEF StreamUnregisters
  <2>2. /\ DOMAIN usb'.response_channels = DOMAIN R \ {<<s, c>>}
        /\ \A p \in DOMAIN usb'.response_channels : usb'.response_channels[p] = R[p]
    BY <2>1, Zenon DEF Remove
  <2>3. /\ \A d \in Channel \ {c} : stream'[d] = stream[d]
        /\ \A j \in Streamer \ {i} : stream'[c][j] = stream[c][j]
    BY <1>0, <1>6 DEF StreamUnregisters, Streams
  <2>4. ASSUME NEW p \in DOMAIN usb'.response_channels, p[2] = c PROVE Read(p)'
    <3>0. PICK r : r = R[p]
      BY Zenon
    <3>1. p \in DOMAIN R /\ p # <<s, c>> /\ p \in (Id \cup {NoSession}) \X Channel
          /\ r \in Receivers /\ usb'.response_channels[p] = r
      BY <1>0, <2>2, <2>4, <3>0, Zenon DEF UsbTyped
    <3>2. p = <<p[1], p[2]>>
      BY <3>1
    <3>3. p[1] # s
      BY <2>4, <3>1, <3>2, Zenon
    <3>4. IF r = "handler" THEN HandlerReads(p[1], c) ELSE TrackReads(p[1], c, r) \/ Lost(c)
      BY <2>4, <3>0, <3>1, Zenon DEF Attended, Read
    <3>5. TrackReads(p[1], c, r) /\ r # "handler" => TrackReads(p[1], c, r)'
      <4>1. r # "handler" => r = i \/ r \in Streamer \ {i}
        BY <3>1, Zenon DEF Receivers
      <4> QED BY <1>1, <2>0, <2>3, <3>3, <4>1, Zenon DEF TrackReads
    <3>6. (HandlerReads(p[1], c) => HandlerReads(p[1], c)') /\ (Lost(c) => Lost(c)')
      BY <1>1, <2>1, Zenon DEF HandlerReads, Lost
    <3> QED BY <2>4, <3>1, <3>4, <3>5, <3>6, Zenon DEF Read
  <2>5. Free(h'[c], stream'[c])
    BY <1>1, <1>2, <1>r, <2>3, Zenon DEF Free
  <2> QED BY <1>0, <1>1, <1>2, <2>1, <2>2, <2>3, <2>4, <2>5, OwnStep, Zenon
<1> QED BY <1>4, <1>5, <1>6, Zenon DEF StreamStep

\* So do those of the clients.
LEMMA ClientAttends ==
    ASSUME Typed, Attended, NEW c \in Channel
    PROVE  /\ ClientConnects(c) => Attended'
           /\ \A cmd \in Command : ClientSends(c, cmd) => Attended'
           /\ ClientCloses(c) => Attended'
<1>0. /\ TcpTyped(tcp) /\ UsbTyped(usb) /\ client \in [Channel -> {"new", "open", "gone"}]
      /\ socket \in [Channel -> Seq(Command)]
  BY Zenon DEF Typed
<1>1. ASSUME ClientConnects(c) PROVE Attended'
  <2>1. tcp'.channel_writers = tcp.channel_writers \cup {c}
    BY <1>0, <1>1, WriterSets, Zenon DEF ClientConnects
  <2>2. UNCHANGED <<usb, h, stream, socket>> /\ client[c] = "new"
    BY <1>1, Zenon DEF ClientConnects, maps, clientvars, handlervars, sessionvars, idvars, linkvars
  <2>3. client'[c] = "open" /\ \A d \in Channel \ {c} : client'[d] = client[d]
    BY <1>0, <1>1, Zenon DEF ClientConnects
  <2>4. ASSUME NEW p \in DOMAIN usb.response_channels PROVE Read(p)'
    <3>1. Read(p) /\ p[2] # c /\ p[2] \in Channel
      BY <1>0, <2>2, Zenon DEF Attended, Fresh, UsbTyped
    <3> QED BY <2>1, <2>2, <2>3, <3>1, Zenon DEF Read, HandlerReads, TrackReads, Lost
  <2>5. ASSUME NEW d \in Channel, client'[d] = "new" PROVE Fresh(d)'
    <3>1. d # c /\ client[d] = "new"
      BY <2>3, <2>5, Zenon
    <3> QED BY <2>2, <3>1, Zenon DEF Attended, Fresh
  <2> QED BY <2>2, <2>4, <2>5, Zenon DEF Attended
<1>2. ASSUME NEW cmd \in Command, ClientSends(c, cmd) PROVE Attended'
  <2>1. UNCHANGED <<tcp, usb, h, stream, client>> /\ client[c] = "open"
    BY <1>2, Zenon DEF ClientSends, maps, clientvars, handlervars, sessionvars, idvars, linkvars
  <2>2. \A d \in Channel \ {c} : socket'[d] = socket[d]
    BY <1>0, <1>2, Zenon DEF ClientSends
  <2>3. ASSUME NEW p \in DOMAIN usb.response_channels PROVE Read(p)'
    BY <2>1, Zenon DEF Attended, Read, HandlerReads, TrackReads, Lost
  <2>4. ASSUME NEW d \in Channel, client'[d] = "new" PROVE Fresh(d)'
    <3>1. d # c /\ Fresh(d)
      BY <2>1, <2>4, Zenon DEF Attended
    <3> QED BY <2>1, <2>2, <3>1, Zenon DEF Fresh
  <2> QED BY <2>1, <2>3, <2>4, Zenon DEF Attended
<1>3. ASSUME ClientCloses(c) PROVE Attended'
  <2>1. UNCHANGED <<tcp, usb, h, stream, socket>>
    BY <1>3, Zenon DEF ClientCloses, maps, clientvars, handlervars, sessionvars, idvars, linkvars
  <2>2. client'[c] = "gone" /\ \A d \in Channel \ {c} : client'[d] = client[d]
    BY <1>0, <1>3, Zenon DEF ClientCloses
  <2>3. ASSUME NEW p \in DOMAIN usb.response_channels PROVE Read(p)'
    <3>1. p[2] \in Channel /\ Read(p)
      BY <1>0, Zenon DEF UsbTyped, Attended
    <3> QED BY <2>1, <2>2, <3>1, Zenon DEF Read, HandlerReads, TrackReads, Lost
  <2>4. ASSUME NEW d \in Channel, client'[d] = "new" PROVE Fresh(d)'
    BY <2>1, <2>2, <2>4 DEF Attended, Fresh
  <2> QED BY <2>1, <2>3, <2>4, Zenon DEF Attended
<1> QED BY <1>1, <1>2, <1>3, Zenon

\* And those of sessions and daemons, which only take registrations away.
LEMMA SessionAttends ==
    ASSUME Typed, Attended
    PROVE  /\ \A s \in UsbSession : UsbStep(s) => Attended'
           /\ \A s \in TcpSession : TcpStep(s) => Attended'
           /\ \A s \in Session : \A r \in Request : DaemonAnswers(s, r) => Attended'
           /\ \A s \in Session : Route(s) \/ Deliver(s) \/ ReadError(s) => Attended'
<1>0. TcpTyped(tcp) /\ UsbTyped(usb)
  BY Zenon DEF Typed
<1>f. Fewer(usb.response_channels, usb.response_channels)
  BY Zenon DEF Fewer
<1>1. ASSUME NEW s \in UsbSession, UsbStep(s) PROVE Attended'
  <2>1. UNCHANGED <<h, stream, client, socket>>
    BY <1>1, Zenon DEF UsbStep, SessionOpens, SessionFails, SessionConnected, StartSession,
       WriterStep, Write, WriteFails, WriterEnds, CleanupStep, EndSession, WriterJoined,
       CloseChannels, maps, clientvars, handlervars, sessionvars, idvars, linkvars
  <2>2. tcp' = tcp \/ tcp' = CloseSessionChannels(tcp, session_id[s])
    BY <1>1, Zenon DEF UsbStep, SessionOpens, SessionFails, SessionConnected, StartSession,
       WriterStep, Write, WriteFails, WriterEnds, CleanupStep, EndSession, WriterJoined,
       CloseChannels, maps, clientvars, handlervars, sessionvars, idvars, linkvars
  <2>3. usb' \in {usb, StartUsbSession(usb, session_id[s]), EndUsbSession(usb, session_id[s]),
                  EndSessionWithCleanup(usb, session_id[s])}
    BY <1>1, Zenon DEF UsbStep, SessionOpens, SessionFails, SessionConnected, StartSession,
       WriterStep, Write, WriteFails, WriterEnds, CleanupStep, EndSession, WriterJoined,
       CloseChannels, maps, clientvars, handlervars, sessionvars, idvars, linkvars
  <2>4. tcp'.channel_writers \subseteq tcp.channel_writers
    BY <1>0, <2>2, WriterSets, Zenon
  <2>5. Fewer(usb'.response_channels, usb.response_channels)
    <3>0. PICK i : i = session_id[s]
      BY Zenon
    <3>1. /\ StartUsbSession(usb, i).response_channels = usb.response_channels
          /\ EndUsbSession(usb, i).response_channels = usb.response_channels
          /\ Fewer(EndSessionWithCleanup(usb, i).response_channels, usb.response_channels)
      BY <1>0, SessionSets, Zenon
    <3> QED BY <1>f, <2>3, <3>0, <3>1, Zenon
  <2> QED BY <2>1, <2>4, <2>5, Quiet, Zenon
<1>2. ASSUME NEW s \in TcpSession, TcpStep(s) PROVE Attended'
  <2>1. UNCHANGED <<h, stream, client, socket, usb>>
    BY <1>2, Zenon DEF TcpStep, TcpStart, TcpFails, TcpConnected, TcpEnd, maps, clientvars,
       handlervars, sessionvars, idvars, linkvars
  <2>2. tcp' \in {tcp, StartTcpSession(tcp, s), EndTcpSession(tcp, s)}
    BY <1>2, Zenon DEF TcpStep, TcpStart, TcpFails, TcpConnected, TcpEnd
  <2>3. tcp'.channel_writers = tcp.channel_writers
    <3>1. /\ StartTcpSession(tcp, s).channel_writers = tcp.channel_writers
          /\ EndTcpSession(tcp, s).channel_writers = tcp.channel_writers
      BY <1>0, WriterSets, Zenon
    <3> QED BY <2>2, <3>1, Zenon
  <2> QED BY <1>f, <2>1, <2>3, Quiet, Zenon
<1>3. ASSUME NEW s \in Session, NEW r \in Request, DaemonAnswers(s, r) PROVE Attended'
  BY <1>f, <1>3, Quiet, Zenon
     DEF DaemonAnswers, maps, clientvars, handlervars, sessionvars, idvars, linkvars
<1>4. ASSUME NEW s \in Session, Route(s) \/ Deliver(s) \/ ReadError(s) PROVE Attended'
  <2>1. UNCHANGED <<h, stream, client, socket, usb>>
    BY <1>4, Zenon
       DEF Route, Deliver, ReadError, maps, clientvars, handlervars, sessionvars, idvars, linkvars
  <2>2. tcp' = tcp \/ tcp' = EndChannel(tcp, routing[s].cid)
    BY <1>4, Zenon
       DEF Route, Deliver, ReadError, maps, clientvars, handlervars, sessionvars, idvars, linkvars
  <2>3. tcp'.channel_writers \subseteq tcp.channel_writers
    <3>1. EndChannel(tcp, routing[s].cid).channel_writers
              = tcp.channel_writers \ {routing[s].cid}
      BY <1>0, WriterSets, Zenon
    <3> QED BY <2>2, <3>1, Zenon
  <2> QED BY <1>f, <2>1, <2>3, Quiet, Zenon
<1> QED BY <1>1, <1>2, <1>3, <1>4, Zenon

\* No registration is left behind: whatever the interleaving of registrations
\* (also of several track-jpid on one channel), early returns, streamers,
\* session cleanups and clients that go away, a registration that no task
\* reads or is about to withdraw belongs to a channel that is closed or whose
\* client is gone.
THEOREM ReceiversAreRead == Spec => []NoOrphanReceiver
<1>1. Init => Attended
  BY DEF Init, Attended, Fresh, Free, Tracking, Idle, NoStream, EmptyUsbMap, EmptyMap
<1>2. ASSUME Typed, Named, Attended, [Next]_vars PROVE Attended'
  <2>1. CASE UNCHANGED vars
    <3>1. Fewer(usb.response_channels, usb.response_channels)
      BY Zenon DEF Fewer
    <3> QED BY <1>2, <2>1, <3>1, Quiet, Zenon
               DEF vars, maps, clientvars, handlervars, sessionvars, idvars, linkvars
  <2>2. CASE Next
    BY <1>2, <2>2, HandlerAttends, StreamAttends, ClientAttends, SessionAttends, Zenon DEF Next
  <2> QED BY <1>2, <2>1, <2>2, Zenon
<1>3. Typed /\ Attended => NoOrphanReceiver
  <2> SUFFICES ASSUME Typed, Attended, NEW p \in DOMAIN usb.response_channels
               PROVE  Reads(p[1], p[2]) \/ TakesBack(p[1], p[2]) \/ Lost(p[2])
    BY Zenon DEF NoOrphanReceiver, Lost
  <2>0. PICK i, c, r : i = p[1] /\ c = p[2] /\ r = usb.response_channels[p]
    BY Zenon
  <2>1. Read(p) /\ r \in Receivers /\ p = <<i, c>> /\ c \in Channel
    BY <2>0 DEF Attended, Typed, UsbTyped
  <2>2. HasSender(i, c, r)
    BY <2>0, <2>1, Zenon DEF HasSender, Registered
  <2>3. CASE r = "handler"
    BY <2>0, <2>1, <2>2, <2>3, Zenon DEF Read, HandlerReads, Reads, TakesBack
  <2>4. CASE r # "handler" /\ ~Lost(c)
    <3>1. r \in Streamer /\ TrackReads(i, c, r)
      BY <2>0, <2>1, <2>4, Zenon DEF Read, Receivers
    <3>2. CASE Tracking(h[c]) /\ h[c].rx = r /\ h[c].sid = i
      BY <2>0, <2>2, <3>1, <3>2, Zenon DEF Tracking, Reads, TakesBack
    <3>3. CASE stream[c][r].pc # "off" /\ stream[c][r].sid = i
      <4>1. stream[c][r].pc \in {"recv", "end", "unregister"}
        BY <2>1, <3>1, <3>3, StreamTypes DEF Typed, StreamState
      <4> QED BY <2>0, <2>2, <3>1, <3>3, <4>1, Zenon DEF Reads, TakesBack
    <3> QED BY <3>1, <3>2, <3>3, Zenon DEF TrackReads
  <2> QED BY <2>0, <2>3, <2>4, Zenon
<1> QED BY <1>1, <1>2, <1>3, TypedInit, TypedStep, PTL DEF Spec

=============================================================================
