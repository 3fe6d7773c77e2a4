-------------------------- MODULE TcpSessionProofs --------------------------
(***************************************************************************)
(* Proofs about TcpSession, for any set of sessions, any environments and  *)
(* any number of authentication attempts.                                  *)
(***************************************************************************)
EXTENDS TcpSession, TLAPS

-----------------------------------------------------------------------------
(* Type correctness.                                                       *)

\* What a frame put on or taken off a link does to the links.
LEMMA LinkTypes ==
    ASSUME NEW q \in [Session -> Seq(Frames)], NEW s \in Session
    PROVE  /\ \A f \in Frames : [q EXCEPT ![s] = Append(@, f)] \in [Session -> Seq(Frames)]
           /\ q[s] # <<>> => /\ [q EXCEPT ![s] = Tail(@)] \in [Session -> Seq(Frames)]
                            /\ Head(q[s]) \in Frames
           /\ [q EXCEPT ![s] = <<>>] \in [Session -> Seq(Frames)]
OBVIOUS

\* The map of writers keeps its type.
LEMMA WriterTypes ==
    ASSUME TypeOK, NEW s
    PROVE  LET M == [session_writers : SUBSET Session, channel_writers : {{}},
                     channel_sessions : {EmptyMap}, keep_alive : {{}}]
           IN  /\ s \in Session => StartTcpSession(tcp, s) \in M
               /\ EndTcpSession(tcp, s) \in M
BY Zenon DEF TypeOK, StartTcpSession, EndTcpSession

\* So does the registry.
LEMMA EntryTypes ==
    ASSUME TypeOK
    PROVE  LET T(m) == /\ DOMAIN m \subseteq {Key}
                       /\ \A k \in DOMAIN m :
                             m[k] \in {DaemonInfo(0, "Ready")}
                                       \cup {DaemonInfo(x, "Connected") : x \in Session}
           IN  /\ \A s \in Session : T(Put(connect_map, Key, DaemonInfo(s, "Connected")))
               /\ T(Put(connect_map, Key, DaemonInfo(0, "Ready")))
               /\ T(Remove(connect_map, Key))
BY Zenon DEF TypeOK, Put, Remove

\* What a send or a receive does to the links.
LEMMA SendTypes ==
    ASSUME TypeOK, NEW s \in Session
    PROVE  /\ \A msg \in Messages :
                 /\ SendToSession(s, msg) => down' \in [Session -> Seq(Frames)]
                 /\ SendMessage(s, msg) => up' \in [Session -> Seq(Frames)]
           /\ \A mode :
                 /\ TakeUp(s, mode) => /\ up' \in [Session -> Seq(Frames)]
                                       /\ noise' \subseteq Session
                                       /\ Head(up[s]) \in Frames
                 /\ TakeDown(s, mode) => /\ down' \in [Session -> Seq(Frames)]
                                         /\ noise' \subseteq Session
                                         /\ Head(down[s]) \in Frames
<1>0. /\ down \in [Session -> Seq(Frames)] /\ up \in [Session -> Seq(Frames)]
      /\ noise \subseteq Session
  BY Zenon DEF TypeOK
<1>1. ASSUME NEW msg \in Messages, SendToSession(s, msg)
      PROVE  down' \in [Session -> Seq(Frames)]
  <2>1. Frame(HostMode(s), msg) \in Frames
    BY Zenon DEF Frame, Frames, HostMode
  <2> QED BY <1>0, <1>1, <2>1, LinkTypes, Zenon DEF SendToSession
<1>2. ASSUME NEW msg \in Messages, SendMessage(s, msg)
      PROVE  up' \in [Session -> Seq(Frames)]
  <2>1. Frame(DaemonMode(s), msg) \in Frames
    BY Zenon DEF Frame, Frames, DaemonMode
  <2> QED BY <1>0, <1>2, <2>1, LinkTypes, Zenon DEF SendMessage
<1>3. ASSUME NEW mode, TakeUp(s, mode)
      PROVE  /\ up' \in [Session -> Seq(Frames)] /\ noise' \subseteq Session
             /\ Head(up[s]) \in Frames
  BY <1>0, <1>3, LinkTypes, Zenon DEF TakeUp
<1>4. ASSUME NEW mode, TakeDown(s, mode)
      PROVE  /\ down' \in [Session -> Seq(Frames)] /\ noise' \subseteq Session
             /\ Head(down[s]) \in Frames
  BY <1>0, <1>4, LinkTypes, Zenon DEF TakeDown
<1> QED BY <1>1, <1>2, <1>3, <1>4, Zenon

\* What dispatch_task answers is a message, and never a psk.
LEMMA DispatchSends ==
    ASSUME NEW s \in Session, NEW msg \in Messages, Dispatch(s, msg)
    PROVE  \E reply \in Messages \ {"Psk"} : SendMessage(s, reply)
BY DEF Dispatch, Messages, AuthTypes, Commands

\* Every step keeps the types, one action at a time.
LEMMA TypeStep ==
    ASSUME TypeOK, [Next]_vars
    PROVE  TypeOK'
<1> USE DEF daemonvars
<1>1. ASSUME NEW s \in Session, Connect(s) PROVE TypeOK'
  <2>1. daemon' \in [Session -> {"none", "first", "respond", "arm", "ack", "loop", "shell",
                                "device", "ended", "left"}]
    <3>1. CASE UNCHANGED daemon
      BY <3>1, Zenon DEF TypeOK
    <3>2. CASE daemon' = [daemon EXCEPT ![s] = IF env.hdcd THEN "first" ELSE "device"]
      BY <3>2, Zenon DEF TypeOK
    <3> QED BY <1>1, <3>1, <3>2, Zenon DEF Connect
  <2>2. tcp' \in [session_writers : SUBSET Session, channel_writers : {{}},
                 channel_sessions : {EmptyMap}, keep_alive : {{}}]
    BY <1>1, WriterTypes DEF TypeOK, Connect
  <2> QED BY <1>1, <2>1, <2>2, Zenon DEF TypeOK, Connect, Goto
<1>2. ASSUME NEW s \in Session, Hello(s) PROVE TypeOK'
  BY <1>2, SendTypes, Zenon DEF TypeOK, Hello, SendHandshake, Messages, AuthTypes, Goto
<1>3. ASSUME NEW s \in Session, PskAck(s) PROVE TypeOK'
  BY <1>3, SendTypes, Zenon DEF TypeOK, PskAck, SendHandshake, Messages, AuthTypes, Goto
<1>4. ASSUME NEW s \in Session, Answer(s) PROVE TypeOK'
  BY <1>4, SendTypes, Zenon DEF TypeOK, Answer, SendHandshake, Messages, AuthTypes, Goto
<1>5. ASSUME NEW s \in Session, NextAttempt(s) PROVE TypeOK'
  <2>1. attempt' \in [Session -> 1 .. MAX_AUTH_ATTEMPTS]
    <3>1. attempt \in [Session -> 1 .. MAX_AUTH_ATTEMPTS] /\ MAX_AUTH_ATTEMPTS \in Nat
      BY SessionAssumption, Zenon DEF TypeOK
    <3>2. \/ attempt[s] < MAX_AUTH_ATTEMPTS /\ attempt' = [attempt EXCEPT ![s] = @ + 1]
          \/ attempt' = attempt
      BY <1>5, Zenon DEF NextAttempt
    <3> QED BY <3>1, <3>2
  <2>2. tcp' \in [session_writers : SUBSET Session, channel_writers : {{}},
                 channel_sessions : {EmptyMap}, keep_alive : {{}}]
    BY <1>5, WriterTypes DEF TypeOK, NextAttempt, GiveUp
  <2>3. \E at \in {"auth", "failed"} : Goto(s, at)
    BY <1>5, Zenon DEF NextAttempt, GiveUp
  <2> QED BY <1>5, <2>1, <2>2, <2>3 DEF TypeOK, NextAttempt, Goto
<1>6. ASSUME NEW s \in Session, RecvAuth(s) PROVE TypeOK'
  <2>1. up' \in [Session -> Seq(Frames)] /\ noise' \subseteq Session
    BY <1>6, SendTypes, Zenon DEF RecvAuth
  <2>2. tcp' \in [session_writers : SUBSET Session, channel_writers : {{}},
                 channel_sessions : {EmptyMap}, keep_alive : {{}}]
    <3>1. UNCHANGED tcp \/ GiveUp(s)
      BY <1>6, Zenon DEF RecvAuth
    <3> QED BY <3>1, WriterTypes DEF TypeOK, GiveUp
  <2>3. \E at \in {"next", "put", "ack", "answer", "failed"} : Goto(s, at)
    BY <1>6, Zenon DEF RecvAuth, GiveUp
  <2>4. ciphers' \subseteq Session
    BY <1>6 DEF TypeOK, RecvAuth, SetSessionCipher
  <2> QED BY <1>6, <2>1, <2>2, <2>3, <2>4 DEF TypeOK, RecvAuth, Goto
<1>7. ASSUME NEW s \in Session, AuthFails(s) PROVE TypeOK'
  BY <1>7, WriterTypes, Zenon DEF TypeOK, AuthFails, GiveUp, Goto
<1>8. ASSUME NEW s \in Session, PutConnected(s) PROVE TypeOK'
  BY <1>8, EntryTypes, Zenon DEF TypeOK, PutConnected, Goto
<1>9. ASSUME NEW s \in Session, SpawnTasks(s) PROVE TypeOK'
  BY <1>9, Zenon DEF TypeOK, SpawnTasks, Goto
<1>10. ASSUME NEW s \in Session, Heartbeat(s) PROVE TypeOK'
  BY <1>10, SendTypes, Zenon DEF TypeOK, Heartbeat, Messages, Commands
<1>11. ASSUME NEW s \in Session, ReadFrame(s) PROVE TypeOK'
  <2>1. up' \in [Session -> Seq(Frames)] /\ noise' \subseteq Session
    BY <1>11, SendTypes, Zenon DEF ReadFrame
  <2>2. down' \in [Session -> Seq(Frames)]
    BY <1>11, SendTypes, Zenon DEF TypeOK, ReadFrame, Messages, AuthTypes
  <2>3. reader' = reader \/ reader' = [reader EXCEPT ![s] = "remove"]
    BY <1>11, Zenon DEF ReadFrame
  <2>4. reader' \in [Session -> {"off", "read", "remove", "end", "done"}]
    BY <2>3, Zenon DEF TypeOK
  <2> QED BY <1>11, <2>1, <2>2, <2>4, Zenon DEF TypeOK, ReadFrame
<1>12. ASSUME NEW s \in Session, ReadFails(s) PROVE TypeOK'
  BY <1>12, Zenon DEF TypeOK, ReadFails
<1>13. ASSUME NEW s \in Session, ReaderRemoves(s) PROVE TypeOK'
  BY <1>13, EntryTypes, Zenon DEF TypeOK, ReaderRemoves
<1>14. ASSUME NEW s \in Session, ReaderEnds(s) PROVE TypeOK'
  BY <1>14, WriterTypes, Zenon DEF TypeOK, ReaderEnds
<1>15. ASSUME NEW s \in Session, FirstMessage(s) PROVE TypeOK'
  BY <1>15, SendTypes, ZenonT(30) DEF TypeOK, FirstMessage, DaemonGoto, host
<1>16. ASSUME NEW s \in Session, Respond(s) PROVE TypeOK'
  BY <1>16, SendTypes, Zenon DEF TypeOK, Respond, Messages, AuthTypes, DaemonGoto, host
<1>17. ASSUME NEW s \in Session, Arm(s) PROVE TypeOK'
  BY <1>17 DEF TypeOK, Arm, DaemonGoto, host
<1>18. ASSUME NEW s \in Session, AwaitAck(s) PROVE TypeOK'
  <2>1. down' \in [Session -> Seq(Frames)] /\ noise' \subseteq Session
    BY <1>18, SendTypes, Zenon DEF TypeOK, AwaitAck
  <2>2. /\ daemon_ciphers' = daemon_ciphers \/ daemon_ciphers' = daemon_ciphers \ {s}
        /\ \E at \in {"loop", "ended", "left"} : DaemonGoto(s, at)
        /\ forwards' = forwards
    BY <1>18, Zenon DEF AwaitAck, HandlerEnds, Leave
  <2>3. UNCHANGED <<env, host, link, up>>
    BY <1>18, Zenon DEF AwaitAck
  <2>4. daemon' \in [Session -> {"none", "first", "respond", "arm", "ack", "loop", "shell",
                                "device", "ended", "left"}]
    BY <2>2 DEF TypeOK, DaemonGoto
  <2> QED BY <2>1, <2>2, <2>3, <2>4, Zenon DEF TypeOK, host
<1>19. ASSUME NEW s \in Session, Loop(s) PROVE TypeOK'
  <2>1. down' \in [Session -> Seq(Frames)] /\ noise' \subseteq Session
    BY <1>19, SendTypes DEF TypeOK, Loop
  <2>2. up' \in [Session -> Seq(Frames)]
    <3>1. CASE up' = up
      BY <3>1, Zenon DEF TypeOK
    <3>2. ASSUME TakeDown(s, DaemonMode(s)), Dispatch(s, Head(down[s]).msg)
          PROVE  up' \in [Session -> Seq(Frames)]
      <4>1. Head(down[s]).msg \in Messages
        BY <3>2, SendTypes, Zenon DEF Frames
      <4> QED BY <3>2, <4>1, DispatchSends, SendTypes, Zenon
    <3> QED BY <1>19, <3>1, <3>2, Zenon DEF Loop
  <2>3. /\ daemon_ciphers' = daemon_ciphers \/ daemon_ciphers' = daemon_ciphers \ {s}
        /\ daemon' = daemon \/ \E at \in {"shell", "ended", "left"} : DaemonGoto(s, at)
        /\ forwards' \in {forwards, forwards \cup {s}}
    BY <1>19, Zenon DEF Loop, Dispatch, HandlerEnds, Leave
  <2>4. UNCHANGED <<env, host, link>>
    BY <1>19, Zenon DEF Loop
  <2>5. daemon' \in [Session -> {"none", "first", "respond", "arm", "ack", "loop", "shell",
                                "device", "ended", "left"}]
    BY <2>3 DEF TypeOK, DaemonGoto
  <2>6. daemon_ciphers' \subseteq Session /\ forwards' \subseteq Session
    BY <2>3 DEF TypeOK
  <2> QED BY <2>1, <2>2, <2>4, <2>5, <2>6, Zenon DEF TypeOK, host
<1>20. ASSUME NEW s \in Session, DeviceReads(s) PROVE TypeOK'
  BY <1>20, SendTypes, Zenon DEF TypeOK, DeviceReads, host
<1>21. ASSUME NEW s \in Session, DeviceEnds(s) PROVE TypeOK'
  BY <1>21, Zenon DEF TypeOK, DeviceEnds, DaemonGoto, host
<1>22. ASSUME NEW s \in Session, LinkFails(s) PROVE TypeOK'
  BY <1>22, LinkTypes DEF TypeOK, LinkFails, host
<1>23. ASSUME NEW s \in Session, NEW msg \in Messages, DeviceSpeaks(s, msg) PROVE TypeOK'
  BY <1>23, SendTypes, Zenon DEF TypeOK, DeviceSpeaks, host
<1>24. ASSUME NEW msg \in Commands, Command(msg) PROVE TypeOK'
  BY <1>24, SendTypes, Zenon DEF TypeOK, Command, Messages, host
<1>25. ASSUME Reconnect PROVE TypeOK'
  <2>1. CASE reconnect.pc = "idle" /\ UNCHANGED <<connect_map, tcp>>
    <3>1. connect_map[Key].session_id \in Session \cup {0}
      BY <1>25, <2>1 DEF Reconnect, TypeOK, DaemonInfo
    <3> QED BY <1>25, <2>1, <3>1 DEF TypeOK, Reconnect
  <2>2. CASE reconnect.pc = "end"
    <3>1. tcp' \in [session_writers : SUBSET Session, channel_writers : {{}},
                   channel_sessions : {EmptyMap}, keep_alive : {{}}]
      BY <1>25, <2>2, WriterTypes DEF Reconnect
    <3>2. reconnect' \in [pc : {"idle", "end", "remove", "done"}, sid : Session \cup {0}]
      BY <1>25, <2>2 DEF TypeOK, Reconnect
    <3> QED BY <1>25, <2>2, <3>1, <3>2 DEF TypeOK, Reconnect
  <2>3. CASE reconnect.pc = "remove"
    BY <1>25, <2>3, EntryTypes DEF TypeOK, Reconnect
  <2> QED BY <1>25, <2>1, <2>2, <2>3, Zenon DEF Reconnect
<1>26. ASSUME Discover PROVE TypeOK'
  BY <1>26, EntryTypes, Zenon DEF TypeOK, Discover
<1>27. CASE UNCHANGED vars
  BY <1>27, Zenon DEF TypeOK, vars, host
<1>28. ASSUME NEW s \in Session, ShellBridge(s) PROVE TypeOK'
  <2>1. down' \in [Session -> Seq(Frames)] /\ noise' \subseteq Session
    BY <1>28, SendTypes, Zenon DEF TypeOK, ShellBridge
  <2>2. up' \in [Session -> Seq(Frames)]
    BY <1>28, SendTypes, Zenon DEF TypeOK, ShellBridge, Messages, Commands
  <2>3. /\ daemon' = daemon \/ \E at \in {"ended", "left"} : DaemonGoto(s, at)
        /\ UNCHANGED <<env, host, link, daemon_ciphers, forwards>>
    BY <1>28, Zenon DEF ShellBridge, Leave
  <2>4. daemon' \in [Session -> {"none", "first", "respond", "arm", "ack", "loop", "shell",
                                "device", "ended", "left"}]
    BY <2>3 DEF TypeOK, DaemonGoto
  <2> QED BY <2>1, <2>2, <2>3, <2>4, Zenon DEF TypeOK, host
<1>29. ASSUME NEW s \in Session, ForwardSpeaks(s) PROVE TypeOK'
  BY <1>29, SendTypes, Zenon DEF TypeOK, ForwardSpeaks, Messages, Commands, host
<1>30. ASSUME NEW s \in Session, ForwardEnds(s) PROVE TypeOK'
  BY <1>30, Zenon DEF TypeOK, ForwardEnds, host
<1> QED
  BY <1>1, <1>2, <1>3, <1>4, <1>5, <1>6, <1>7, <1>8, <1>9, <1>10, <1>11, <1>12, <1>13, <1>14,
     <1>15, <1>16, <1>17, <1>18, <1>19, <1>20, <1>21, <1>22, <1>23, <1>24, <1>25, <1>26, <1>27,
     <1>28, <1>29, <1>30, Zenon
     DEF Next, Connecting, Reading, Handling, Device

\* The variables of TcpSession always have the values its comments give them.
THEOREM SessionTypes == Spec => []TypeOK
<1>1. Init => TypeOK
  BY SessionAssumption DEF Init, TypeOK, EmptyMap, EmptyTcpMap
<1> QED BY <1>1, TypeStep, PTL DEF Spec

-----------------------------------------------------------------------------
(* Entries.  ConnectedIsRead is inductive: a session gets its entry before *)
(* it gets its reader, and the reader takes the entry before it goes.      *)

\* A Connected entry is Key's and names a session.
LEMMA ConnectedEntry ==
    ASSUME TypeOK, NEW k \in ConnectedKeys(connect_map)
    PROVE  k \in DOMAIN connect_map /\ connect_map[k].session_id \in Session
BY DEF TypeOK, ConnectedKeys, DaemonInfo

\* Every step keeps a reader for every Connected entry.
LEMMA EntryStep ==
    ASSUME TypeOK, ConnectedIsRead, [Next]_vars
    PROVE  ConnectedIsRead'
<1> USE DEF daemonvars
<1>0. conn \in [Session -> {"new", "hello", "auth", "next", "ack", "answer", "put", "spawn",
                            "done", "failed", "failed_write"}]
      /\ reader \in [Session -> {"off", "read", "remove", "end", "done"}]
  BY Zenon DEF TypeOK
<1>1. ASSUME NEW s \in Session, PutConnected(s) PROVE ConnectedIsRead'
  <2>1. conn'[s] = "spawn"
    BY <1>0, <1>1, Zenon DEF PutConnected, Goto
  <2>2. \A k \in ConnectedKeys(connect_map') : connect_map'[k].session_id = s
    BY <1>1, Zenon DEF PutConnected, ConnectedKeys, Put, DaemonInfo, TypeOK
  <2> QED BY <2>1, <2>2, Zenon DEF ConnectedIsRead
<1>2. ASSUME NEW s \in Session, SpawnTasks(s) PROVE ConnectedIsRead'
  BY <1>0, <1>2, ConnectedEntry, Zenon DEF SpawnTasks, Goto, ConnectedIsRead
<1>3. ASSUME NEW s \in Session, ReaderRemoves(s) PROVE ConnectedIsRead'
  BY <1>3, Zenon DEF ReaderRemoves, Remove, ConnectedIsRead, ConnectedKeys, TypeOK
<1>4. CASE Discover
  <2>1. CASE UNCHANGED connect_map
    BY <1>4, <2>1, Zenon DEF Discover, ConnectedIsRead
  <2>2. CASE connect_map' = Put(connect_map, Key, DaemonInfo(0, "Ready"))
    BY <2>2 DEF Put, DaemonInfo, ConnectedIsRead, ConnectedKeys, TypeOK
  <2> QED BY <1>4, <2>1, <2>2, Zenon DEF Discover
<1>5. CASE Reconnect
  <2>1. CASE UNCHANGED connect_map
    BY <1>5, <2>1, Zenon DEF Reconnect, ConnectedIsRead
  <2>2. CASE connect_map' = Remove(connect_map, Key)
    BY <2>2, Zenon DEF Remove, ConnectedIsRead, ConnectedKeys, TypeOK
  <2> QED BY <1>5, <2>1, <2>2, Zenon DEF Reconnect
\* Every other step leaves the registry, keeps a session that is about to
\* have a reader there, and a reader that has not removed the entry reading.
<1>6. ASSUME connect_map' = connect_map,
             \A s \in Session : conn[s] = "spawn" => conn'[s] = "spawn",
             \A s \in Session : reader[s] \in {"read", "remove"}
                                  => reader'[s] \in {"read", "remove"}
      PROVE  ConnectedIsRead'
  BY <1>6, ConnectedEntry, Zenon DEF ConnectedIsRead
<1>7. ASSUME NEW s \in Session, Connecting(s), ~PutConnected(s), ~SpawnTasks(s)
      PROVE  ConnectedIsRead'
  <2>1. conn[s] # "spawn" /\ \E at : Goto(s, at)
    BY <1>7, Zenon DEF Connecting, Hello, PskAck, Answer, SendHandshake, NextAttempt, RecvAuth,
                AuthFails, GiveUp
  <2>2. UNCHANGED <<connect_map, reader>>
    BY <1>7, Zenon DEF Connecting, Hello, PskAck, Answer, SendHandshake, NextAttempt, RecvAuth,
                AuthFails
  <2> QED BY <1>0, <1>6, <2>1, <2>2, Zenon DEF Goto
<1>8. ASSUME NEW s \in Session, Reading(s), ~ReaderRemoves(s) PROVE ConnectedIsRead'
  <2>1. UNCHANGED <<connect_map, conn>>
    BY <1>8, Zenon DEF Reading, ReadFrame, ReadFails, ReaderEnds
  <2>2. \/ reader' = reader
        \/ reader' = [reader EXCEPT ![s] = "remove"]
        \/ reader[s] = "end" /\ reader' = [reader EXCEPT ![s] = "done"]
    BY <1>8, Zenon DEF Reading, ReadFrame, ReadFails, ReaderEnds
  <2> QED BY <1>0, <1>6, <2>1, <2>2, Zenon
<1>9. ASSUME NEW s \in Session, Connect(s) PROVE ConnectedIsRead'
  BY <1>0, <1>6, <1>9, Zenon DEF Connect, Goto
<1>10. CASE UNCHANGED <<connect_map, conn, reader>>
  BY <1>6, <1>10, Zenon
<1>11. ASSUME NEW s \in Session, Heartbeat(s) \/ Handling(s) \/ Device(s) \/ LinkFails(s)
       PROVE  UNCHANGED <<connect_map, conn, reader>>
  BY <1>11, Zenon DEF Heartbeat, Handling, FirstMessage, Respond, Arm, AwaitAck, Loop,
               ShellBridge, ForwardSpeaks, ForwardEnds, Device, DeviceReads, DeviceEnds, DeviceSpeaks, LinkFails, host
<1>12. ASSUME NEW msg, Command(msg) PROVE UNCHANGED <<connect_map, conn, reader>>
  BY <1>12, Zenon DEF Command, host
<1>13. CASE UNCHANGED vars
  BY <1>10, <1>13, Zenon DEF vars, host
<1> QED
  BY <1>1, <1>2, <1>3, <1>4, <1>5, <1>7, <1>8, <1>9, <1>10, <1>11, <1>12, <1>13, Zenon DEF Next

\* For any number of sessions with an address: the session that a Connected
\* entry names has a reader that will remove the entry, or is about to start
\* it (server.rs:2057, 2107).
THEOREM EntriesAreRead == Spec => []ConnectedIsRead
<1>1. Init => ConnectedIsRead
  BY Zenon DEF Init, ConnectedIsRead, ConnectedKeys, EmptyMap
<1> QED BY <1>1, SessionTypes, EntryStep, PTL DEF Spec

-----------------------------------------------------------------------------
(* Modes.  Without a psk nothing is ever encrypted.  With one, the frames  *)
(* on a link follow from how far the two sides are.                        *)

AllIn(q, mode) == \A i \in 1 .. Len(q) : q[i].mode = mode
NoPsk(q) == \A i \in 1 .. Len(q) : q[i].msg # "Psk"

InTheClear(s) ==
    /\ s \notin ciphers /\ s \notin daemon_ciphers
    /\ AllIn(up[s], "plain") /\ AllIn(down[s], "plain")
    /\ env.host_enc => NoPsk(up[s])

Agreed(s) ==
    /\ daemon[s] # "device" /\ conn[s] \notin {"next", "answer"}
    /\ conn[s] \in {"new", "hello", "auth"} => s \notin ciphers
    /\ conn[s] \in {"ack", "put", "spawn", "done"} => s \in ciphers
    /\ conn[s] \in {"new", "hello"} => daemon[s] \in {"none", "first", "ended"} /\ down[s] = <<>>
    /\ conn[s] = "new" => daemon[s] = "none"
    /\ daemon[s] \in {"none", "first", "respond"} => s \notin ciphers /\ up[s] = <<>>
    /\ daemon[s] \in {"none", "first"} => AllIn(down[s], "plain") /\ Len(down[s]) <= 1
    /\ daemon[s] = "respond" => down[s] = <<>>
    /\ daemon[s] \in {"arm", "ack"} /\ s \notin ciphers => down[s] = <<>>
    /\ daemon[s] \in {"arm", "ack", "loop", "shell"} /\ s \in ciphers => AllIn(down[s], "cipher")
    /\ daemon[s] \in {"loop", "shell"} => s \in ciphers
    /\ daemon[s] \in {"ack", "loop", "shell"} => s \in daemon_ciphers
    /\ s \in daemon_ciphers => daemon[s] \in {"ack", "loop", "shell", "ended"}
    /\ s \notin ciphers => up[s] \in {<<>>, <<Frame("plain", "Psk")>>}
    /\ s \in ciphers => AllIn(up[s], "cipher")

\* Who sends on an established session, and that only a device is a device.
Senders ==
    /\ env.daemon_enc => env.hdcd
    /\ \A s \in Session :
         /\ heartbeat[s] = "run" \/ reader[s] = "read" => conn[s] = "done"
         /\ daemon[s] = "device" => ~env.hdcd
         /\ conn[s] = "new" => daemon[s] = "none"
         /\ s \in forwards => daemon[s] \in {"loop", "shell", "left"}
    /\ \A k \in DOMAIN connect_map :
         connect_map[k].session_id \in Session
             => conn[connect_map[k].session_id] \in {"spawn", "done"}

Modes ==
    /\ NoNoise /\ Senders
    /\ \A s \in Session : IF PskOption THEN daemon[s] = "left" \/ Agreed(s) ELSE InTheClear(s)

\* What becomes of a uniform queue when a frame is put on it ...
LEMMA Appended ==
    ASSUME NEW q \in Seq(Frames), NEW f \in Frames
    PROVE  /\ \A mode : AllIn(q, mode) /\ f.mode = mode => AllIn(Append(q, f), mode)
           /\ NoPsk(q) /\ f.msg # "Psk" => NoPsk(Append(q, f))
           /\ Append(<<>>, f) = <<f>>
<1>1. ASSUME NEW mode, AllIn(q, mode), f.mode = mode PROVE AllIn(Append(q, f), mode)
  BY <1>1 DEF AllIn
<1>2. NoPsk(q) /\ f.msg # "Psk" => NoPsk(Append(q, f))
  BY DEF NoPsk
<1>3. Append(<<>>, f) = <<f>>
  OBVIOUS
<1> QED BY <1>1, <1>2, <1>3, Zenon

\* ... and when one is taken off.
LEMMA Taken ==
    ASSUME NEW q \in Seq(Frames), q # <<>>
    PROVE  /\ \A mode : AllIn(q, mode) => AllIn(Tail(q), mode) /\ Head(q).mode = mode
           /\ NoPsk(q) => NoPsk(Tail(q)) /\ Head(q).msg # "Psk"
           /\ Len(q) <= 1 => Tail(q) = <<>>
<1>1. /\ Head(q) = q[1] /\ 1 \in 1 .. Len(q) /\ Len(Tail(q)) = Len(q) - 1
      /\ \A i \in 1 .. Len(Tail(q)) : Tail(q)[i] = q[i + 1] /\ i + 1 \in 1 .. Len(q)
  OBVIOUS
<1>2. \A mode : AllIn(q, mode) => AllIn(Tail(q), mode) /\ Head(q).mode = mode
  BY <1>1, Zenon DEF AllIn
<1>3. NoPsk(q) => NoPsk(Tail(q)) /\ Head(q).msg # "Psk"
  BY <1>1, Zenon DEF NoPsk
<1>4. Len(q) <= 1 => Tail(q) = <<>>
  OBVIOUS
<1> QED BY <1>2, <1>3, <1>4, Zenon

\* A queue of one frame.
LEMMA Single ==
    ASSUME NEW f \in Frames
    PROVE  /\ Head(<<f>>) = f /\ Tail(<<f>>) = <<>> /\ Len(<<f>>) = 1
           /\ AllIn(<<f>>, f.mode)
BY DEF AllIn

\* The empty queue is uniform in every way.
LEMMA Empty == NoPsk(<<>>) /\ \A mode : AllIn(<<>>, mode)
BY DEF AllIn, NoPsk

\* Every step keeps the senders of established sessions.
LEMMA SendersStep ==
    ASSUME TypeOK, Senders, [Next]_vars
    PROVE  Senders'
<1> USE DEF daemonvars
<1>0. /\ conn \in [Session -> {"new", "hello", "auth", "next", "ack", "answer", "put", "spawn",
                               "done", "failed", "failed_write"}]
      /\ reader \in [Session -> {"off", "read", "remove", "end", "done"}]
      /\ heartbeat \in [Session -> {"off", "run", "done"}]
      /\ daemon \in [Session -> {"none", "first", "respond", "arm", "ack", "loop", "shell",
                                 "device", "ended", "left"}]
  BY Zenon DEF TypeOK
\* Most steps leave the registry, start no task and stop no session.
<1>1. ASSUME UNCHANGED <<env, connect_map>>,
             \A s \in Session : /\ conn[s] \in {"spawn", "done"} => conn'[s] = conn[s]
                                /\ heartbeat'[s] = "run" => heartbeat[s] = "run"
                                /\ reader'[s] = "read" => reader[s] = "read"
                                /\ daemon'[s] = "device" => daemon[s] = "device" \/ ~env.hdcd
                                /\ conn'[s] = "new" => conn[s] = "new" /\ daemon'[s] = daemon[s]
                                /\ s \in forwards' => daemon'[s] \in {"loop", "shell", "left"}
      PROVE  Senders'
  BY <1>0, <1>1, SMTT(20) DEF Senders
<1>2. ASSUME NEW s \in Session, Connect(s) PROVE Senders'
  BY <1>0, <1>1, <1>2 DEF Connect, Goto, Senders
<1>3. ASSUME NEW s \in Session, Connecting(s), ~PutConnected(s), ~SpawnTasks(s) PROVE Senders'
  <2>1. conn[s] \notin {"spawn", "done"} /\ \E at : at # "new" /\ Goto(s, at)
    BY <1>3, Zenon DEF Connecting, Hello, PskAck, Answer, SendHandshake, NextAttempt, RecvAuth,
                AuthFails, GiveUp
  <2>2. UNCHANGED <<env, connect_map, reader, heartbeat, daemon, forwards>>
    BY <1>3, Zenon DEF Connecting, Hello, PskAck, Answer, SendHandshake, NextAttempt, RecvAuth,
                AuthFails
  <2> QED BY <1>0, <1>1, <2>1, <2>2 DEF Goto, Senders
<1>4. ASSUME NEW s \in Session, PutConnected(s) PROVE Senders'
  <2>1. conn' = [conn EXCEPT ![s] = "spawn"] /\ conn[s] = "put"
    BY <1>4, Zenon DEF PutConnected, Goto
  <2>2. \A k \in DOMAIN connect_map' : connect_map'[k].session_id = s
    BY <1>4, Zenon DEF PutConnected, Put, DaemonInfo, TypeOK
  <2>3. UNCHANGED <<env, reader, heartbeat, daemon, forwards>>
    BY <1>4, Zenon DEF PutConnected
  <2> QED BY <1>0, <2>1, <2>2, <2>3, Zenon DEF Senders
<1>5. ASSUME NEW s \in Session, SpawnTasks(s) PROVE Senders'
  BY <1>0, <1>5 DEF SpawnTasks, Goto, Senders
<1>6. ASSUME NEW s \in Session, Reading(s), ~ReaderRemoves(s) PROVE Senders'
  <2>1. UNCHANGED <<env, connect_map, conn, heartbeat, daemon, forwards>>
    BY <1>6, Zenon DEF Reading, ReadFrame, ReadFails, ReaderEnds
  <2>2. \/ reader' = reader
        \/ \E at \in {"remove", "done"} : reader' = [reader EXCEPT ![s] = at]
    BY <1>6, Zenon DEF Reading, ReadFrame, ReadFails, ReaderEnds
  <2> QED BY <1>0, <1>1, <2>1, <2>2, Zenon DEF Senders
<1>7. ASSUME UNCHANGED <<env, conn, heartbeat, daemon, forwards>>,
             \A s \in Session : reader'[s] = "read" => reader[s] = "read",
             \/ connect_map' = Remove(connect_map, Key)
             \/ connect_map' = Put(connect_map, Key, DaemonInfo(0, "Ready"))
      PROVE  Senders'
  <2>1. \A k \in DOMAIN connect_map' : connect_map'[k].session_id \notin Session
    <3>1. DOMAIN connect_map \subseteq {Key}
      BY Zenon DEF TypeOK
    <3>2. CASE connect_map' = Remove(connect_map, Key)
      BY <3>1, <3>2, Zenon DEF Remove
    <3>3. CASE connect_map' = Put(connect_map, Key, DaemonInfo(0, "Ready"))
      <4>1. \A k \in DOMAIN connect_map' : connect_map'[k] = DaemonInfo(0, "Ready")
        BY <3>1, <3>3, Zenon DEF Put
      <4> QED BY <4>1, SessionAssumption DEF DaemonInfo
    <3> QED BY <1>7, <3>2, <3>3, Zenon
  <2> QED BY <1>7, <2>1, Zenon DEF Senders
<1>8. ASSUME NEW s \in Session, ReaderRemoves(s) PROVE Senders'
  BY <1>0, <1>7, <1>8, Zenon DEF ReaderRemoves
<1>9. CASE Reconnect \/ Discover
  BY <1>0, <1>1, <1>7, <1>9, Zenon DEF Reconnect, Discover, Senders
<1>10. ASSUME NEW s \in Session, Handling(s) PROVE Senders'
  <2>1. UNCHANGED <<env, connect_map, conn, reader, heartbeat>>
    BY <1>10, Zenon DEF Handling, FirstMessage, Respond, Arm, AwaitAck, Loop, ShellBridge,
                        ForwardSpeaks, ForwardEnds, host
  <2>2. /\ conn[s] # "new"
        /\ \/ daemon' = daemon /\ forwards' \subseteq forwards
           \/ daemon[s] = "loop" /\ daemon' = daemon /\ forwards' \subseteq forwards \cup {s}
           \/ \E at \in {"respond", "arm", "ack", "loop", "shell", "ended", "left"} :
                 /\ DaemonGoto(s, at) /\ forwards' = forwards
                 /\ s \in forwards => at \in {"loop", "shell", "left"}
    <3>1. daemon[s] # "none"
      BY <1>10, Zenon DEF Handling, FirstMessage, Respond, Arm, AwaitAck, Loop, ShellBridge,
                          ForwardSpeaks, ForwardEnds, Senders
    <3>2. CASE FirstMessage(s) \/ Respond(s) \/ Arm(s) \/ AwaitAck(s)
      BY <3>1, <3>2, Zenon DEF FirstMessage, Respond, Arm, AwaitAck, HandlerEnds, Leave, Senders
    <3>3. CASE Loop(s)
      BY <3>1, <3>3, Zenon DEF Loop, Dispatch, HandlerEnds, Leave, Senders
    <3>4. CASE ShellBridge(s) \/ ForwardSpeaks(s) \/ ForwardEnds(s)
      BY <3>1, <3>4, Zenon DEF ShellBridge, ForwardSpeaks, ForwardEnds, Leave, Senders
    <3> QED BY <1>10, <3>2, <3>3, <3>4, Zenon DEF Handling
  <2>3. /\ \A x \in Session : x # s => /\ daemon'[x] = daemon[x]
                                       /\ x \in forwards' => x \in forwards
        /\ daemon'[s] = "device" => daemon[s] = "device"
        /\ s \in forwards' => daemon'[s] \in {"loop", "shell", "left"}
    BY <1>0, <2>2 DEF DaemonGoto, Senders
  <2> QED BY <1>1, <2>1, <2>2, <2>3, Zenon DEF Senders
<1>11. ASSUME NEW s \in Session, Device(s) \/ LinkFails(s) PROVE Senders'
  <2>1. /\ UNCHANGED <<env, connect_map, conn, reader, heartbeat, forwards>>
        /\ daemon' = daemon \/ (daemon[s] = "device" /\ daemon' = [daemon EXCEPT ![s] = "ended"])
    BY <1>11, Zenon DEF Device, DeviceReads, DeviceEnds, DeviceSpeaks, LinkFails, DaemonGoto, host
  <2> QED BY <1>0, <1>1, <2>1 DEF Senders
<1>12. ASSUME NEW s \in Session, Heartbeat(s) PROVE Senders'
  BY <1>0, <1>1, <1>12, Zenon DEF Heartbeat, Senders
<1>13. ASSUME NEW msg, Command(msg) PROVE Senders'
  BY <1>0, <1>1, <1>13, Zenon DEF Command, host, Senders
<1>14. CASE UNCHANGED vars
  BY <1>0, <1>1, <1>14, Zenon DEF vars, host, Senders
<1> QED
  BY <1>2, <1>3, <1>4, <1>5, <1>6, <1>8, <1>9, <1>10, <1>11, <1>12, <1>13, <1>14, Zenon DEF Next

\* What a send or a receive does to the two links of each session.
LEMMA Sends ==
    ASSUME TypeOK, NEW s \in Session
    PROVE  /\ \A msg \in Messages :
                /\ Frame(HostMode(s), msg) \in Frames /\ Frame(DaemonMode(s), msg) \in Frames
                /\ SendToSession(s, msg) =>
                     /\ \A x \in Session : x # s => down'[x] = down[x]
                     /\ \/ down'[s] = down[s]
                        \/ ~Returned(s) /\ down'[s] = Append(down[s], Frame(HostMode(s), msg))
                /\ SendMessage(s, msg) =>
                     /\ \A x \in Session : x # s => up'[x] = up[x]
                     /\ \/ up'[s] = up[s]
                        \/ up'[s] = Append(up[s], Frame(DaemonMode(s), msg))
           /\ \A mode :
                /\ TakeUp(s, mode) =>
                     /\ \A x \in Session : x # s => up'[x] = up[x]
                     /\ up[s] # <<>> /\ up'[s] = Tail(up[s])
                     /\ Head(up[s]).mode = mode => noise' = noise
                /\ TakeDown(s, mode) =>
                     /\ \A x \in Session : x # s => down'[x] = down[x]
                     /\ down[s] # <<>> /\ down'[s] = Tail(down[s])
                     /\ Head(down[s]).mode = mode => noise' = noise
<1>0. down \in [Session -> Seq(Frames)] /\ up \in [Session -> Seq(Frames)]
  BY Zenon DEF TypeOK
<1>1. \A msg \in Messages : Frame(HostMode(s), msg) \in Frames /\ Frame(DaemonMode(s), msg) \in Frames
  BY Zenon DEF Frame, Frames, HostMode, DaemonMode
<1> QED BY <1>0, <1>1, Zenon DEF SendToSession, SendMessage, TakeUp, TakeDown

\* Without a psk every frame is plain and stays so.
LEMMA ClearStep ==
    ASSUME TypeOK, Senders, NoNoise, ~PskOption, \A s \in Session : InTheClear(s), [Next]_vars
    PROVE  NoNoise' /\ \A s \in Session : InTheClear(s)'
<1> USE DEF daemonvars
<1>0. /\ up \in [Session -> Seq(Frames)] /\ down \in [Session -> Seq(Frames)]
      /\ \A s \in Session : HostMode(s) = "plain" /\ DaemonMode(s) = "plain"
  BY Zenon DEF TypeOK, InTheClear, HostMode, DaemonMode
\* A step that puts plain frames on the links of one session, or takes some
\* off and reads them in the clear.
<1> DEFINE UpKept(s) ==
             /\ \A x \in Session : x # s => up'[x] = up[x]
             /\ \/ up'[s] = up[s] \/ up'[s] = <<>>
                \/ up[s] # <<>> /\ up'[s] = Tail(up[s])
                \/ \E msg \in Messages : /\ env.host_enc => msg # "Psk"
                                         /\ up'[s] = Append(up[s], Frame("plain", msg))
           DownKept(s) ==
             /\ \A x \in Session : x # s => down'[x] = down[x]
             /\ \/ down'[s] = down[s] \/ down'[s] = <<>>
                \/ down[s] # <<>> /\ down'[s] = Tail(down[s])
                \/ \E msg \in Messages : down'[s] = Append(down[s], Frame("plain", msg))
           Kept(s) == /\ env' = env /\ noise' = noise /\ ciphers' = ciphers
                      /\ daemon_ciphers' \subseteq daemon_ciphers
                      /\ UpKept(s) /\ DownKept(s)
           Goal == NoNoise' /\ \A s \in Session : InTheClear(s)'
<1>1. ASSUME NEW s \in Session, Kept(s) PROVE Goal
  <2>1. \A msg \in Messages : Frame("plain", msg) \in Frames
                              /\ Frame("plain", msg).mode = "plain" /\ Frame("plain", msg).msg = msg
    BY Zenon DEF Frame, Frames
  <2>2. AllIn(up'[s], "plain") /\ (env.host_enc => NoPsk(up'[s]))
    <3>1. CASE up'[s] = up[s]
      BY <3>1, Zenon DEF InTheClear
    <3>2. CASE up'[s] = <<>>
      BY <3>2, Empty, Zenon
    <3>3. CASE up[s] # <<>> /\ up'[s] = Tail(up[s])
      BY <1>0, <3>3, Taken, Zenon DEF InTheClear
    <3>4. ASSUME NEW msg \in Messages, env.host_enc => msg # "Psk",
                 up'[s] = Append(up[s], Frame("plain", msg))
          PROVE  AllIn(up'[s], "plain") /\ (env.host_enc => NoPsk(up'[s]))
      <4>1. AllIn(up[s], "plain") /\ up[s] \in Seq(Frames) /\ (env.host_enc => NoPsk(up[s]))
        BY <1>0, Zenon DEF InTheClear
      <4>2. AllIn(up'[s], "plain")
        BY <2>1, <3>4, <4>1, Appended
      <4>3. env.host_enc => NoPsk(up'[s])
        BY <2>1, <3>4, <4>1, Appended, SMTT(20)
      <4> QED BY <4>2, <4>3, Zenon
    <3> QED BY <1>1, <3>1, <3>2, <3>3, <3>4, Zenon
  <2>3. AllIn(down'[s], "plain")
    <3>1. CASE down'[s] = down[s]
      BY <3>1, Zenon DEF InTheClear
    <3>2. CASE down'[s] = <<>>
      BY <3>2, Empty, Zenon
    <3>3. CASE down[s] # <<>> /\ down'[s] = Tail(down[s])
      BY <1>0, <3>3, Taken, Zenon DEF InTheClear
    <3>4. ASSUME NEW msg \in Messages, down'[s] = Append(down[s], Frame("plain", msg))
          PROVE  AllIn(down'[s], "plain")
      <4>1. AllIn(down[s], "plain") /\ down[s] \in Seq(Frames)
        BY <1>0, Zenon DEF InTheClear
      <4> QED BY <2>1, <3>4, <4>1, Appended
    <3> QED BY <1>1, <3>1, <3>2, <3>3, <3>4, Zenon
  <2> QED BY <1>1, <2>2, <2>3, Zenon DEF InTheClear, NoNoise
<1>2. \A s \in Session : /\ up[s] # <<>> => Head(up[s]).mode = "plain"
                         /\ up[s] # <<>> /\ env.host_enc => Head(up[s]).msg # "Psk"
                         /\ down[s] # <<>> => Head(down[s]).mode = "plain"
  BY <1>0, Taken, Zenon DEF InTheClear
<1>3. ASSUME NEW s \in Session PROVE (up' = up => UpKept(s)) /\ (down' = down => DownKept(s))
  BY Zenon
<1>4. ASSUME NEW s \in Session, NEW msg \in Messages, SendToSession(s, msg) PROVE DownKept(s)
  BY <1>0, <1>4, Sends, Zenon
<1>5. ASSUME NEW s \in Session, NEW msg \in Messages, env.host_enc => msg # "Psk",
             SendMessage(s, msg)
      PROVE  UpKept(s)
  BY <1>0, <1>5, Sends, SMTT(20)
<1>6. ASSUME NEW s \in Session
      PROVE  /\ TakeUp(s, "plain") => UpKept(s) /\ noise' = noise
             /\ TakeDown(s, "plain") => DownKept(s) /\ noise' = noise
  BY <1>2, Sends, Zenon
<1>7. ASSUME NEW s \in Session, up'[s] = <<>>, down'[s] = <<>>,
             \A x \in Session : x # s => up'[x] = up[x] /\ down'[x] = down[x]
      PROVE  UpKept(s) /\ DownKept(s)
  BY <1>7, Zenon
<1>8. {"None", "Ok", "Fail", "Psk", "Publickey", "Signature"} \cup Commands = Messages
  BY Zenon DEF Messages, AuthTypes
<1> HIDE DEF UpKept, DownKept
<1>9. ASSUME NEW s \in Session, Connect(s) PROVE Goal
  BY <1>1, <1>3, <1>9, Zenon DEF Connect
<1>10. ASSUME NEW s \in Session, Hello(s) \/ PskAck(s) \/ Answer(s) PROVE Goal
  <2>1. down' = down \/ \E msg \in {"None", "Psk", "Signature"} : SendToSession(s, msg)
    BY <1>10, Zenon DEF Hello, PskAck, Answer, SendHandshake
  <2>2. DownKept(s)
    BY <1>3, <1>4, <1>8, <2>1, Zenon
  <2> QED BY <1>1, <1>3, <1>10, <2>2, Zenon DEF Hello, PskAck, Answer, SendHandshake
<1>11. ASSUME NEW s \in Session, RecvAuth(s) PROVE Goal
  <2>1. UpKept(s) /\ noise' = noise
    BY <1>0, <1>6, <1>11, Zenon DEF RecvAuth
  <2>2. ciphers' = ciphers
    BY <1>2, <1>11, Zenon DEF RecvAuth, TakeUp, SetSessionCipher
  <2> QED BY <1>1, <1>3, <1>11, <2>1, <2>2, Zenon DEF RecvAuth
<1>12. ASSUME NEW s \in Session,
              NextAttempt(s) \/ AuthFails(s) \/ PutConnected(s) \/ SpawnTasks(s)
                \/ ReadFails(s) \/ ReaderRemoves(s) \/ ReaderEnds(s)
       PROVE  Goal
  BY <1>1, <1>3, <1>12, Zenon DEF NextAttempt, AuthFails, PutConnected, SpawnTasks, ReadFails,
                           ReaderRemoves, ReaderEnds
<1>13. ASSUME NEW s \in Session, Heartbeat(s) PROVE Goal
  <2>1. DownKept(s)
    BY <1>3, <1>4, <1>8, <1>13, Zenon DEF Heartbeat, Commands
  <2> QED BY <1>1, <1>3, <1>13, <2>1, Zenon DEF Heartbeat
<1>14. ASSUME NEW s \in Session, ReadFrame(s) PROVE Goal
  <2>1. UpKept(s) /\ noise' = noise
    <3>1. TakeUp(s, HostMode(s))
      BY <1>14, Zenon DEF ReadFrame
    <3> QED BY <1>0, <1>6, <3>1, Zenon
  <2>2. DownKept(s)
    <3>1. down' = down \/ SendToSession(s, "Signature")
      BY <1>14, Zenon DEF ReadFrame
    <3> QED BY <1>3, <1>4, <1>8, <3>1, Zenon
  <2> QED BY <1>1, <1>14, <2>1, <2>2, Zenon DEF ReadFrame
<1>15. ASSUME NEW s \in Session, Handling(s) PROVE Goal
  <2>1. DownKept(s) /\ noise' = noise
    <3>1. \/ TakeDown(s, "plain") \/ TakeDown(s, DaemonMode(s))
          \/ down' = down /\ noise' = noise
      BY <1>15, Zenon DEF Handling, FirstMessage, Respond, Arm, AwaitAck, Loop, ShellBridge,
                          ForwardSpeaks, ForwardEnds
    <3> QED BY <1>0, <1>3, <1>6, <3>1, Zenon
  <2>2. UpKept(s)
    <3>1. CASE Respond(s)
      <4>1. up' = up \/ SendMessage(s, "Ok")
        BY <3>1, Zenon DEF Respond
      <4> QED BY <1>3, <1>5, <1>8, <4>1, Zenon
    <3>2. CASE Loop(s)
      <4>1. ASSUME TakeDown(s, DaemonMode(s)), Dispatch(s, Head(down[s]).msg) PROVE UpKept(s)
        <5>1. Head(down[s]).msg \in Messages
          BY <1>0, <4>1, LinkTypes, Zenon DEF Frames, TakeDown
        <5>2. PICK reply \in Messages \ {"Psk"} : SendMessage(s, reply)
          BY <4>1, <5>1, DispatchSends, Zenon
        <5> QED BY <1>5, <5>2, Zenon
      <4> QED BY <1>3, <3>2, <4>1, Zenon DEF Loop
    <3>3. CASE FirstMessage(s) \/ Arm(s) \/ AwaitAck(s)
      BY <1>3, <3>3, Zenon DEF FirstMessage, Arm, AwaitAck
    <3>4. CASE ShellBridge(s) \/ ForwardSpeaks(s) \/ ForwardEnds(s)
      <4>1. up' = up \/ SendMessage(s, "Other")
        BY <3>4, Zenon DEF ShellBridge, ForwardSpeaks, ForwardEnds
      <4>2. "Other" \in Messages /\ "Other" # "Psk"
        BY Zenon DEF Messages, Commands
      <4> QED BY <1>3, <1>5, <4>1, <4>2, Zenon
    <3> QED BY <1>15, <3>1, <3>2, <3>3, <3>4, Zenon DEF Handling
  <2>3. env' = env /\ ciphers' = ciphers /\ daemon_ciphers' \subseteq daemon_ciphers
    BY <1>15, Zenon DEF Handling, FirstMessage, Respond, Arm, AwaitAck, Loop, Dispatch, HandlerEnds,
                        ShellBridge, ForwardSpeaks, ForwardEnds, host
  <2> QED BY <1>1, <2>1, <2>2, <2>3, Zenon
<1>16. ASSUME NEW s \in Session, Device(s) PROVE Goal
  <2>1. DownKept(s) /\ noise' = noise
    BY <1>3, <1>6, <1>16, Zenon DEF Device, DeviceReads, DeviceEnds, DeviceSpeaks
  <2>2. UpKept(s)
    BY <1>3, <1>5, <1>16, Zenon DEF Device, DeviceReads, DeviceEnds, DeviceSpeaks
  <2> QED BY <1>1, <1>16, <2>1, <2>2, Zenon DEF Device, DeviceReads, DeviceEnds, DeviceSpeaks, host
<1>17. ASSUME NEW s \in Session, LinkFails(s) PROVE Goal
  <2>1. UpKept(s) /\ DownKept(s)
    BY <1>0, <1>7, <1>17, Zenon DEF LinkFails
  <2> QED BY <1>1, <1>17, <2>1, Zenon DEF LinkFails, host
<1>18. ASSUME NEW msg \in Commands, Command(msg) PROVE Goal
  <2>1. PICK s \in Session : SendToSession(s, msg)
    BY <1>18, Zenon DEF Command
  <2>2. DownKept(s)
    BY <1>4, <1>8, <2>1, Zenon
  <2> QED BY <1>1, <1>3, <1>18, <2>2, Zenon DEF Command, host
<1>19. CASE Reconnect \/ Discover \/ UNCHANGED vars
  BY <1>19, Zenon DEF Reconnect, Discover, vars, host, NoNoise, InTheClear
<1> QED
  BY <1>9, <1>10, <1>11, <1>12, <1>13, <1>14, <1>15, <1>16, <1>17, <1>18, <1>19, Zenon
     DEF Next, Connecting, Reading

\* With a psk the two sides agree on every frame.
LEMMA AgreedStep ==
    ASSUME TypeOK, Senders, NoNoise, PskOption, env' = env, [Next]_vars,
           \A s \in Session : daemon[s] = "left" \/ Agreed(s)
    PROVE  NoNoise' /\ \A s \in Session : daemon'[s] = "left" \/ Agreed(s)'
<1> USE DEF daemonvars
<1> DEFINE Same(x) == /\ conn'[x] = conn[x] /\ daemon'[x] = daemon[x]
                      /\ up'[x] = up[x] /\ down'[x] = down[x]
                      /\ x \in ciphers' <=> x \in ciphers
                      /\ x \in daemon_ciphers' <=> x \in daemon_ciphers
           Others(s) == noise' = noise /\ \A x \in Session : x # s => Same(x)
           Goal == NoNoise' /\ \A s \in Session : daemon'[s] = "left" \/ Agreed(s)'
<1>0. /\ up \in [Session -> Seq(Frames)] /\ down \in [Session -> Seq(Frames)]
      /\ conn \in [Session -> {"new", "hello", "auth", "next", "ack", "answer", "put", "spawn",
                               "done", "failed", "failed_write"}]
      /\ daemon \in [Session -> {"none", "first", "respond", "arm", "ack", "loop", "shell",
                                 "device", "ended", "left"}]
  BY Zenon DEF TypeOK
\* What holds of a session still holds when nothing it speaks of has changed.
<1>1. ASSUME NEW s \in Session, daemon[s] # "left", Others(s), daemon'[s] = "left" \/ Agreed(s)'
      PROVE  Goal
  <2>1. ASSUME NEW x \in Session, x # s PROVE daemon'[x] = "left" \/ Agreed(x)'
    <3>1. Same(x) /\ (daemon[x] = "left" \/ Agreed(x))
      BY <1>1, <2>1, Zenon
    <3> QED BY <3>1, Zenon DEF Agreed
  <2>2. NoNoise'
    <3>1. \A x \in noise : x \in Session /\ daemon[x] = "left"
      BY Zenon DEF NoNoise, TypeOK
    <3> QED BY <1>1, <3>1, Zenon DEF NoNoise, PskOption, EncryptEnabled
  <2> QED BY <1>1, <2>1, <2>2, Zenon
<1>2. ASSUME noise' = noise, \A x \in Session : Same(x) PROVE Goal
  <2>1. ASSUME NEW x \in Session PROVE daemon'[x] = "left" \/ Agreed(x)'
    <3>1. Same(x) /\ (daemon[x] = "left" \/ Agreed(x))
      BY <1>2, Zenon
    <3> QED BY <3>1, Zenon DEF Agreed
  <2>2. NoNoise'
    <3>1. \A x \in noise : x \in Session /\ daemon[x] = "left"
      BY Zenon DEF NoNoise, TypeOK
    <3> QED BY <1>2, <3>1, Zenon DEF NoNoise, PskOption, EncryptEnabled
  <2> QED BY <2>1, <2>2, Zenon
<1>3. \A msg \in Messages : /\ Frame("plain", msg) \in Frames /\ Frame("plain", msg).mode = "plain"
                            /\ Frame("cipher", msg) \in Frames /\ Frame("cipher", msg).mode = "cipher"
  BY Zenon DEF Frame, Frames
<1>4. /\ \A s \in Session : s \in ciphers => HostMode(s) = "cipher"
      /\ \A s \in Session : s \notin ciphers => HostMode(s) = "plain"
      /\ \A s \in Session : s \in daemon_ciphers => DaemonMode(s) = "cipher"
      /\ \A s \in Session : s \notin daemon_ciphers => DaemonMode(s) = "plain"
  BY Zenon DEF HostMode, DaemonMode
\* A session that is established, or being so, sends encrypted frames.
<1>5. ASSUME NEW s \in Session, NEW msg \in Messages, s \in ciphers,
             SendToSession(s, msg) \/ down' = down
      PROVE  /\ \A x \in Session : x # s => down'[x] = down[x]
             /\ daemon[s] \in {"arm", "ack", "loop", "shell"} => AllIn(down'[s], "cipher")
  <2>1. daemon[s] \in {"arm", "ack", "loop", "shell"} => AllIn(down[s], "cipher")
    BY <1>5, Zenon DEF Agreed
  <2>2. CASE down' = down
    BY <2>1, <2>2, Zenon
  <2>3. CASE SendToSession(s, msg)
    <3>1. HostMode(s) = "cipher"
      BY <1>4, <1>5, Zenon
    <3>2. AllIn(down[s], "cipher") => AllIn(Append(down[s], Frame("cipher", msg)), "cipher")
      <4>1. /\ down[s] \in Seq(Frames)
            /\ Frame("cipher", msg) \in Frames /\ Frame("cipher", msg).mode = "cipher"
        BY <1>0, <1>3, Zenon
      <4> QED BY <4>1, Appended, Zenon
    <3>3. /\ \A x \in Session : x # s => down'[x] = down[x]
          /\ down'[s] = down[s] \/ down'[s] = Append(down[s], Frame(HostMode(s), msg))
      BY <2>3, Sends, Zenon
    <3> QED BY <2>1, <3>1, <3>2, <3>3, ZenonT(30)
  <2> QED BY <1>5, <2>2, <2>3, Zenon
<1>6. ASSUME NEW s \in Session, daemon[s] # "left", Connect(s) PROVE Goal
  <2>1. Agreed(s) /\ conn[s] = "new" /\ env.hdcd
    BY <1>6, Zenon DEF Connect, Senders, PskOption, EncryptEnabled
  <2>2. Others(s) /\ UNCHANGED <<up, down, ciphers, daemon_ciphers>>
    BY <1>0, <1>6, Zenon DEF Connect, Goto
  <2>3. \/ conn'[s] = "hello" /\ daemon'[s] = "first"
        \/ conn'[s] = "failed" /\ daemon'[s] = daemon[s]
    BY <1>0, <1>6, <2>1, Zenon DEF Connect, Goto
  <2>4. Agreed(s)'
    BY <2>1, <2>2, <2>3, Empty, Zenon DEF Agreed
  <2> QED BY <1>6, <1>1, <2>2, <2>4, Zenon
<1>7. ASSUME NEW s \in Session, daemon[s] # "left", Hello(s) PROVE Goal
  <2>1. Agreed(s) /\ conn[s] = "hello" /\ s \notin ciphers /\ down[s] = <<>>
    BY <1>7, Zenon DEF Hello, SendHandshake, Agreed
  <2>2. /\ UNCHANGED <<daemon, up, ciphers, daemon_ciphers, noise>>
        /\ conn'[s] \in {"auth", "failed_write"}
        /\ \A x \in Session : x # s => conn'[x] = conn[x]
    BY <1>0, <1>7, Zenon DEF Hello, SendHandshake, Goto
  <2>3. /\ \A x \in Session : x # s => down'[x] = down[x]
        /\ \/ down'[s] = <<>>
           \/ daemon[s] # "ended" /\ down'[s] = <<Frame("plain", "None")>>
    <3>1. "None" \in Messages
      BY Zenon DEF Messages, AuthTypes
    <3>2. HostMode(s) = "plain" /\ Append(down[s], Frame("plain", "None")) = <<Frame("plain", "None")>>
      BY <1>4, <2>1
    <3>3. down' = down \/ SendToSession(s, "None")
      BY <1>7, Zenon DEF Hello, SendHandshake
    <3>4. CASE SendToSession(s, "None")
      <4>1. /\ \A x \in Session : x # s => down'[x] = down[x]
            /\ \/ down'[s] = down[s]
               \/ ~Returned(s) /\ down'[s] = Append(down[s], Frame(HostMode(s), "None"))
        BY <3>1, <3>4, Sends, Zenon
      <4> QED BY <2>1, <3>2, <4>1, Zenon DEF Returned
    <3> QED BY <2>1, <3>3, <3>4, Zenon
  <2>4. AllIn(down'[s], "plain") /\ Len(down'[s]) <= 1
    <3>1. "None" \in Messages
      BY Zenon DEF Messages, AuthTypes
    <3>2. /\ AllIn(<<Frame("plain", "None")>>, "plain") /\ Len(<<Frame("plain", "None")>>) = 1
          /\ AllIn(<<>>, "plain") /\ Len(<<>>) = 0
      BY <1>3, <3>1, Single, Empty, Zenon
    <3>3. CASE down'[s] = <<>>
      BY <3>2, <3>3
    <3>4. CASE down'[s] = <<Frame("plain", "None")>>
      BY <3>2, <3>4, SMTT(20)
    <3> QED BY <2>3, <3>3, <3>4, Zenon
  <2>5. Agreed(s)'
    BY <2>1, <2>2, <2>3, <2>4, Zenon DEF Agreed
  <2> QED BY <1>7, <1>1, <2>2, <2>3, <2>5, Zenon
<1>8. ASSUME NEW s \in Session, daemon[s] # "left", PskAck(s) PROVE Goal
  <2>1. Agreed(s) /\ conn[s] = "ack" /\ s \in ciphers
    BY <1>8, Zenon DEF PskAck, SendHandshake, Agreed
  <2>2. /\ UNCHANGED <<daemon, up, ciphers, daemon_ciphers, noise>>
        /\ conn'[s] \in {"put", "failed_write"}
        /\ \A x \in Session : x # s => conn'[x] = conn[x]
    BY <1>0, <1>8, Zenon DEF PskAck, SendHandshake, Goto
  <2>3. /\ \A x \in Session : x # s => down'[x] = down[x]
        /\ daemon[s] \in {"arm", "ack", "loop", "shell"} => AllIn(down'[s], "cipher")
    BY <1>5, <1>8, <2>1, ZenonT(30) DEF PskAck, SendHandshake, Messages, AuthTypes
  <2>4. Agreed(s)'
    BY <1>0, <2>1, <2>2, <2>3, Zenon DEF Agreed
  <2> QED BY <1>8, <1>1, <2>2, <2>3, <2>4, Zenon
<1>9. ASSUME NEW s \in Session, daemon[s] # "left", Answer(s) \/ NextAttempt(s) PROVE Goal
  BY <1>9, Zenon DEF Answer, SendHandshake, NextAttempt, Agreed
<1>10. ASSUME NEW s \in Session, daemon[s] # "left", RecvAuth(s) PROVE Goal
  <2>1. /\ Agreed(s) /\ conn[s] = "auth" /\ s \notin ciphers
        /\ up[s] = <<Frame("plain", "Psk")>>
    BY <1>10, Zenon DEF RecvAuth, TakeUp, Agreed
  <2>2. Head(up[s]) = Frame("plain", "Psk") /\ up'[s] = <<>>
    <3>1. Frame("plain", "Psk") \in Frames
      BY <1>3, Zenon DEF Messages, AuthTypes
    <3> QED BY <1>10, <2>1, <3>1, Sends, Single, Zenon DEF RecvAuth
  <2>3. Frame("plain", "Psk").mode = "plain" /\ Frame("plain", "Psk").msg = "Psk"
    BY Zenon DEF Frame
  <2>4. /\ UNCHANGED <<daemon, down, daemon_ciphers, noise>>
        /\ \A x \in Session : x # s => up'[x] = up[x]
    <3>1. TakeUp(s, "plain") /\ UNCHANGED <<daemon, down, daemon_ciphers>>
      BY <1>10, Zenon DEF RecvAuth
    <3>2. /\ \A x \in Session : x # s => up'[x] = up[x]
          /\ Head(up[s]).mode = "plain" => noise' = noise
      BY <3>1, Sends, ZenonT(30)
    <3> QED BY <2>2, <2>3, <3>1, <3>2, Zenon
  <2>5. \/ ciphers' = ciphers /\ conn' = [conn EXCEPT ![s] = "failed"]
        \/ ciphers' = ciphers \cup {s} /\ conn' = [conn EXCEPT ![s] = "ack"]
    BY <1>10, <2>2, <2>3, ZenonT(30) DEF RecvAuth, Readable, GiveUp, SetSessionCipher, Goto, AuthTypes
  <2>6. Agreed(s)'
    BY <1>0, <2>1, <2>2, <2>4, <2>5, Empty DEF Agreed
  <2> QED BY <1>10, <1>0, <1>1, <2>4, <2>5, <2>6, Zenon
<1>11. ASSUME NEW s \in Session, daemon[s] # "left", AuthFails(s) \/ PutConnected(s) \/ SpawnTasks(s) PROVE Goal
  <2>1. /\ UNCHANGED <<daemon, up, down, ciphers, daemon_ciphers, noise>>
        /\ \/ conn[s] = "auth" /\ conn' = [conn EXCEPT ![s] = "failed"]
           \/ conn[s] = "put" /\ conn' = [conn EXCEPT ![s] = "spawn"]
           \/ conn[s] = "spawn" /\ conn' = [conn EXCEPT ![s] = "done"]
    BY <1>11, Zenon DEF AuthFails, PutConnected, SpawnTasks, GiveUp, Goto
  <2>2. Agreed(s)'
    BY <1>11, <1>0, <2>1, Zenon DEF Agreed
  <2> QED BY <1>11, <1>0, <1>1, <2>1, <2>2, Zenon
<1>12. ASSUME NEW s \in Session, daemon[s] # "left", Heartbeat(s) PROVE Goal
  <2>1. Agreed(s) /\ s \in ciphers
    BY <1>12, Zenon DEF Heartbeat, Senders, Agreed
  <2>2. UNCHANGED <<conn, daemon, up, ciphers, daemon_ciphers, noise>>
    BY <1>12, Zenon DEF Heartbeat
  <2>3. /\ \A x \in Session : x # s => down'[x] = down[x]
        /\ daemon[s] \in {"arm", "ack", "loop", "shell"} => AllIn(down'[s], "cipher")
    BY <1>5, <1>12, <2>1, Zenon DEF Heartbeat, Messages, Commands
  <2>4. conn[s] = "done"
    BY <1>12, Zenon DEF Heartbeat, Senders
  <2>5. Agreed(s)'
    BY <1>0, <2>1, <2>2, <2>3, <2>4, Zenon DEF Agreed
  <2> QED BY <1>12, <1>1, <2>2, <2>3, <2>5, ZenonT(30)
<1>13. ASSUME NEW s \in Session, daemon[s] # "left", ReadFrame(s) PROVE Goal
  <2>1. Agreed(s) /\ s \in ciphers /\ conn[s] = "done" /\ up[s] # <<>> /\ HostMode(s) = "cipher"
    BY <1>4, <1>13, Zenon DEF ReadFrame, TakeUp, Senders, Agreed
  <2>2. AllIn(up[s], "cipher")
    BY <2>1, Zenon DEF Agreed
  <2>3. UNCHANGED <<conn, daemon, ciphers, daemon_ciphers>>
    BY <1>13, Zenon DEF ReadFrame
  <2>4. /\ \A x \in Session : x # s => up'[x] = up[x]
        /\ AllIn(up'[s], "cipher") /\ noise' = noise
    <3>1. Head(up[s]).mode = "cipher" /\ AllIn(Tail(up[s]), "cipher")
      BY <1>0, <2>1, <2>2, Taken, Zenon
    <3>2. TakeUp(s, "cipher")
      BY <1>13, <2>1, Zenon DEF ReadFrame
    <3> QED BY <3>1, <3>2, Sends, Zenon
  <2>5. /\ \A x \in Session : x # s => down'[x] = down[x]
        /\ daemon[s] \in {"arm", "ack", "loop", "shell"} => AllIn(down'[s], "cipher")
    BY <1>5, <1>13, <2>1, Zenon DEF ReadFrame, Messages, AuthTypes
  <2>6. Agreed(s)'
    BY <1>0, <2>1, <2>3, <2>4, <2>5, Zenon DEF Agreed
  <2> QED BY <1>13, <1>1, <2>3, <2>4, <2>5, <2>6, ZenonT(30)
<1>14. ASSUME NEW s \in Session, daemon[s] # "left", ReadFails(s) \/ ReaderRemoves(s) \/ ReaderEnds(s) PROVE Goal
  BY <1>2, <1>14, Zenon DEF ReadFails, ReaderRemoves, ReaderEnds
<1>15. ASSUME NEW s \in Session, daemon[s] # "left", FirstMessage(s) PROVE Goal
  <2>1. /\ Agreed(s) /\ daemon[s] = "first" /\ s \notin ciphers /\ s \notin daemon_ciphers
        /\ up[s] = <<>> /\ AllIn(down[s], "plain") /\ Len(down[s]) <= 1
    BY <1>15, Zenon DEF FirstMessage, Agreed
  <2>2. UNCHANGED <<conn, up, ciphers, daemon_ciphers>>
    BY <1>15, Zenon DEF FirstMessage, host
  <2>3. /\ noise' = noise /\ \A x \in Session : x # s => down'[x] = down[x]
        /\ \/ daemon' = [daemon EXCEPT ![s] = "respond"] /\ down'[s] = <<>> /\ down[s] # <<>>
           \/ daemon' = [daemon EXCEPT ![s] = "ended"] /\ down' = down
    <3>1. CASE TakeDown(s, "plain") /\ DaemonGoto(s, "respond")
      <4>1. /\ \A x \in Session : x # s => down'[x] = down[x]
            /\ down[s] # <<>> /\ down'[s] = Tail(down[s])
            /\ Head(down[s]).mode = "plain" => noise' = noise
        BY <3>1, Sends, Zenon
      <4>2. Head(down[s]).mode = "plain" /\ Tail(down[s]) = <<>>
        BY <1>0, <2>1, <4>1, Taken, Zenon
      <4> QED BY <3>1, <4>1, <4>2, Zenon DEF DaemonGoto
    <3>2. CASE DaemonGoto(s, "ended") /\ UNCHANGED <<down, noise>>
      BY <3>2, Zenon DEF DaemonGoto
    <3> QED BY <1>15, <3>1, <3>2, Zenon DEF FirstMessage
  <2>4. Agreed(s)'
    BY <1>0, <2>1, <2>2, <2>3, SMTT(20) DEF Agreed
  <2> QED BY <1>15, <1>0, <1>1, <2>2, <2>3, <2>4, Zenon
<1>16. ASSUME NEW s \in Session, daemon[s] # "left", Respond(s) PROVE Goal
  <2>1. /\ Agreed(s) /\ daemon[s] = "respond" /\ s \notin ciphers /\ s \notin daemon_ciphers
        /\ up[s] = <<>> /\ down[s] = <<>> /\ DaemonMode(s) = "plain"
    BY <1>4, <1>16, ZenonT(30) DEF Respond, Agreed
  <2>2. UNCHANGED <<conn, down, ciphers, daemon_ciphers, noise>>
    BY <1>16, Zenon DEF Respond, host
  <2>3. "Psk" \in Messages
    BY Zenon DEF Messages, AuthTypes
  <2>4. /\ \A x \in Session : x # s => up'[x] = up[x]
        /\ up'[s] \in {<<>>, <<Frame("plain", "Psk")>>}
        /\ \E at \in {"arm", "ended"} : daemon' = [daemon EXCEPT ![s] = at]
    <3>1. CASE UNCHANGED up /\ DaemonGoto(s, "ended")
      BY <2>1, <3>1, Zenon DEF DaemonGoto
    <3>2. CASE SendMessage(s, "Psk") /\ DaemonGoto(s, "arm")
      <4>1. Append(<<>>, Frame("plain", "Psk")) = <<Frame("plain", "Psk")>>
        OBVIOUS
      <4>2. /\ \A x \in Session : x # s => up'[x] = up[x]
            /\ up'[s] = up[s] \/ up'[s] = Append(up[s], Frame(DaemonMode(s), "Psk"))
        BY <2>3, <3>2, Sends, Zenon
      <4> QED BY <2>1, <3>2, <4>1, <4>2, ZenonT(30) DEF DaemonGoto
    <3> QED BY <1>16, <3>1, <3>2, Zenon DEF Respond
  <2>5. Agreed(s)'
    BY <1>0, <2>1, <2>2, <2>4, Zenon DEF Agreed
  <2> QED BY <1>16, <1>0, <1>1, <2>2, <2>4, <2>5, ZenonT(30)
<1>17. ASSUME NEW s \in Session, daemon[s] # "left", Arm(s) PROVE Goal
  <2>1. /\ UNCHANGED <<conn, up, down, ciphers, noise>> /\ daemon[s] = "arm"
        /\ daemon_ciphers' = daemon_ciphers \cup {s} /\ daemon' = [daemon EXCEPT ![s] = "ack"]
    BY <1>17, Zenon DEF Arm, DaemonGoto, PskOption, host
  <2>2. Agreed(s)'
    BY <1>0, <2>1, Zenon DEF Agreed
  <2> QED BY <1>0, <1>1, <2>1, <2>2, ZenonT(30)
<1>18. ASSUME NEW s \in Session, daemon[s] # "left",
              AwaitAck(s) \/ Loop(s) \/ ShellBridge(s) \/ ForwardSpeaks(s)
       PROVE  Goal
  <2>1. /\ Agreed(s) /\ daemon[s] \in {"ack", "loop", "shell"} /\ s \in daemon_ciphers
        /\ DaemonMode(s) = "cipher"
    <3>1. Agreed(s) /\ daemon[s] \in {"ack", "loop", "shell"}
      BY <1>18, Zenon DEF AwaitAck, Loop, ShellBridge, ForwardSpeaks, Senders
    <3> QED BY <1>4, <3>1, Zenon DEF Agreed
  <2>2. UNCHANGED <<conn, ciphers>>
    BY <1>18, Zenon DEF AwaitAck, Loop, ShellBridge, ForwardSpeaks, host
  <2>3. down[s] # <<>> => s \in ciphers /\ AllIn(down[s], "cipher")
    BY <2>1, Zenon DEF Agreed
  <2>4. /\ noise' = noise /\ \A x \in Session : x # s => down'[x] = down[x]
        /\ down' = down \/ (down[s] # <<>> /\ AllIn(down'[s], "cipher"))
    <3>1. CASE UNCHANGED <<down, noise>>
      BY <3>1, Zenon
    <3>2. CASE TakeDown(s, DaemonMode(s))
      <4>1. down[s] # <<>> /\ down[s] \in Seq(Frames) /\ AllIn(down[s], "cipher")
        BY <1>0, <2>3, <3>2, Zenon DEF TakeDown
      <4>2. Head(down[s]).mode = "cipher" /\ AllIn(Tail(down[s]), "cipher")
        BY <4>1, Taken, Zenon
      <4> QED BY <2>1, <3>2, <4>1, <4>2, Sends, Zenon
    <3> QED BY <1>18, <3>1, <3>2, Zenon DEF AwaitAck, Loop, ShellBridge, ForwardSpeaks
  <2>5. \/ /\ daemon_ciphers' = daemon_ciphers
           /\ \/ daemon' = daemon
              \/ /\ down[s] # <<>>
                 /\ \E at \in {"loop", "shell"} : daemon' = [daemon EXCEPT ![s] = at]
        \/ /\ daemon_ciphers' \in {daemon_ciphers, daemon_ciphers \ {s}}
           /\ \E at \in {"ended", "left"} : daemon' = [daemon EXCEPT ![s] = at]
    <3>1. CASE AwaitAck(s)
      BY <3>1, Zenon DEF AwaitAck, TakeDown, HandlerEnds, Leave, DaemonGoto
    <3>2. CASE Loop(s)
      BY <3>2, Zenon DEF Loop, Dispatch, TakeDown, HandlerEnds, Leave, DaemonGoto
    <3>3. CASE ShellBridge(s) \/ ForwardSpeaks(s)
      BY <3>3, Zenon DEF ShellBridge, ForwardSpeaks, Leave, DaemonGoto
    <3> QED BY <1>18, <3>1, <3>2, <3>3, Zenon
  <2>6. /\ \A x \in Session : x # s => up'[x] = up[x]
        /\ up'[s] = up[s] \/ (s \in ciphers /\ AllIn(up'[s], "cipher"))
    <3>1. CASE up' = up
      BY <3>1, Zenon
    <3>2. CASE daemon[s] \in {"loop", "shell"} /\ \E msg \in Messages : SendMessage(s, msg)
      <4>1. s \in ciphers /\ AllIn(up[s], "cipher") /\ up[s] \in Seq(Frames)
        BY <1>0, <2>1, <3>2, Zenon DEF Agreed
      <4>2. \A msg \in Messages : AllIn(Append(up[s], Frame("cipher", msg)), "cipher")
        BY <1>3, <4>1, Appended, Zenon
      <4> QED BY <2>1, <3>2, <4>1, <4>2, Sends, Zenon
    <3>3. ASSUME Loop(s), TakeDown(s, DaemonMode(s)), Dispatch(s, Head(down[s]).msg)
          PROVE  daemon[s] = "loop" /\ \E msg \in Messages : SendMessage(s, msg)
      <4>1. Head(down[s]).msg \in Messages
        BY <1>0, <3>3, LinkTypes, Zenon DEF Frames, TakeDown
      <4> QED BY <3>3, <4>1, DispatchSends, Zenon DEF Loop
    <3>4. "Other" \in Messages
      BY Zenon DEF Messages, Commands
    <3>5. CASE ForwardSpeaks(s) \/ ShellBridge(s)
      BY <1>18, <3>1, <3>2, <3>4, <3>5, Zenon DEF ForwardSpeaks, ShellBridge, Senders
    <3> QED BY <1>18, <3>1, <3>2, <3>3, <3>5, Zenon DEF AwaitAck, Loop
  <2>7. daemon'[s] = "left" \/ Agreed(s)'
    BY <1>0, <2>1, <2>2, <2>3, <2>4, <2>5, <2>6, ZenonT(30) DEF Agreed
  <2> QED BY <1>18, <1>0, <1>1, <2>2, <2>4, <2>5, <2>6, <2>7, Zenon
<1>19. ASSUME NEW s \in Session, daemon[s] # "left", Device(s) PROVE Goal
  BY <1>19, Zenon DEF Device, DeviceReads, DeviceEnds, DeviceSpeaks, Agreed
<1>20. ASSUME NEW s \in Session, daemon[s] # "left", LinkFails(s) PROVE Goal
  <2>1. /\ UNCHANGED <<conn, daemon, ciphers, daemon_ciphers, noise>>
        /\ up' = [up EXCEPT ![s] = <<>>] /\ down' = [down EXCEPT ![s] = <<>>]
    BY <1>20, ZenonT(30) DEF LinkFails, host
  <2>2. Agreed(s)'
    BY <1>20, <1>0, <2>1, Empty, SMTT(20) DEF Agreed
  <2> QED BY <1>20, <1>0, <1>1, <2>1, <2>2, Zenon
<1>21. ASSUME NEW s \in Session, daemon[s] # "left",
              NEW msg \in Commands, Command(msg), s = connect_map[Key].session_id
       PROVE  Goal
  <2>1. SendToSession(s, msg) /\ conn[s] \in {"spawn", "done"}
    BY <1>21, Zenon DEF Command, Senders
  <2>2. Agreed(s) /\ s \in ciphers
    BY <1>21, <2>1, ZenonT(30) DEF Agreed
  <2>3. UNCHANGED <<conn, daemon, up, ciphers, daemon_ciphers, noise>>
    BY <1>21, Zenon DEF Command, host
  <2>4. /\ \A x \in Session : x # s => down'[x] = down[x]
        /\ daemon[s] \in {"arm", "ack", "loop", "shell"} => AllIn(down'[s], "cipher")
    BY <1>5, <2>1, <2>2, Zenon DEF Messages
  <2>5. Agreed(s)'
    BY <1>0, <2>1, <2>2, <2>3, <2>4, ZenonT(30) DEF Agreed
  <2> QED BY <1>21, <1>1, <2>3, <2>4, <2>5, Zenon
<1>22. CASE Reconnect \/ Discover \/ (\E s \in Session : ForwardEnds(s)) \/ UNCHANGED vars
  BY <1>2, <1>22, Zenon DEF Reconnect, Discover, ForwardEnds, vars, host
\* A session whose handler has left forwarding tasks behind stays one.
<1>23. ASSUME NEW s \in Session, daemon[s] = "left", daemon' = daemon,
              noise' \subseteq noise \cup {s}, \A x \in Session : x # s => Same(x)
       PROVE  Goal
  <2>1. ASSUME NEW x \in Session PROVE daemon'[x] = "left" \/ Agreed(x)'
    <3>1. CASE x = s
      BY <1>23, <3>1, Zenon
    <3>2. CASE x # s
      <4>1. Same(x) /\ (daemon[x] = "left" \/ Agreed(x))
        BY <1>23, <3>2, Zenon
      <4> QED BY <4>1, Zenon DEF Agreed
    <3> QED BY <3>1, <3>2, Zenon
  <2>2. NoNoise'
    <3>1. \A x \in noise : daemon[x] = "left"
      BY Zenon DEF NoNoise
    <3> QED BY <1>23, <3>1, Zenon DEF NoNoise, PskOption, EncryptEnabled
  <2> QED BY <2>1, <2>2, Zenon
<1>24. ASSUME NEW s \in Session, daemon[s] = "left", ~(\E x \in Session : ForwardEnds(x)),
              \/ Connect(s) \/ Connecting(s) \/ Heartbeat(s) \/ Reading(s) \/ Handling(s)
              \/ Device(s) \/ LinkFails(s)
       PROVE  Goal
  <2>1. /\ daemon' = daemon /\ daemon_ciphers' = daemon_ciphers
        /\ \A x \in Session : x # s => conn'[x] = conn[x]
    <3>1. CASE Connect(s)
      BY <1>24, <3>1, Zenon DEF Connect, Senders
    <3>2. CASE Connecting(s)
      BY <1>0, <3>2, Zenon DEF Connecting, Hello, PskAck, Answer, SendHandshake, NextAttempt,
                               RecvAuth, AuthFails, PutConnected, SpawnTasks, GiveUp, Goto
    <3>3. CASE Heartbeat(s) \/ Reading(s) \/ Device(s) \/ LinkFails(s)
      BY <1>24, <3>3, Zenon DEF Heartbeat, Reading, ReadFrame, ReadFails, ReaderRemoves, ReaderEnds,
                         Device, DeviceReads, DeviceEnds, DeviceSpeaks, LinkFails, host
    <3>4. CASE Handling(s)
      BY <1>24, <3>4, Zenon DEF Handling, FirstMessage, Respond, Arm, AwaitAck, Loop, ShellBridge,
                         ForwardSpeaks, host
    <3> QED BY <1>24, <3>1, <3>2, <3>3, <3>4, Zenon
  <2>2. \A x \in Session : x # s => (x \in ciphers' <=> x \in ciphers)
    BY <1>24, Zenon DEF Connect, Senders, Connecting, Hello, PskAck, Answer, SendHandshake,
         NextAttempt, RecvAuth, SetSessionCipher, AuthFails, PutConnected, SpawnTasks, Heartbeat,
         Reading, ReadFrame, ReadFails, ReaderRemoves, ReaderEnds, Device, DeviceReads, DeviceEnds,
         DeviceSpeaks, LinkFails, Handling, FirstMessage, Respond, Arm, AwaitAck, Loop, ShellBridge,
         ForwardSpeaks, host
  <2>3. /\ \A x \in Session : x # s => up'[x] = up[x]
        /\ noise' \subseteq noise \cup {s}
    <3>1. \/ UNCHANGED <<up, noise>> \/ \E mode : TakeUp(s, mode)
          \/ SendMessage(s, "Other") /\ UNCHANGED noise
          \/ LinkFails(s)
      BY <1>24, Zenon DEF Connect, Senders, Connecting, Hello, PskAck, Answer, SendHandshake,
           NextAttempt, RecvAuth, AuthFails, PutConnected, SpawnTasks, Heartbeat,
           Reading, ReadFrame, ReadFails, ReaderRemoves, ReaderEnds, Device, DeviceReads, DeviceEnds,
           DeviceSpeaks, Handling, FirstMessage, Respond, Arm, AwaitAck, Loop, ShellBridge,
           ForwardSpeaks, host
    <3>2. "Other" \in Messages
      BY Zenon DEF Messages, Commands
    <3>3. CASE \E mode : TakeUp(s, mode)
      BY <1>0, <3>3, Zenon DEF TakeUp
    <3>4. CASE SendMessage(s, "Other") /\ UNCHANGED noise
      BY <3>2, <3>4, Sends, Zenon
    <3>5. CASE LinkFails(s)
      BY <1>0, <3>5, Zenon DEF LinkFails
    <3> QED BY <3>1, <3>3, <3>4, <3>5, Zenon
  <2>4. \A x \in Session : x # s => down'[x] = down[x]
    <3>1. \/ down' = down \/ \E msg \in {"None", "Psk", "Signature", "Other"} : SendToSession(s, msg)
          \/ LinkFails(s)
      BY <1>24, Zenon DEF Connect, Senders, Connecting, Hello, PskAck, Answer, SendHandshake,
           NextAttempt, RecvAuth, AuthFails, PutConnected, SpawnTasks, Heartbeat,
           Reading, ReadFrame, ReadFails, ReaderRemoves, ReaderEnds, Device, DeviceReads, DeviceEnds,
           DeviceSpeaks, Handling, FirstMessage, Respond, Arm, AwaitAck, Loop, ShellBridge,
           ForwardSpeaks, host
    <3>2. {"None", "Psk", "Signature", "Other"} \subseteq Messages
      BY Zenon DEF Messages, AuthTypes, Commands
    <3>3. CASE LinkFails(s)
      BY <1>0, <3>3, Zenon DEF LinkFails
    <3> QED BY <3>1, <3>2, <3>3, Sends, Zenon
  <2> QED BY <1>23, <1>24, <2>1, <2>2, <2>3, <2>4, Zenon
<1>25. ASSUME NEW msg \in Commands, Command(msg) PROVE Goal
  <2>1. PICK s \in Session : s = connect_map[Key].session_id /\ SendToSession(s, msg)
    BY <1>25, Zenon DEF Command
  <2>2. CASE daemon[s] # "left"
    BY <1>21, <1>25, <2>1, <2>2, Zenon
  <2>3. CASE daemon[s] = "left"
    <3>1. UNCHANGED <<conn, daemon, up, ciphers, daemon_ciphers, noise>>
      BY <1>25, Zenon DEF Command, host
    <3>2. \A x \in Session : x # s => down'[x] = down[x]
      BY <1>25, <2>1, Sends, Zenon DEF Messages
    <3> QED BY <1>23, <2>3, <3>1, <3>2, Zenon
  <2> QED BY <2>2, <2>3, Zenon
<1>26. ASSUME NEW s \in Session, daemon[s] # "left", ~(\E x \in Session : ForwardEnds(x)),
              \/ Connect(s) \/ Connecting(s) \/ Heartbeat(s) \/ Reading(s) \/ Handling(s)
              \/ Device(s) \/ LinkFails(s)
       PROVE  Goal
  BY Zenon, <1>6, <1>7, <1>8, <1>9, <1>10, <1>11, <1>12, <1>13, <1>14, <1>15, <1>16, <1>17, <1>18,
     <1>19, <1>20, <1>26 DEF Connecting, Reading, Handling
<1> QED
  BY Zenon, <1>22, <1>24, <1>25, <1>26 DEF Next

\* For any sessions and environments: no frame is ever read in another mode
\* than it was written in, by either side, unless forwarding tasks of hdcd have
\* outlived the handler of an encrypted session, whose cipher went with it
\* (server.rs:1970, 2102, main.rs:198, 253).
THEOREM ModesAgree == Spec => []NoNoise
<1>1. Init => Modes
  BY SessionAssumption, Empty DEF Init, Modes, NoNoise, Senders, Agreed, InTheClear, EmptyMap
<1>2. ASSUME TypeOK, Modes, [Next]_vars PROVE Modes'
  <2>1. env' = env
    BY <1>2, ZenonT(60) DEF Next, vars, Connect, Connecting, Hello, PskAck, Answer, SendHandshake,
                NextAttempt, RecvAuth, AuthFails, PutConnected, SpawnTasks, Heartbeat, Reading,
                ReadFrame, ReadFails, ReaderRemoves, ReaderEnds, Handling, FirstMessage,
                Respond, Arm, AwaitAck, Loop, ShellBridge, ForwardSpeaks, ForwardEnds, Device, DeviceReads, DeviceEnds, DeviceSpeaks,
                LinkFails, Command, Reconnect, Discover
  <2>2. Senders'
    BY <1>2, SendersStep, Zenon DEF Modes
  <2>3. CASE PskOption
    BY <1>2, <2>1, <2>2, <2>3, AgreedStep, Zenon DEF Modes, PskOption, EncryptEnabled
  <2>4. CASE ~PskOption
    BY <1>2, <2>1, <2>2, <2>4, ClearStep, Zenon DEF Modes, PskOption, EncryptEnabled
  <2> QED BY <2>3, <2>4, Zenon
<1>3. Modes => NoNoise
  BY Zenon DEF Modes
<1> QED BY <1>1, <1>2, <1>3, SessionTypes, PTL DEF Spec

=============================================================================
