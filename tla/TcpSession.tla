----------------------------- MODULE TcpSession -----------------------------
(***************************************************************************)
(* Sessions of the server with a daemon over TCP: start_tcp_daemon_session *)
(* of server.rs (connecting, the authentication loop, the heartbeat and    *)
(* the reader) against handle_client of hdcd's main.rs, or against a       *)
(* device that authenticates in ways hdcd does not.                        *)
(*                                                                         *)
(* A session is one `tconn` to the one address Key; nothing keeps several  *)
(* of them apart but their ids.  Each has a FIFO link each way.  A frame   *)
(* carries the mode it was written in, "plain" or "cipher": each side      *)
(* keeps the ciphers of its sessions in a map of its own and picks the     *)
(* mode from that map when it writes and when it reads.  A frame read in   *)
(* the other mode is noise.                                                *)
(*                                                                         *)
(* The tasks that hdcd spawns for forwarding hold its end of the link too: *)
(* they go on writing when handle_client has returned, and the link is     *)
(* closed only when the last of them is gone.                              *)
(***************************************************************************)
EXTENDS TcpMap, Sequences

CONSTANTS
    Session,             \* session ids, each used by one `tconn`
    Key,                 \* the address they connect to
    Envs,                \* the environments to look at
    MAX_AUTH_ATTEMPTS,   \* 10 in the code
    MaxInFlight          \* bound on the frames queued by those who may go on for ever

\* What a client may have sent to a daemon: the close of a channel, a command
\* that starts forwarding, the one that starts an interactive shell, another
\* one.  This host sends ShellInit to USB sessions only; hdcd takes it from any.
Commands == {"Close", "Forward", "Shell", "Other"}

\* An environment: whether OHOS_HDC_ENCRYPT_CHANNEL is "1" on either side,
\* whether the host has a key pair, whether the daemon is hdcd or a device,
\* the commands that users give, and the sessions whose link may fail.
Env == [host_enc : BOOLEAN, daemon_enc : BOOLEAN, host_key : BOOLEAN, hdcd : BOOLEAN,
        users : SUBSET (Session \cup {"reconnect", "discover"} \cup Commands),
        faults : SUBSET Session]

ASSUME SessionAssumption ==
    /\ 0 \notin Session
    /\ Envs \subseteq Env /\ \A e \in Envs : e.daemon_enc => e.hdcd
    /\ MAX_AUTH_ATTEMPTS \in Nat \ {0} /\ MaxInFlight \in Nat \ {0}

VARIABLES
    env,                 \* what the processes were started with
    connect_map, tcp, ciphers,    \* the maps of the server
    conn, attempt,       \* start_tcp_daemon_session of each session
    reader, heartbeat,   \* the tasks it spawns
    reconnect, discover, \* the other commands that touch the entry
    link,                \* "up", "cut" (both ends notice) or "silent" (neither does)
    down, up,            \* frames to the daemon and to the host
    daemon,              \* handle_client of each session
    daemon_ciphers,      \* SESSION_CIPHERS of hdcd
    forwards,            \* the sessions with forwarding tasks of hdcd
    noise                \* the sessions in which a frame was read in the wrong mode

host == <<connect_map, tcp, ciphers, conn, attempt, reader, heartbeat, reconnect, discover>>
daemonvars == <<daemon, daemon_ciphers, forwards>>
vars == <<env, host, link, down, up, daemonvars, noise>>

\* What encrypt_enabled comes to in handle_client, and its psk_option.
EncryptEnabled == env.daemon_enc /\ env.host_enc
PskOption == EncryptEnabled /\ env.host_key

\* The handshakes by auth_type; "Fail" stands for all that end the
\* authentication: Fail, Token, unknown ones and what does not deserialize.
\* "None" is the host's first.
AuthTypes == {"None", "Ok", "Fail", "Psk", "Publickey", "Signature"}
Messages == AuthTypes \cup Commands
Frames == [mode : {"plain", "cipher"}, msg : Messages]

Init ==
    /\ env \in Envs
    /\ connect_map = EmptyMap /\ tcp = EmptyTcpMap /\ ciphers = {}
    /\ conn = [s \in Session |-> "new"] /\ attempt = [s \in Session |-> 1]
    /\ reader = [s \in Session |-> "off"] /\ heartbeat = [s \in Session |-> "off"]
    /\ reconnect = [pc |-> "idle", sid |-> 0] /\ discover = "idle"
    /\ link = [s \in Session |-> "up"]
    /\ down = [s \in Session |-> <<>>] /\ up = [s \in Session |-> <<>>]
    /\ daemon = [s \in Session |-> "none"] /\ daemon_ciphers = {} /\ forwards = {}
    /\ noise = {}

-----------------------------------------------------------------------------
(* Writing and reading frames.                                             *)

HostMode(s) == IF s \in ciphers THEN "cipher" ELSE "plain"
DaemonMode(s) == IF s \in daemon_ciphers THEN "cipher" ELSE "plain"

Frame(mode, msg) == [mode |-> mode, msg |-> msg]

\* The daemon is told of the end of the host's stream when the writer goes;
\* the host reads on until its function or its reader is through.
HostClosed(s) == conn[s] # "new" /\ s \notin tcp.session_writers
HostStopped(s) ==
    conn[s] \in {"failed", "failed_write"} \/ reader[s] \in {"remove", "end", "done"}

\* handle_client has returned, with or without tasks that hold the writer.
Returned(s) == daemon[s] \in {"ended", "left"}
DaemonClosed(s) == Returned(s) /\ s \notin forwards
Broken(s) == link[s] # "up" \/ DaemonClosed(s)

\* TcpMap::send_to_session: encrypting and writing are one lock section.  What
\* is written when nobody reads any more is not kept.
SendToSession(s, msg) ==
    /\ s \in tcp.session_writers
    /\ down' = IF link[s] # "up" \/ Returned(s) THEN down
               ELSE [down EXCEPT ![s] = Append(@, Frame(HostMode(s), msg))]

SendFails(s) == s \notin tcp.session_writers \/ Broken(s)

\* send_message of hdcd, under the lock of the shared writer.
SendMessage(s, msg) ==
    up' = IF link[s] # "up" \/ HostStopped(s) THEN up
          ELSE [up EXCEPT ![s] = Append(@, Frame(DaemonMode(s), msg))]

\* The next frame of a link, read in a mode.  Noise is noted.
TakeUp(s, mode) ==
    /\ up[s] # <<>> /\ up' = [up EXCEPT ![s] = Tail(@)]
    /\ noise' = IF Head(up[s]).mode = mode THEN noise ELSE noise \cup {s}
TakeDown(s, mode) ==
    /\ down[s] # <<>> /\ down' = [down EXCEPT ![s] = Tail(@)]
    /\ noise' = IF Head(down[s]).mode = mode THEN noise ELSE noise \cup {s}

\* What is read in the wrong mode is a read error or, its first bytes taken
\* for the length of a frame, part of a frame that does not come to an end.
Readable(frame, mode) == frame.mode = mode

\* The host's read fails, and the daemon's does.
UpFails(s) == up[s] = <<>> /\ (link[s] = "cut" \/ DaemonClosed(s))
DownFails(s) == down[s] = <<>> /\ (link[s] = "cut" \/ HostClosed(s))

-----------------------------------------------------------------------------
(* start_tcp_daemon_session.                                               *)

Goto(s, at) == conn' = [conn EXCEPT ![s] = at]

\* end_session and return Err, as every arm but the failed writes does.
GiveUp(s) == tcp' = EndTcpSession(tcp, s) /\ Goto(s, "failed")

Connect(s) ==
    /\ conn[s] = "new" /\ s \in env.users
    /\ \/ /\ tcp' = StartTcpSession(tcp, s) /\ Goto(s, "hello")
          /\ daemon' = [daemon EXCEPT ![s] = IF env.hdcd THEN "first" ELSE "device"]
       \/ Goto(s, "failed") /\ UNCHANGED <<tcp, daemon>>
    /\ UNCHANGED <<env, connect_map, ciphers, attempt, reader, heartbeat, reconnect, discover,
                   link, down, up, daemon_ciphers, forwards, noise>>

\* The sends of the handshake end the function with `?` when they fail: the
\* writer stays in the map.
SendHandshake(s, from, msg, to) ==
    /\ conn[s] = from
    /\ \/ SendToSession(s, msg) /\ Goto(s, to)
       \/ SendFails(s) /\ Goto(s, "failed_write") /\ UNCHANGED down
    /\ UNCHANGED <<env, connect_map, tcp, ciphers, attempt, reader, heartbeat, reconnect,
                   discover, link, up, daemonvars, noise>>

Hello(s) == SendHandshake(s, "hello", "None", "auth")
PskAck(s) == SendHandshake(s, "ack", "Psk", "put")
Answer(s) == SendHandshake(s, "answer", "Signature", "next")

NextAttemptInclusive(s) ==
    /\ conn[s] = "next"
    /\ \/ /\ attempt[s] <= MAX_AUTH_ATTEMPTS
          /\ attempt' = [attempt EXCEPT ![s] = @ + 1] /\ Goto(s, "auth") /\ UNCHANGED tcp
       \/ /\ attempt[s] > MAX_AUTH_ATTEMPTS
          /\ GiveUp(s) /\ UNCHANGED attempt
    /\ UNCHANGED <<env, connect_map, ciphers, reader, heartbeat, reconnect, discover, link,
                   down, up, daemonvars, noise>>

NextAttemptUncounted(s) ==
    /\ conn[s] = "next" /\ Goto(s, "auth")
    /\ UNCHANGED <<env, connect_map, tcp, ciphers, attempt, reader, heartbeat, reconnect,
                   discover, link, down, up, daemonvars, noise>>

\* The end of an iteration of the loop.
NextAttempt(s) ==
    /\ conn[s] = "next"
    /\ \/ /\ attempt[s] < MAX_AUTH_ATTEMPTS
          /\ attempt' = [attempt EXCEPT ![s] = @ + 1] /\ Goto(s, "auth") /\ UNCHANGED tcp
       \/ /\ attempt[s] = MAX_AUTH_ATTEMPTS
          /\ GiveUp(s) /\ UNCHANGED attempt
    /\ UNCHANGED <<env, connect_map, ciphers, reader, heartbeat, reconnect, discover, link,
                   down, up, daemonvars, noise>>

SetSessionCipher(s) == ciphers' = ciphers \cup {s}

\* One frame of the daemon during the authentication, read in the clear.  A
\* key or a psk may turn out not to be usable.
RecvAuth(s) ==
    /\ conn[s] = "auth" /\ TakeUp(s, "plain")
    /\ LET frame == Head(up[s])
       IN  \/ /\ ~Readable(frame, "plain") \/ frame.msg \in {"Fail", "Psk", "Publickey",
                                                            "Signature"}
              /\ GiveUp(s) /\ UNCHANGED ciphers
           \/ /\ Readable(frame, "plain")
              /\ \/ frame.msg \notin AuthTypes /\ Goto(s, "next") /\ UNCHANGED ciphers
                 \/ frame.msg = "Ok" /\ Goto(s, "put") /\ UNCHANGED ciphers
                 \/ /\ frame.msg = "Psk" /\ env.host_enc /\ env.host_key
                    /\ SetSessionCipher(s) /\ Goto(s, "ack")
                 \/ /\ frame.msg \in {"Publickey", "Signature"} /\ env.host_key
                    /\ Goto(s, "answer") /\ UNCHANGED ciphers
              /\ UNCHANGED tcp
    /\ UNCHANGED <<env, connect_map, attempt, reader, heartbeat, reconnect, discover, link,
                   down, daemonvars>>

\* The read fails, or nothing came for 10 s (60 s in the second attempt).
AuthFails(s) ==
    /\ conn[s] = "auth" /\ up[s] = <<>>
    /\ GiveUp(s)
    /\ UNCHANGED <<env, connect_map, ciphers, attempt, reader, heartbeat, reconnect, discover,
                   link, down, up, daemonvars, noise>>

PutConnected(s) ==
    /\ conn[s] = "put" /\ Goto(s, "spawn")
    /\ connect_map' = Put(connect_map, Key, DaemonInfo(s, "Connected"))
    /\ UNCHANGED <<env, tcp, ciphers, attempt, reader, heartbeat, reconnect, discover, link,
                   down, up, daemonvars, noise>>

SpawnTasks(s) ==
    /\ conn[s] = "spawn" /\ Goto(s, "done")
    /\ reader' = [reader EXCEPT ![s] = "read"]
    /\ heartbeat' = [heartbeat EXCEPT ![s] = "run"]
    /\ UNCHANGED <<env, connect_map, tcp, ciphers, attempt, reconnect, discover, link, down, up,
                   daemonvars, noise>>

-----------------------------------------------------------------------------
(* The tasks of an established session, and the commands that touch it.    *)

\* A tick of the heartbeat; it may be disabled, so nothing makes it tick.
Heartbeat(s) ==
    /\ heartbeat[s] = "run" /\ Len(down[s]) < MaxInFlight
    /\ \/ SendToSession(s, "Other") /\ UNCHANGED heartbeat
       \/ SendFails(s) /\ heartbeat' = [heartbeat EXCEPT ![s] = "done"] /\ UNCHANGED down
    /\ UNCHANGED <<env, connect_map, tcp, ciphers, conn, attempt, reader, reconnect, discover,
                   link, up, daemonvars, noise>>

\* A client's command goes to the session the registry names for Key.
Command(msg) ==
    /\ Key \in DOMAIN connect_map /\ msg \in env.users
    /\ LET s == connect_map[Key].session_id
       IN  s \in Session /\ Len(down[s]) < MaxInFlight /\ SendToSession(s, msg)
    /\ UNCHANGED <<env, host, link, up, daemonvars, noise>>

\* One frame of the reader.  Only a Signature changes anything here; the
\* rest is routed to the channels, which the module ServerChannels has.
ReadFrame(s) ==
    /\ reader[s] = "read" /\ TakeUp(s, HostMode(s))
    /\ LET frame == Head(up[s])
       IN  \/ /\ ~Readable(frame, HostMode(s)) /\ UNCHANGED down
              /\ reader' \in {reader, [reader EXCEPT ![s] = "remove"]}
           \/ /\ Readable(frame, HostMode(s)) /\ UNCHANGED reader
              /\ \/ /\ frame.msg = "Signature" /\ env.host_key
                    /\ Broken(s) \/ Len(down[s]) < MaxInFlight
                    /\ SendToSession(s, "Signature")
                 \/ (frame.msg = "Signature" => ~env.host_key \/ SendFails(s)) /\ UNCHANGED down
    /\ UNCHANGED <<env, connect_map, tcp, ciphers, conn, attempt, heartbeat, reconnect, discover,
                   link, daemonvars>>

ReadFailsKeepsEntry(s) ==
    /\ reader[s] = "read" /\ UpFails(s)
    /\ reader' = [reader EXCEPT ![s] = "end"]
    /\ UNCHANGED <<env, connect_map, tcp, ciphers, conn, attempt, heartbeat, reconnect, discover,
                   link, down, up, daemonvars, noise>>

ReadFailsContinues(s) ==
    reader[s] = "read" /\ UpFails(s) /\ UNCHANGED vars

ReadFails(s) ==
    /\ reader[s] = "read" /\ UpFails(s)
    /\ reader' = [reader EXCEPT ![s] = "remove"]
    /\ UNCHANGED <<env, connect_map, tcp, ciphers, conn, attempt, heartbeat, reconnect, discover,
                   link, down, up, daemonvars, noise>>

\* The entry goes by its key, whichever session it names by now.
ReaderRemoves(s) ==
    /\ reader[s] = "remove" /\ reader' = [reader EXCEPT ![s] = "end"]
    /\ connect_map' = Remove(connect_map, Key)
    /\ UNCHANGED <<env, tcp, ciphers, conn, attempt, heartbeat, reconnect, discover, link, down,
                   up, daemonvars, noise>>

ReaderEnds(s) ==
    /\ reader[s] = "end" /\ reader' = [reader EXCEPT ![s] = "done"]
    /\ tcp' = EndTcpSession(tcp, s)
    /\ UNCHANGED <<env, connect_map, ciphers, conn, attempt, heartbeat, reconnect, discover,
                   link, down, up, daemonvars, noise>>

\* KernelTargetReconnect looks the session up, ends it, and removes the entry,
\* whichever session it names by then.
Reconnect ==
    /\ "reconnect" \in env.users
    /\ \/ /\ reconnect.pc = "idle" /\ Key \in DOMAIN connect_map
          /\ reconnect' = [pc |-> "end", sid |-> connect_map[Key].session_id]
          /\ UNCHANGED <<connect_map, tcp>>
       \/ /\ reconnect.pc = "end" /\ reconnect' = [reconnect EXCEPT !.pc = "remove"]
          /\ tcp' = EndTcpSession(tcp, reconnect.sid) /\ UNCHANGED connect_map
       \/ /\ reconnect.pc = "remove" /\ reconnect' = [reconnect EXCEPT !.pc = "done"]
          /\ connect_map' = Remove(connect_map, Key) /\ UNCHANGED tcp
    /\ UNCHANGED <<env, ciphers, conn, attempt, reader, heartbeat, discover, link, down, up,
                   daemonvars, noise>>

\* KernelTargetDiscover looks whether Key is there and puts it under a second
\* lock, whatever has been put there in between.
Discover ==
    /\ "discover" \in env.users
    /\ \/ /\ discover = "idle" /\ Key \notin DOMAIN connect_map
          /\ discover' = "put" /\ UNCHANGED connect_map
       \/ /\ discover = "put" /\ discover' = "done"
          /\ connect_map' = Put(connect_map, Key, DaemonInfo(0, "Ready"))
    /\ UNCHANGED <<env, tcp, ciphers, conn, attempt, reader, heartbeat, reconnect, link, down,
                   up, daemonvars, noise>>

-----------------------------------------------------------------------------
(* handle_client of hdcd.                                                  *)

DaemonGoto(s, at) == daemon' = [daemon EXCEPT ![s] = at]

\* The first message is read before there can be a cipher.
FirstMessage(s) ==
    /\ daemon[s] = "first"
    /\ \/ TakeDown(s, "plain") /\ DaemonGoto(s, "respond")
       \/ DownFails(s) /\ DaemonGoto(s, "ended") /\ UNCHANGED <<down, noise>>
    /\ UNCHANGED <<env, host, link, up, daemon_ciphers, forwards>>

RespondArmed(s) ==
    /\ daemon[s] = "respond"
    /\ daemon_ciphers' = IF PskOption THEN daemon_ciphers \cup {s} ELSE daemon_ciphers
    /\ \/ /\ up' = [up EXCEPT ![s] = Append(@, IF PskOption THEN Frame("cipher", "Psk")
                                               ELSE Frame("plain", "Ok"))]
          /\ DaemonGoto(s, "arm")
       \/ link[s] # "up" /\ DaemonGoto(s, "ended") /\ UNCHANGED up
    /\ UNCHANGED <<env, host, link, down, forwards, noise>>

\* The response, or an error on the way to it: a public key that does not
\* parse, a failed write.
Respond(s) ==
    /\ daemon[s] = "respond"
    /\ \/ SendMessage(s, IF PskOption THEN "Psk" ELSE "Ok") /\ DaemonGoto(s, "arm")
       \/ (PskOption \/ link[s] # "up" \/ HostStopped(s))
          /\ DaemonGoto(s, "ended") /\ UNCHANGED up
    /\ UNCHANGED <<env, host, link, down, daemon_ciphers, forwards, noise>>

\* The cipher is set once the response is out.
Arm(s) ==
    /\ daemon[s] = "arm"
    /\ daemon_ciphers' = IF PskOption THEN daemon_ciphers \cup {s} ELSE daemon_ciphers
    /\ DaemonGoto(s, IF EncryptEnabled THEN "ack" ELSE "loop")
    /\ UNCHANGED <<env, host, link, down, up, forwards, noise>>

\* "left" has forwarding tasks that go on without the handler.
Leave(s) == DaemonGoto(s, IF s \in forwards THEN "left" ELSE "ended") /\ UNCHANGED forwards

\* remove_session_cipher and return.
HandlerEnds(s) == daemon_ciphers' = daemon_ciphers \ {s} /\ Leave(s)

\* Waiting for the PSK-ACK, 10 s at most.
AwaitAck(s) ==
    /\ daemon[s] = "ack"
    /\ \/ /\ TakeDown(s, DaemonMode(s))
          /\ LET frame == Head(down[s])
             IN  IF Readable(frame, DaemonMode(s)) /\ frame.msg \in AuthTypes
                 THEN DaemonGoto(s, "loop") /\ UNCHANGED <<daemon_ciphers, forwards>>
                 ELSE HandlerEnds(s)
       \/ down[s] = <<>> /\ HandlerEnds(s) /\ UNCHANGED <<down, noise>>
    /\ UNCHANGED <<env, host, link, up>>

\* dispatch_task: the answer, and what becomes of the session.  A forwarding
\* command may leave tasks behind.  The close of a channel ends the session,
\* unless a forward in the map that all sessions share has the channel.
Dispatch(s, msg) ==
    /\ SendMessage(s, CASE msg \in AuthTypes -> "Fail"
                        [] msg = "Forward" -> "Other"
                        [] OTHER -> msg)
    /\ \/ msg = "Close" /\ HandlerEnds(s)
       \/ msg = "Close" /\ forwards # {} /\ UNCHANGED daemonvars
       \/ /\ msg = "Forward" /\ forwards' \in {forwards, forwards \cup {s}}
          /\ UNCHANGED <<daemon, daemon_ciphers>>
       \/ msg \notin {"Close", "Forward"} /\ UNCHANGED daemonvars

\* One message of the main loop.  ShellInit hands the link over to
\* run_shell_bridge and returns, the cipher still set.
Loop(s) ==
    /\ daemon[s] = "loop"
    /\ \/ /\ Len(up[s]) < MaxInFlight
          /\ TakeDown(s, DaemonMode(s))
          /\ LET frame == Head(down[s])
             IN  \/ /\ ~Readable(frame, DaemonMode(s)) /\ UNCHANGED up
                    /\ HandlerEnds(s) \/ UNCHANGED daemonvars
                 \/ /\ Readable(frame, DaemonMode(s)) /\ frame.msg = "Shell"
                    /\ DaemonGoto(s, "shell") /\ UNCHANGED <<up, daemon_ciphers, forwards>>
                 \/ /\ Readable(frame, DaemonMode(s)) /\ frame.msg # "Shell"
                    /\ Dispatch(s, frame.msg)
       \/ DownFails(s) /\ HandlerEnds(s) /\ UNCHANGED <<down, up, noise>>
    /\ UNCHANGED <<env, host, link>>

\* run_shell_bridge: a frame of the host, which only a heartbeat makes it
\* answer; output of the shell; the end, by the close of the channel or of the
\* terminal.
ShellBridge(s) ==
    /\ daemon[s] = "shell" /\ Len(up[s]) < MaxInFlight
    /\ \/ /\ TakeDown(s, DaemonMode(s))
          /\ \/ Head(down[s]).msg = "Close" /\ Leave(s) /\ UNCHANGED up
             \/ /\ Head(down[s]).msg # "Close" /\ UNCHANGED <<daemon, forwards>>
                /\ SendMessage(s, "Other") \/ UNCHANGED up
       \/ SendMessage(s, "Other") /\ UNCHANGED <<down, noise, daemon, forwards>>
       \/ Leave(s) /\ UNCHANGED <<down, up, noise>>
    /\ UNCHANGED <<env, host, link, daemon_ciphers>>

\* A forwarding task (the listener of an rport, one of its connections, the
\* reader of an fport's connection) has something to say.
ForwardSpeaks(s) ==
    /\ s \in forwards /\ Len(up[s]) < MaxInFlight
    /\ SendMessage(s, "Other")
    /\ UNCHANGED <<env, host, link, down, daemonvars, noise>>

\* The last of them is gone.
ForwardEnds(s) ==
    /\ s \in forwards /\ forwards' = forwards \ {s}
    /\ UNCHANGED <<env, host, link, down, up, daemon, daemon_ciphers, noise>>

-----------------------------------------------------------------------------
(* A device, and the network.                                              *)

\* A device speaks when it likes.  It keeps to plain frames, and its psk is
\* none the host could use.
DeviceSpeaks(s, msg) ==
    /\ daemon[s] = "device" /\ Len(up[s]) < MaxInFlight
    /\ msg # "None" /\ (msg = "Psk" => ~env.host_enc)
    /\ SendMessage(s, msg)
    /\ UNCHANGED <<env, host, link, down, daemonvars, noise>>

DeviceReads(s) ==
    /\ daemon[s] = "device" /\ TakeDown(s, "plain")
    /\ UNCHANGED <<env, host, link, up, daemonvars>>

DeviceEnds(s) ==
    /\ daemon[s] = "device" /\ DaemonGoto(s, "ended")
    /\ UNCHANGED <<env, host, link, down, up, daemon_ciphers, forwards, noise>>

\* What is on the way is lost.
LinkFails(s) ==
    /\ link[s] = "up" /\ conn[s] # "new" /\ s \in env.faults
    /\ \E how \in {"cut", "silent"} : link' = [link EXCEPT ![s] = how]
    /\ down' = [down EXCEPT ![s] = <<>>] /\ up' = [up EXCEPT ![s] = <<>>]
    /\ UNCHANGED <<env, host, daemonvars, noise>>

-----------------------------------------------------------------------------

Connecting(s) ==
    Hello(s) \/ PskAck(s) \/ Answer(s) \/ NextAttempt(s) \/ RecvAuth(s) \/ AuthFails(s)
        \/ PutConnected(s) \/ SpawnTasks(s)
Reading(s) == ReadFrame(s) \/ ReadFails(s) \/ ReaderRemoves(s) \/ ReaderEnds(s)
Handling(s) ==
    FirstMessage(s) \/ Respond(s) \/ Arm(s) \/ AwaitAck(s) \/ Loop(s) \/ ShellBridge(s)
        \/ ForwardSpeaks(s) \/ ForwardEnds(s)
Device(s) == DeviceReads(s) \/ DeviceEnds(s) \/ \E msg \in Messages : DeviceSpeaks(s, msg)

Next ==
    \/ \E s \in Session : \/ Connect(s) \/ Connecting(s) \/ Heartbeat(s) \/ Reading(s)
                          \/ Handling(s) \/ Device(s) \/ LinkFails(s)
    \/ \E msg \in Commands : Command(msg)
    \/ Reconnect \/ Discover

\* The tasks that connect and that read are scheduled; nothing is assumed of
\* the network, of the daemons, of the heartbeat or of the users.
Fairness ==
    \A s \in Session : WF_vars(Connecting(s)) /\ WF_vars(Reading(s))

Spec == Init /\ [][Next]_vars /\ Fairness

-----------------------------------------------------------------------------

\* Every task is at one of its steps, the attempts stay within their limit, and
\* an entry is one that PutConnected or Discover puts
\* (start_tcp_daemon_session, handle_client).
TypeOK ==
    /\ env \in Env
    /\ DOMAIN connect_map \subseteq {Key}
    /\ \A k \in DOMAIN connect_map :
          connect_map[k] \in {DaemonInfo(0, "Ready")}
                            \cup {DaemonInfo(s, "Connected") : s \in Session}
    /\ tcp \in [session_writers : SUBSET Session, channel_writers : {{}},
               channel_sessions : {EmptyMap}, keep_alive : {{}}]
    /\ ciphers \subseteq Session /\ daemon_ciphers \subseteq Session /\ noise \subseteq Session
    /\ conn \in [Session -> {"new", "hello", "auth", "next", "ack", "answer", "put", "spawn",
                             "done", "failed", "failed_write"}]
    /\ attempt \in [Session -> 1 .. MAX_AUTH_ATTEMPTS]
    /\ reader \in [Session -> {"off", "read", "remove", "end", "done"}]
    /\ heartbeat \in [Session -> {"off", "run", "done"}]
    /\ reconnect \in [pc : {"idle", "end", "remove", "done"}, sid : Session \cup {0}]
    /\ discover \in {"idle", "put", "done"}
    /\ link \in [Session -> {"up", "cut", "silent"}]
    /\ down \in [Session -> Seq(Frames)] /\ up \in [Session -> Seq(Frames)]
    /\ daemon \in [Session -> {"none", "first", "respond", "arm", "ack", "loop", "shell",
                               "device", "ended", "left"}]
    /\ forwards \subseteq Session

\* Neither side reads a frame in a mode it was not written in: the response
\* that carries the psk travels in the clear though both sides are about to
\* encrypt, and everything after it, the acknowledgement first, is encrypted
\* and read as such (server.rs:1970, main.rs:198), by tasks that forward too.
\* The one exception is a session whose forwarding tasks outlive its handler:
\* with the cipher gone (main.rs:253) they write in the clear to a host that
\* still decrypts.
NoNoise == \A s \in noise : PskOption /\ daemon[s] = "left"

\* The session a Connected entry names has a reader that will take the entry
\* away when the session ends, or is about to have one: no entry outlives its
\* session, whatever other sessions with the address and `target reconnect`
\* do (server.rs:2057, 2107).
ConnectedIsRead ==
    \A k \in ConnectedKeys(connect_map) :
        LET s == connect_map[k].session_id
        IN  conn[s] = "spawn" \/ reader[s] \in {"read", "remove"}

\* `tconn` returns, however much the daemon has to say (server.rs:1873).
ConnectReturns ==
    \A s \in Session :
        conn[s] # "new" ~> conn[s] \in {"done", "failed", "failed_write"}

\* When the daemon's end of an established session has gone, its handler and
\* the forwarding tasks that hold its writer, and the network tells, the
\* registry stops naming the session and its writer goes (server.rs:2103-2110).
EndedIsForgotten ==
    \A s \in Session :
        (conn[s] = "done" /\ (link[s] = "cut" \/ (link[s] = "up" /\ DaemonClosed(s))))
            ~> (/\ s \notin tcp.session_writers
                /\ \A k \in DOMAIN connect_map : connect_map[k].session_id # s)
               \/ link[s] = "silent"

=============================================================================
