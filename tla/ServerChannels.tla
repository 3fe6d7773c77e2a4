--------------------------- MODULE ServerChannels ---------------------------
(***************************************************************************)
(* Client channels and daemon sessions of the server (handle_client,       *)
(* dispatch_task, the streamer of track-jpid, start_usb_session and the    *)
(* reader of start_tcp_daemon_session in server.rs).  They are separate    *)
(* tokio tasks that meet only in three maps: connect_map, tcp_map and      *)
(* usb_map.  A step is what a task does under one lock; a task may stop    *)
(* between any two of them and the others run on.                          *)
(*                                                                         *)
(* A channel is one TCP connection of a client.  Its handler takes one     *)
(* command at a time: a local one (list targets, wait, keepalive, target   *)
(* reconnect) or one for the daemon.  An answer of the daemon carries only *)
(* the channel id: the session's reader routes it to the receiver          *)
(* registered for (session, channel), or else writes it to the channel, or *)
(* closes the channel on KernelChannelClose.  Of an answer only its kind   *)
(* is kept.                                                                *)
(*                                                                         *)
(* UsbMonitor shows that a serial has one session task at a time; that is  *)
(* the guard of SessionOpens here.                                         *)
(***************************************************************************)
EXTENDS TcpMap, UsbMap, Sequences

CONSTANTS
    Key,             \* connect keys of devices
    UsbSession,      \* USB sessions, each with the id the server drew for it
    TcpSession,      \* TCP sessions, each with the id the server drew for it
    Id,              \* session ids, those of the sessions and perhaps others
    NoSession,       \* session id 0
    KeyOf,           \* the device of each session
    Assigned,        \* the ids the daemon of a USB session may have it take
    Channel,         \* client channels
    Wanted,          \* the -t key of each client, or "any"
    Command,         \* the commands clients send
    Streamer,        \* bound: the streamer tasks a channel has at a time
    MaxCommands      \* bound on the commands one client sends

Session == UsbSession \cup TcpSession

\* Commands that dispatch_task forwards to the daemon: "exec" stands for the
\* default arm, where the daemon is expected to close the channel.
Forwarded == {"exec", "jdwp_list", "uninstall", "track"}

ASSUME ChannelAssumption ==
    /\ UsbSession \cap TcpSession = {}
    /\ Session \subseteq Id
    /\ NoSession \notin Id
    /\ Assigned \in [UsbSession -> SUBSET Id]
    /\ "handler" \notin Streamer /\ "none" \notin Streamer
    /\ KeyOf \in [Session -> Key]
    /\ "any" \notin Key
    /\ Wanted \in [Channel -> Key \cup {"any"}]
    /\ Command \subseteq {"list", "waitfor", "keepalive", "reconnect"} \cup Forwarded
    /\ MaxCommands \in Nat

VARIABLES
    connect_map, tcp, usb,
    client,          \* per channel: "new", "open" or "gone" (socket closed)
    budget,          \* commands a client may still send
    socket,          \* commands written and not yet read by the handler
    h,               \* the handler of each channel: pc, command, key, session, receiver
    inbox,           \* messages in the receivers of the handler and of the streamers
    stream,          \* the streamer tasks of each channel: pc, session
    spc,             \* where the task of each session is
    wpc,             \* where the writer task of each USB session is
    session_id,      \* the id each session goes by
    feeds,           \* per id of session_senders: whose queue the sender leads to
    outgoing,        \* the queue into each writer task
    asked,           \* requests a daemon has and has not answered
    incoming,        \* messages on the way from a daemon
    routing          \* the message a reader holds after route_response said no

maps == <<connect_map, tcp, usb>>
clientvars == <<client, budget, socket>>
handlervars == <<h, inbox, stream>>
idvars == <<session_id, feeds>>
sessionvars == <<spc, wpc, idvars>>
linkvars == <<outgoing, asked, incoming, routing>>
vars == <<maps, clientvars, handlervars, sessionvars, linkvars>>

Request == [cid : Channel, cmd : Forwarded]
Message == [cid : Channel, kind : {"data", "close"}]
NoMessage == [cid |-> "none", kind |-> "none"]
Idle == [pc |-> "idle", cmd |-> "none", key |-> "none", sid |-> NoSession,
         rx |-> "none"]

HandlerPc == {"start", "resolve", "lookup", "reply", "drop", "local", "register", "send",
              "failed", "associate", "collect_register", "collect", "unregister", "finish"}

Receivers == {"handler"} \cup Streamer

NoStream == [pc |-> "off", sid |-> NoSession]

\* The maps, the handlers, the streamers, the session tasks and the links are in
\* one of their states: a writer belongs to its own kind of session, and a
\* receiver to the handler or a streamer of a channel (TcpMapInner and
\* UsbMapInner of server.rs).
TypeOK ==
    /\ DOMAIN connect_map \subseteq Key
    /\ \A k \in DOMAIN connect_map :
          connect_map[k] \in [session_id : Id \cup {NoSession}, conn_status : ConnStatus]
    /\ tcp.session_writers \subseteq TcpSession
    /\ tcp.channel_writers \subseteq Channel
    /\ tcp.keep_alive \subseteq Channel
    /\ DOMAIN tcp.channel_sessions \subseteq Channel
    /\ \A c \in DOMAIN tcp.channel_sessions :
          tcp.channel_sessions[c] \in Id \cup {NoSession}
    /\ usb.session_senders \subseteq Id
    /\ DOMAIN usb.response_channels \subseteq (Id \cup {NoSession}) \X Channel
    /\ \A p \in DOMAIN usb.response_channels : usb.response_channels[p] \in Receivers
    /\ client \in [Channel -> {"new", "open", "gone"}]
    /\ budget \in [Channel -> 0..MaxCommands]
    /\ socket \in [Channel -> Seq(Command)]
    /\ \A c \in Channel :
          \/ h[c] = Idle
          \/ h[c].pc = "done"
          \/ h[c] \in [pc : HandlerPc, cmd : Command, key : Key \cup {"none"},
                       sid : Id \cup {NoSession}, rx : Streamer \cup {"none"}]
    /\ inbox \in [Channel -> [Receivers -> Seq(Message)]]
    /\ stream \in [Channel -> [Streamer -> [pc : {"off", "recv", "end", "unregister"},
                                            sid : Id \cup {NoSession}]]]
    /\ spc \in [Session -> {"new", "open", "connected", "live", "end_session", "wait_writer",
                            "close_channels", "gone"}]
    /\ wpc \in [UsbSession -> {"off", "run", "ending", "done"}]
    /\ session_id \in [Session -> Id \cup {NoSession}]
    /\ feeds \in [Id -> UsbSession \cup {NoSession}]
    /\ outgoing \in [UsbSession -> Seq(Request)]
    /\ asked \in [Session -> SUBSET Request]
    /\ incoming \in [Session -> Seq(Message)]
    /\ routing \in [Session -> Message \cup {NoMessage}]

Init ==
    /\ connect_map = EmptyMap
    /\ tcp = EmptyTcpMap
    /\ usb = EmptyUsbMap
    /\ client = [c \in Channel |-> "new"]
    /\ budget = [c \in Channel |-> MaxCommands]
    /\ socket = [c \in Channel |-> <<>>]
    /\ h = [c \in Channel |-> Idle]
    /\ inbox = [c \in Channel |-> [r \in Receivers |-> <<>>]]
    /\ stream = [c \in Channel |-> [i \in Streamer |-> NoStream]]
    /\ spc = [s \in Session |-> "new"]
    /\ wpc = [s \in UsbSession |-> "off"]
    /\ session_id = [s \in Session |-> IF s \in TcpSession THEN s ELSE NoSession]
    /\ feeds = [i \in Id |-> NoSession]
    /\ outgoing = [s \in UsbSession |-> <<>>]
    /\ asked = [s \in Session |-> {}]
    /\ incoming = [s \in Session |-> <<>>]
    /\ routing = [s \in Session |-> NoMessage]

-----------------------------------------------------------------------------
(* Clients.                                                                *)

\* accept, start_channel and the handshake
ClientConnects(c) ==
    /\ client[c] = "new"
    /\ client' = [client EXCEPT ![c] = "open"]
    /\ tcp' = StartChannel(tcp, c)
    /\ UNCHANGED <<connect_map, usb, budget, socket, handlervars, sessionvars, linkvars>>

ClientSends(c, cmd) ==
    /\ client[c] = "open"
    /\ budget[c] > 0
    /\ budget' = [budget EXCEPT ![c] = @ - 1]
    /\ socket' = [socket EXCEPT ![c] = Append(@, cmd)]
    /\ UNCHANGED <<maps, client, handlervars, sessionvars, linkvars>>

\* The client closes its socket: it was killed, or it read the end of the
\* stream because the server ended the channel (loop_recv returns).
ClientCloses(c) ==
    /\ client[c] = "open"
    /\ client' = [client EXCEPT ![c] = "gone"]
    /\ UNCHANGED <<maps, budget, socket, handlervars, sessionvars, linkvars>>

SeesEnd(c) == c \notin tcp.channel_writers /\ ClientCloses(c)

-----------------------------------------------------------------------------
(* The handler of a channel: handle_client and dispatch_task.              *)

\* Results of send_channel_message: an error without a writer, either result
\* when the client has closed its end.
SendResult(c) ==
    IF c \notin tcp.channel_writers THEN {FALSE}
    ELSE IF client[c] = "gone" THEN BOOLEAN ELSE {TRUE}

At(c, pc) == h[c].pc = pc

Goto(c, pc) == h' = [h EXCEPT ![c].pc = pc]

Return(c) == h' = [h EXCEPT ![c] = Idle]

Recv(c) ==
    /\ At(c, "idle")
    /\ socket[c] # <<>>
    /\ LET cmd == Head(socket[c]) IN
       h' = [h EXCEPT ![c] = [Idle EXCEPT !.cmd = cmd,
             !.pc = IF cmd \in {"list", "waitfor", "keepalive"} THEN "local" ELSE "resolve"]]
    /\ socket' = [socket EXCEPT ![c] = Tail(@)]
    /\ UNCHANGED <<maps, client, budget, inbox, stream, sessionvars, linkvars>>

\* recv_channel_message fails, the loop ends, end_channel.
RecvEnd(c) ==
    /\ At(c, "idle")
    /\ socket[c] = <<>>
    /\ client[c] = "gone"
    /\ tcp' = EndChannel(tcp, c)
    /\ h' = [h EXCEPT ![c].pc = "done"]
    /\ UNCHANGED <<connect_map, usb, clientvars, inbox, stream, sessionvars, linkvars>>

\* A reply with `?`, then maybe_end_channel.  In between another task can at
\* most end the channel, and then it is ended all the same: one step.
ReplyAndEnd(c) ==
    /\ \E ok \in SendResult(c) : tcp' = IF ok THEN MaybeEndChannel(tcp, c) ELSE tcp
    /\ Return(c)

Local(c) ==
    /\ At(c, "local")
    /\ h[c].cmd = "list" \/ (h[c].cmd = "waitfor" /\ ConnectedKeys(connect_map) # {})
    /\ ReplyAndEnd(c)
    /\ UNCHANGED <<connect_map, usb, clientvars, inbox, stream, sessionvars, linkvars>>

\* KernelWaitFor without a target: it sleeps and looks again, unless the
\* message cannot be sent.
WaitForGivesUp(c) ==
    /\ At(c, "local")
    /\ h[c].cmd = "waitfor" /\ ConnectedKeys(connect_map) = {}
    /\ FALSE \in SendResult(c)
    /\ Return(c)
    /\ UNCHANGED <<maps, clientvars, inbox, stream, sessionvars, linkvars>>

EnableKeepAlive(c) ==
    /\ At(c, "local")
    /\ h[c].cmd = "keepalive"
    /\ tcp' = SetKeepAlive(tcp, c)
    /\ Return(c)
    /\ UNCHANGED <<connect_map, usb, clientvars, inbox, stream, sessionvars, linkvars>>

\* resolve_connect_key
Resolve(c) ==
    /\ At(c, "resolve")
    /\ \/ /\ Wanted[c] # "any"
          /\ h' = [h EXCEPT ![c].pc = "lookup", ![c].key = Wanted[c]]
       \/ /\ Wanted[c] = "any" /\ Cardinality(ConnectedKeys(connect_map)) = 1
          /\ \E k \in ConnectedKeys(connect_map) :
                h' = [h EXCEPT ![c].pc = "lookup", ![c].key = k]
       \/ /\ Wanted[c] = "any" /\ Cardinality(ConnectedKeys(connect_map)) # 1
          /\ Goto(c, "reply")
    /\ UNCHANGED <<maps, clientvars, inbox, stream, sessionvars, linkvars>>

LookupAny(c) ==
    /\ At(c, "lookup")
    /\ \E k \in DOMAIN connect_map :
          h' = [h EXCEPT
               ![c].sid = connect_map[k].session_id,
               ![c].pc = CASE h[c].cmd = "track" -> "register"
                           [] h[c].cmd = "reconnect" -> "drop"
                           [] OTHER -> "send"]
    /\ UNCHANGED <<maps, clientvars, inbox, stream, sessionvars, linkvars>>

\* connect_map.get_session_id, which does not look at the status
Lookup(c) ==
    /\ At(c, "lookup")
    /\ IF h[c].key \in DOMAIN connect_map
       THEN h' = [h EXCEPT
               ![c].sid = connect_map[h[c].key].session_id,
               ![c].pc = CASE h[c].cmd = "track" -> "register"
                           [] h[c].cmd = "reconnect" -> "drop"
                           [] OTHER -> "send"]
       ELSE Goto(c, "reply")
    /\ UNCHANGED <<maps, clientvars, inbox, stream, sessionvars, linkvars>>

\* The last words of a command: an error, or "Reconnecting ...".
Reply(c) ==
    /\ At(c, "reply")
    /\ ReplyAndEnd(c)
    /\ UNCHANGED <<connect_map, usb, clientvars, inbox, stream, sessionvars, linkvars>>

\* KernelTargetReconnect: tcp_map.end_session, then connect_map.remove.
DropSession(c) ==
    /\ At(c, "drop")
    /\ tcp' = EndTcpSession(tcp, h[c].sid)
    /\ Goto(c, "finish")
    /\ UNCHANGED <<connect_map, usb, clientvars, inbox, stream, sessionvars, linkvars>>

DropEntry(c) ==
    /\ At(c, "finish")
    /\ h[c].cmd = "reconnect"
    /\ connect_map' = Remove(connect_map, h[c].key)
    /\ Goto(c, "reply")
    /\ UNCHANGED <<tcp, usb, clientvars, inbox, stream, sessionvars, linkvars>>

\* A new mpsc channel: no task reads it yet, and no registration leads to it.
Unused(c, i) ==
    stream[c][i].pc = "off" /\ \A p \in DOMAIN usb.response_channels :
                                  p[2] = c => usb.response_channels[p] # i

\* JdwpTrack registers before it sends; its receiver goes to the streamer.
RegisterStream(c) ==
    /\ At(c, "register")
    /\ \E i \in Streamer : Unused(c, i)
    /\ LET i == CHOOSE i \in Streamer : Unused(c, i) IN
       /\ usb' = Register(usb, h[c].sid, c, i)
       /\ inbox' = [inbox EXCEPT ![c][i] = <<>>]
       /\ h' = [h EXCEPT ![c].pc = "send", ![c].rx = i]
    /\ UNCHANGED <<connect_map, tcp, clientvars, stream, sessionvars, linkvars>>

\* collect_daemon_response_then_close registers once the request is sent.
RegisterCollector(c) ==
    /\ At(c, "collect_register")
    /\ usb' = Register(usb, h[c].sid, c, "handler")
    /\ inbox' = [inbox EXCEPT ![c]["handler"] = <<>>]
    /\ Goto(c, "collect")
    /\ UNCHANGED <<connect_map, tcp, clientvars, stream, sessionvars, linkvars>>

\* send_to_session: the TCP writer under the id, or, when there is none or its
\* write fails, the queue of the USB writer task that the id's sender leads to.
Send(c) ==
    /\ At(c, "send")
    /\ LET i == h[c].sid
           r == [cid |-> c, cmd |-> h[c].cmd] IN
       \/ /\ i \in usb.session_senders
          /\ outgoing' = [outgoing EXCEPT ![feeds[i]] = Append(@, r)]
          /\ Goto(c, "associate")
          /\ UNCHANGED asked
       \/ /\ i \in tcp.session_writers
          /\ asked' = [asked EXCEPT ![i] = @ \cup {r}]
          /\ Goto(c, "associate")
          /\ UNCHANGED outgoing
       \/ /\ i \notin usb.session_senders
          /\ Goto(c, "failed")
          /\ UNCHANGED <<outgoing, asked>>
    /\ UNCHANGED <<maps, clientvars, inbox, stream, sessionvars, incoming, routing>>

\* "[Fail]Send to daemon failed" with `?`.  The default arm goes on as if the
\* request had been sent.
SendFailed(c) ==
    /\ At(c, "failed")
    /\ \/ /\ FALSE \in SendResult(c)
          /\ Return(c)
          /\ UNCHANGED tcp
       \/ /\ TRUE \in SendResult(c)
          /\ tcp' = IF h[c].cmd \in {"track", "jdwp_list"} THEN MaybeEndChannel(tcp, c) ELSE tcp
          /\ Goto(c, IF h[c].cmd = "track" THEN "unregister" ELSE "associate")
    /\ UNCHANGED <<connect_map, usb, clientvars, inbox, stream, sessionvars, linkvars>>

AssociateChannel(c) ==
    /\ At(c, "associate")
    /\ tcp' = Associate(tcp, c, h[c].sid)
    /\ stream' = IF h[c].cmd = "track"
                 THEN [stream EXCEPT ![c][h[c].rx] = [pc |-> "recv", sid |-> h[c].sid]]
                 ELSE stream
    /\ IF h[c].cmd = "uninstall" THEN Goto(c, "collect_register") ELSE Return(c)
    /\ UNCHANGED <<connect_map, usb, clientvars, inbox, sessionvars, linkvars>>

HasSender(s, c, receiver) ==
    Registered(usb, s, c) /\ usb.response_channels[<<s, c>>] = receiver

\* collect_daemon_response_then_close: a message, KernelChannelClose, a lost
\* sender, or two idle seconds.
Collect(c) ==
    /\ At(c, "collect")
    /\ LET box == inbox[c]["handler"] IN
       \/ /\ box # <<>> /\ Head(box).kind = "data"
          /\ inbox' = [inbox EXCEPT ![c]["handler"] = Tail(@)]
          /\ UNCHANGED h
       \/ /\ box # <<>> => Head(box).kind = "close"
          /\ Goto(c, "unregister")
          /\ UNCHANGED inbox
    /\ UNCHANGED <<maps, clientvars, stream, sessionvars, linkvars>>

UnregisterNothing(c) ==
    /\ At(c, "unregister")
    /\ IF h[c].cmd = "uninstall" THEN Goto(c, "finish") ELSE Return(c)
    /\ UNCHANGED <<maps, inbox, clientvars, stream, sessionvars, linkvars>>

UnregisterReceiver(c) ==
    /\ At(c, "unregister")
    /\ usb' = Unregister(usb, h[c].sid, c)
    /\ IF h[c].cmd = "uninstall" THEN Goto(c, "finish") ELSE Return(c)
    /\ inbox' = [inbox EXCEPT ![c][IF h[c].cmd = "track" THEN h[c].rx ELSE "handler"] = <<>>]
    /\ UNCHANGED <<connect_map, tcp, clientvars, stream, sessionvars, linkvars>>

FinishCollectOpen(c) ==
    /\ At(c, "finish")
    /\ h[c].cmd = "uninstall"
    /\ Return(c)
    /\ UNCHANGED <<maps, clientvars, inbox, stream, sessionvars, linkvars>>

FinishCollect(c) ==
    /\ At(c, "finish")
    /\ h[c].cmd = "uninstall"
    /\ tcp' = MaybeEndChannel(tcp, c)
    /\ Return(c)
    /\ UNCHANGED <<connect_map, usb, clientvars, inbox, stream, sessionvars, linkvars>>

-----------------------------------------------------------------------------
(* The streamer tasks, one for each JdwpTrack.                             *)

StreamRecv(c, i) ==
    /\ stream[c][i].pc = "recv"
    /\ LET box == inbox[c][i] IN
       \/ /\ box # <<>>
          /\ inbox' = [inbox EXCEPT ![c][i] = Tail(@)]
          /\ \/ Head(box).kind = "data" /\ TRUE \in SendResult(c) /\ UNCHANGED stream
             \/ /\ Head(box).kind = "close" \/ FALSE \in SendResult(c)
                /\ stream' = [stream EXCEPT ![c][i].pc = "end"]
       \/ /\ box = <<>> /\ ~HasSender(stream[c][i].sid, c, i)
          /\ stream' = [stream EXCEPT ![c][i].pc = "end"]
          /\ UNCHANGED inbox
    /\ UNCHANGED <<maps, clientvars, h, sessionvars, linkvars>>

StreamEnds(c, i) ==
    /\ stream[c][i].pc = "end"
    /\ tcp' = EndChannel(tcp, c)
    /\ stream' = [stream EXCEPT ![c][i].pc = "unregister"]
    /\ UNCHANGED <<connect_map, usb, clientvars, h, inbox, sessionvars, linkvars>>

StreamUnregisters(c, i) ==
    /\ stream[c][i].pc = "unregister"
    /\ usb' = Unregister(usb, stream[c][i].sid, c)
    /\ stream' = [stream EXCEPT ![c][i] = NoStream]
    /\ inbox' = [inbox EXCEPT ![c][i] = <<>>]
    /\ UNCHANGED <<connect_map, tcp, clientvars, h, sessionvars, linkvars>>

-----------------------------------------------------------------------------
(* USB sessions: start_usb_session.                                        *)

Active(s) == spc[s] \notin {"new", "gone"}

SessionAt(s, pc) == spc[s] = pc

SessionGoto(s, pc) == spc' = [spc EXCEPT ![s] = pc]

\* The monitor adopts the device.
SessionOpens(s) ==
    /\ SessionAt(s, "new")
    /\ \A u \in UsbSession : KeyOf[u] = KeyOf[s] => ~Active(u)
    /\ connect_map' = Put(connect_map, KeyOf[s], DaemonInfo(NoSession, "Ready"))
    /\ SessionGoto(s, "open")
    /\ UNCHANGED <<tcp, usb, clientvars, handlervars, wpc, idvars, linkvars>>

SessionFails(s) ==
    /\ SessionAt(s, "open")
    /\ connect_map' = UpdateStatus(connect_map, KeyOf[s], "Offline")
    /\ SessionGoto(s, "gone")
    /\ UNCHANGED <<tcp, usb, clientvars, handlervars, wpc, idvars, linkvars>>

\* The daemon authenticated the session; in its handshakes it may have had it
\* take another id, one in use by another session included.
SessionConnected(s) ==
    /\ SessionAt(s, "open")
    /\ \E i \in Assigned[s] :
          /\ session_id' = [session_id EXCEPT ![s] = i]
          /\ connect_map' = Put(connect_map, KeyOf[s], DaemonInfo(i, "Connected"))
    /\ SessionGoto(s, "connected")
    /\ UNCHANGED <<tcp, usb, clientvars, handlervars, wpc, feeds, linkvars>>

\* A sender another session has under the same id is replaced, and dropped.
StartSession(s) ==
    /\ SessionAt(s, "connected")
    /\ usb' = StartUsbSession(usb, session_id[s])
    /\ feeds' = [feeds EXCEPT ![session_id[s]] = s]
    /\ SessionGoto(s, "live")
    /\ wpc' = [wpc EXCEPT ![s] = "run"]
    /\ UNCHANGED <<connect_map, tcp, clientvars, handlervars, session_id, linkvars>>

\* The writer task of the session still has its sender.
Fed(s) == session_id[s] \in usb.session_senders /\ feeds[session_id[s]] = s

\* The writer task: a request written, a write error, a lost sender.
Write(s) ==
    /\ wpc[s] = "run"
    /\ outgoing[s] # <<>>
    /\ outgoing' = [outgoing EXCEPT ![s] = Tail(@)]
    \* what reaches the daemon once the reader is gone cannot be answered
    /\ asked' = [asked EXCEPT ![s] =
          IF spc[s] = "live" THEN @ \cup {Head(outgoing[s])} ELSE @]
    /\ UNCHANGED <<maps, clientvars, handlervars, sessionvars, incoming, routing>>

WriteFails(s) ==
    /\ wpc[s] = "run"
    /\ outgoing[s] # <<>> \/ ~Fed(s)
    /\ wpc' = [wpc EXCEPT ![s] = "ending"]
    /\ UNCHANGED <<maps, clientvars, handlervars, spc, idvars, linkvars>>

\* end_session takes away whichever sender is under the id.
WriterEnds(s) ==
    /\ wpc[s] = "ending"
    /\ usb' = EndUsbSession(usb, session_id[s])
    /\ wpc' = [wpc EXCEPT ![s] = "done"]
    /\ outgoing' = [outgoing EXCEPT ![s] = <<>>]
    /\ UNCHANGED <<connect_map, tcp, clientvars, handlervars, spc, idvars, asked, incoming, routing>>

-----------------------------------------------------------------------------
(* The daemon, and the reader of a session.                                *)

\* What a daemon sends for a command.  A daemon that knows it closes the
\* channel after the answer, but for uninstall, which it may leave open, and
\* track, which it keeps reporting on.  hdcd answers a command it does not
\* handle with an echo, and leaves the channel open.
Replies(c, cmd) ==
    LET data == [cid |-> c, kind |-> "data"]
        close == [cid |-> c, kind |-> "close"] IN
    {<<data>>, <<data, close>>} \cup (IF cmd \in {"exec", "jdwp_list"} THEN {<<close>>} ELSE {})

DaemonAnswers(s, r) ==
    /\ r \in asked[s]
    /\ asked' = [asked EXCEPT ![s] = @ \ {r}]
    /\ \E reply \in Replies(r.cid, r.cmd) :
          incoming' = [incoming EXCEPT ![s] = @ \o reply]
    /\ UNCHANGED <<maps, clientvars, handlervars, sessionvars, outgoing, routing>>

\* route_response
Route(s) ==
    /\ SessionAt(s, "live")
    /\ routing[s] = NoMessage
    /\ incoming[s] # <<>>
    /\ LET m == Head(incoming[s])
           p == <<session_id[s], m.cid>> IN
       IF Registered(usb, session_id[s], m.cid)
       THEN /\ inbox' = [inbox EXCEPT ![m.cid][usb.response_channels[p]] = Append(@, m)]
            /\ UNCHANGED routing
       ELSE /\ routing' = [routing EXCEPT ![s] = m]
            /\ UNCHANGED inbox
    /\ incoming' = [incoming EXCEPT ![s] = Tail(@)]
    /\ UNCHANGED <<maps, clientvars, h, stream, sessionvars, outgoing, asked>>

DeliverPayload(s) ==
    /\ routing[s] # NoMessage
    /\ routing' = [routing EXCEPT ![s] = NoMessage]
    /\ UNCHANGED <<maps, clientvars, handlervars, sessionvars, outgoing, asked, incoming>>

\* send_channel_message, whose result is ignored, or end_channel
Deliver(s) ==
    /\ routing[s] # NoMessage
    /\ tcp' = IF routing[s].kind = "close" THEN EndChannel(tcp, routing[s].cid) ELSE tcp
    /\ routing' = [routing EXCEPT ![s] = NoMessage]
    /\ UNCHANGED <<connect_map, usb, clientvars, handlervars, sessionvars, outgoing, asked, incoming>>

\* A read error ends the loop, and the cleanup begins: connect_map.remove,
\* end_session_with_cleanup, writer_task.await, close_session_channels.
\* (remove_forward_entry, the last call, works on the forward map.)
ReadError(s) ==
    /\ SessionAt(s, "live")
    /\ routing[s] = NoMessage
    /\ connect_map' = Remove(connect_map, KeyOf[s])
    /\ incoming' = [incoming EXCEPT ![s] = <<>>]
    /\ asked' = [asked EXCEPT ![s] = {}]
    /\ SessionGoto(s, "end_session")
    /\ UNCHANGED <<tcp, usb, clientvars, handlervars, wpc, idvars, outgoing, routing>>

EndSessionPlain(s) ==
    /\ SessionAt(s, "end_session")
    /\ usb' = EndUsbSession(usb, session_id[s])
    /\ SessionGoto(s, "wait_writer")
    /\ UNCHANGED <<connect_map, tcp, clientvars, handlervars, wpc, idvars, linkvars>>

EndSession(s) ==
    /\ SessionAt(s, "end_session")
    /\ usb' = EndSessionWithCleanup(usb, session_id[s])
    /\ SessionGoto(s, "wait_writer")
    /\ UNCHANGED <<connect_map, tcp, clientvars, handlervars, wpc, idvars, linkvars>>

WriterJoined(s) ==
    /\ SessionAt(s, "wait_writer")
    /\ wpc[s] = "done"
    /\ SessionGoto(s, "close_channels")
    /\ UNCHANGED <<maps, clientvars, handlervars, wpc, idvars, linkvars>>

CloseNoChannels(s) ==
    /\ SessionAt(s, "close_channels")
    /\ SessionGoto(s, "gone")
    /\ UNCHANGED <<maps, clientvars, handlervars, wpc, idvars, linkvars>>

CloseChannels(s) ==
    /\ SessionAt(s, "close_channels")
    /\ tcp' = CloseSessionChannels(tcp, session_id[s])
    /\ SessionGoto(s, "gone")
    /\ UNCHANGED <<connect_map, usb, clientvars, handlervars, wpc, idvars, linkvars>>

-----------------------------------------------------------------------------
(* TCP sessions: start_tcp_daemon_session.                                 *)

TcpStart(s) ==
    /\ SessionAt(s, "new")
    /\ tcp' = StartTcpSession(tcp, s)
    /\ SessionGoto(s, "open")
    /\ UNCHANGED <<connect_map, usb, clientvars, handlervars, wpc, idvars, linkvars>>

\* Every error of the handshake ends the session, but a failed send (`?`)
\* leaves its writer in the map.
TcpFails(s) ==
    /\ SessionAt(s, "open")
    /\ tcp' \in {tcp, EndTcpSession(tcp, s)}
    /\ SessionGoto(s, "gone")
    /\ UNCHANGED <<connect_map, usb, clientvars, handlervars, wpc, idvars, linkvars>>

TcpConnected(s) ==
    /\ SessionAt(s, "open")
    /\ connect_map' = Put(connect_map, KeyOf[s], DaemonInfo(s, "Connected"))
    /\ SessionGoto(s, "live")
    /\ UNCHANGED <<tcp, usb, clientvars, handlervars, wpc, idvars, linkvars>>

\* After its cleanup call, connect_map.remove, the reader ends the session.
TcpEnd(s) ==
    /\ SessionAt(s, "end_session")
    /\ tcp' = EndTcpSession(tcp, s)
    /\ SessionGoto(s, "gone")
    /\ UNCHANGED <<connect_map, usb, clientvars, handlervars, wpc, idvars, linkvars>>

-----------------------------------------------------------------------------
HandlerStep(c) ==
    \/ Recv(c) \/ RecvEnd(c)
    \/ Local(c) \/ WaitForGivesUp(c) \/ EnableKeepAlive(c)
    \/ Resolve(c) \/ Lookup(c) \/ Reply(c)
    \/ DropSession(c) \/ DropEntry(c)
    \/ RegisterStream(c) \/ RegisterCollector(c) \/ Send(c) \/ SendFailed(c) \/ AssociateChannel(c)
    \/ Collect(c) \/ UnregisterReceiver(c) \/ FinishCollect(c)

StreamStep(c, i) == StreamRecv(c, i) \/ StreamEnds(c, i) \/ StreamUnregisters(c, i)

WriterStep(s) == Write(s) \/ WriteFails(s) \/ WriterEnds(s)

CleanupStep(s) == EndSession(s) \/ WriterJoined(s) \/ CloseChannels(s)

UsbStep(s) ==
    \/ SessionOpens(s) \/ SessionFails(s) \/ SessionConnected(s) \/ StartSession(s)
    \/ WriterStep(s) \/ CleanupStep(s)

TcpStep(s) == TcpStart(s) \/ TcpFails(s) \/ TcpConnected(s) \/ TcpEnd(s)

Next ==
    \/ \E c \in Channel :
          \/ ClientConnects(c)
          \/ \E cmd \in Command : ClientSends(c, cmd)
          \/ ClientCloses(c)
          \/ HandlerStep(c)
          \/ \E i \in Streamer : StreamStep(c, i)
    \/ \E s \in UsbSession : UsbStep(s)
    \/ \E s \in TcpSession : TcpStep(s)
    \/ \E s \in Session :
          \/ \E r \in Request : DaemonAnswers(s, r)
          \/ Route(s) \/ Deliver(s) \/ ReadError(s)

Spec == Init /\ [][Next]_vars

(* Every task that is not waiting for somebody goes on, and a client that  *)
(* reads the end of the stream closes its socket.  Nothing is assumed of   *)
(* devices: links may stay up or break, and writes may fail.               *)
Fairness ==
    /\ \A c \in Channel :
          /\ WF_vars(HandlerStep(c)) /\ WF_vars(SeesEnd(c))
          /\ \A i \in Streamer : WF_vars(StreamStep(c, i))
    /\ \A s \in UsbSession :
          WF_vars(StartSession(s)) /\ WF_vars(WriterStep(s)) /\ WF_vars(CleanupStep(s))
    /\ \A s \in TcpSession : WF_vars(TcpEnd(s))
    /\ \A s \in Session : WF_vars(Route(s)) /\ WF_vars(Deliver(s))

FairSpec == Spec /\ Fairness

-----------------------------------------------------------------------------
(* Properties.                                                             *)

\* The task that reads the receiver of a registration is in its receive loop,
\* or on its way there.
Reads(i, c) ==
    \/ /\ HasSender(i, c, "handler")
       /\ h[c].pc = "collect" /\ h[c].cmd = "uninstall" /\ h[c].sid = i
    \/ \E r \in Streamer :
          /\ HasSender(i, c, r)
          /\ \/ /\ h[c].pc \in {"send", "associate"}
                /\ h[c].cmd = "track" /\ h[c].rx = r /\ h[c].sid = i
             \/ stream[c][r].pc = "recv" /\ stream[c][r].sid = i

\* The task has left its receive loop, or will not enter it, and its next steps
\* take the registration back.
TakesBack(i, c) ==
    \/ /\ HasSender(i, c, "handler")
       /\ h[c].pc = "unregister" /\ h[c].cmd = "uninstall" /\ h[c].sid = i
    \/ \E r \in Streamer :
          /\ HasSender(i, c, r)
          /\ \/ /\ h[c].pc \in {"failed", "unregister"}
                /\ h[c].cmd = "track" /\ h[c].rx = r /\ h[c].sid = i
             \/ stream[c][r].pc \in {"end", "unregister"} /\ stream[c][r].sid = i

\* No registration is left behind for route_response to swallow the answers of
\* a channel with: it has a task that reads it or, in the moment between the
\* receive loop and unregister_response_channel, one that is about to take it
\* back, unless the channel is closed or its client gone (the early return of
\* JdwpTrack leaves one then).  An answer routed in that moment is lost.
NoOrphanReceiver ==
    \A p \in DOMAIN usb.response_channels :
        \/ Reads(p[1], p[2]) \/ TakesBack(p[1], p[2])
        \/ p[2] \notin tcp.channel_writers \/ client[p[2]] = "gone"

\* The devices of the sessions that go, or went, by an id.
Devices(i) == {KeyOf[s] : s \in {s \in Session : session_id[s] = i}}

\* A request only ever reaches the device its client named, or one whose daemon
\* had its session take the id of a session of that device, although the key
\* is resolved, looked up and used in three steps, and entries and senders are
\* replaced and removed in between.
RightDevice ==
    \A s \in Session : \A r \in asked[s] \cup (IF s \in UsbSession
                                               THEN {outgoing[s][i] : i \in DOMAIN outgoing[s]}
                                               ELSE {}) :
        Wanted[r.cid] \in Devices(session_id[s]) \cup {"any"}

Associated(c, s) == c \in ChannelsOf(tcp, session_id[s])

\* A channel associated with a USB session when its read loop ends is closed
\* by the cleanup, unless it moves on to another session.
AssociatedIsClosed ==
    \A c \in Channel : \A s \in UsbSession :
        (Associated(c, s) /\ spc[s] = "end_session")
            ~> (c \notin tcp.channel_writers \/ ~Associated(c, s))

\* track-jpid ends with its USB session, in whichever order the registration, the
\* request, the association and the cleanup of the session come.
TrackEnds ==
    \A c \in Channel, i \in Streamer : \A s \in UsbSession :
        (stream[c][i].pc = "recv" /\ stream[c][i].sid = session_id[s] /\ spc[s] = "gone")
            ~> (stream[c][i].pc = "off" /\ c \notin tcp.channel_writers)

\* uninstall always comes to an end, whatever becomes of the device and of
\* its answers (collect_daemon_response_then_close).
UninstallEnds ==
    \A c \in Channel :
        (h[c].cmd = "uninstall")
            ~> (c \notin tcp.channel_writers \/ c \in tcp.keep_alive)

\* The daemon's KernelChannelClose gets through: whether the reader, the
\* streamer or the collector is the one to take it, and whatever is registered
\* and unregistered between the lookup and the delivery, the channel is
\* closed, unless the session ends first or the collector spares a keep-alive
\* channel.
CloseGetsThrough ==
    \A c \in Channel : \A s \in Session :
        (\E i \in DOMAIN incoming[s] : incoming[s][i] = [cid |-> c, kind |-> "close"])
            ~> (c \notin tcp.channel_writers \/ c \in tcp.keep_alive \/ spc[s] # "live")

-----------------------------------------------------------------------------
(* What a comment says, and the code does not do.                          *)

\* "Close all TCP client channels still associated with this session so
\* single-command clients (e.g. hdc shell pwd) don't hang forever": no
\* channel stays open on behalf of a session that is over.
NoClientHangs ==
    \A c \in Channel : \A s \in UsbSession :
        (Associated(c, s) /\ spc[s] = "gone")
            ~> (c \notin tcp.channel_writers \/ ~Associated(c, s))

=============================================================================
