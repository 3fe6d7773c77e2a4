------------------------------- MODULE TcpMap -------------------------------
(***************************************************************************)
(* The server's map of TCP writers (struct TcpMap in server.rs): the       *)
(* writers of TCP daemon sessions and of client channels, the session each *)
(* channel is associated with, and the channels marked keep-alive.  All of *)
(* it is behind one Mutex that every method takes once, so a method is an  *)
(* operator from the map before to the map after.  The ciphers of sessions *)
(* are in TcpSession.                                                      *)
(***************************************************************************)
EXTENDS ConnectMap

EmptyTcpMap ==
    [session_writers |-> {}, channel_writers |-> {},
     channel_sessions |-> EmptyMap, keep_alive |-> {}]

StartTcpSession(map, sid) == [map EXCEPT !.session_writers = @ \cup {sid}]

EndTcpSession(map, sid) == [map EXCEPT !.session_writers = @ \ {sid}]

StartChannel(map, cid) == [map EXCEPT !.channel_writers = @ \cup {cid}]

SetKeepAlive(map, cid) == [map EXCEPT !.keep_alive = @ \cup {cid}]

\* end_channel leaves the association with a session behind.
EndChannel(map, cid) ==
    [map EXCEPT !.channel_writers = @ \ {cid}, !.keep_alive = @ \ {cid}]

\* maybe_end_channel.  The flag is tested and the channel ended under two
\* locks, but only the channel's own handler, which is here, sets the flag.
MaybeEndChannel(map, cid) ==
    IF cid \in map.keep_alive THEN map ELSE EndChannel(map, cid)

Associate(map, cid, sid) ==
    [map EXCEPT !.channel_sessions = Put(@, cid, sid)]

ChannelsOf(map, sid) ==
    {cid \in DOMAIN map.channel_sessions : map.channel_sessions[cid] = sid}

\* close_session_channels leaves the keep-alive marks behind.
CloseSessionChannels(map, sid) ==
    [map EXCEPT !.channel_writers = @ \ ChannelsOf(map, sid),
                !.channel_sessions =
                    [cid \in DOMAIN @ \ ChannelsOf(map, sid) |-> @[cid]]]

=============================================================================
