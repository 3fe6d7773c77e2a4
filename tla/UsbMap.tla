------------------------------- MODULE UsbMap -------------------------------
(***************************************************************************)
(* The server's map of USB sessions (struct UsbMap in server.rs): the      *)
(* queue into each session's writer task, and the receivers that answers   *)
(* for a (session, channel) pair are routed to.  One Mutex, one operator   *)
(* per method.  A receiver stands for the mpsc channel of one              *)
(* registration; it has lost its sender when no pair leads to it.          *)
(***************************************************************************)
EXTENDS ConnectMap

EmptyUsbMap == [session_senders |-> {}, response_channels |-> EmptyMap]

StartUsbSession(map, sid) == [map EXCEPT !.session_senders = @ \cup {sid}]

EndUsbSession(map, sid) == [map EXCEPT !.session_senders = @ \ {sid}]

EndSessionWithCleanup(map, sid) ==
    [map EXCEPT !.session_senders = @ \ {sid},
                !.response_channels =
                    [p \in {q \in DOMAIN @ : q[1] # sid} |-> @[p]]]

RegisterSwapped(map, sid, cid, receiver) ==
    [map EXCEPT !.response_channels = Put(@, <<cid, sid>>, receiver)]

Register(map, sid, cid, receiver) ==
    [map EXCEPT !.response_channels = Put(@, <<sid, cid>>, receiver)]

Unregister(map, sid, cid) ==
    [map EXCEPT !.response_channels = Remove(@, <<sid, cid>>)]

Registered(map, sid, cid) == <<sid, cid>> \in DOMAIN map.response_channels

=============================================================================
