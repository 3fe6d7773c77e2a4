----------------------------- MODULE PortForward -----------------------------
(***************************************************************************)
(* Setting up, listing and removing port forwarding rules                  *)
(* (handle_server_forward, handle_server_rport, remove_forward_entry in    *)
(* server.rs; forward.rs of hdcd).  What flows through a rule is           *)
(* ForwardBridge.                                                          *)
(*                                                                         *)
(* Each handler runs one command of Request: fport, rport, "fport rm", or  *)
(* one that only uses the channel's registration, such as a file transfer. *)
(* The commands of a keep-alive channel share its id and run in turn;      *)
(* those of different channels, the sessions' readers, the daemons and the *)
(* tasks that handlers leave behind run concurrently and meet in           *)
(* forward_map and usb_map.  A daemon is hdcd or a device's own, whose     *)
(* answers are read off what the handlers wait for.  Of a message only the *)
(* channel, the command, its flag and whose rule it is about are kept.     *)
(***************************************************************************)
EXTENDS TcpMap, UsbMap, Sequences

CONSTANTS
    UsbSession,      \* sessions with a device over USB
    HdcdSession,     \* sessions with hdcd, which are over TCP
    Handler,         \* handlers of commands
    Request,         \* the command of each, with its channel and its turn there
    Given            \* the sets of handlers whose commands are given

Session == UsbSession \cup HdcdSession

\* A rule is <<local, remote>> for fport and <<remote, local>> for rport; the
\* argument of "fport rm" is a rule, one end of it, or nothing.
ASSUME ForwardAssumption ==
    /\ Cardinality(Handler) \in Nat
    /\ UsbSession \cap HdcdSession = {}
    /\ Given \subseteq SUBSET Handler
    /\ \A c \in Handler :
          /\ Request[c].op \in {"fport", "rport", "rm", "file", "track"}
          /\ Request[c].session \in Session \cup {"any"}
          /\ Request[c].debug \in BOOLEAN /\ Request[c].turn \in Nat
          /\ Request[c].op # "rm" => Request[c].session \in Session
          /\ Request[c].op \in {"fport", "rport"} => Len(Request[c].spec) = 2
    /\ \A c, d \in Handler :
          Request[c].channel = Request[d].channel /\ Request[c].turn = Request[d].turn => c = d

VARIABLES
    usb, tcp,        \* usb_map and tcp_map
    forward_map,     \* rule -> entry
    h,               \* where each handler is
    told,            \* what it has told its client
    inbox,           \* its receiver, later its dispatcher's
    listener,        \* the host's listener of each fport
    down, up,        \* messages on the way to and from each daemon
    rport,           \* the task of hdcd for each ForwardInit
    rport_listeners, \* hdcd's: (session, channel) -> whose task is registered there
    deaf,            \* the sessions hdcd no longer reads
    cleanup          \* the USB sessions that have ended and whose rules are still there

hdcdvars == <<rport, rport_listeners, deaf>>
vars == <<usb, tcp, forward_map, h, told, inbox, listener, down, up, hdcdvars, cleanup>>

S(c) == Request[c].session
Port(c) == Request[c].spec[1]
Cid(c) == <<Request[c].channel, "channel">>   \* the id of the channel
Ctx(c) == <<c, "context">>   \* the random ctx_id, registered as a channel too

ForwardEntrySwapped(c) ==
    [channel_id |-> S(c), session_id |-> Cid(c), direction |-> Request[c].op, task |-> c]

\* The abort handle is known by whose task it aborts.
ForwardEntry(c) ==
    [channel_id |-> Cid(c), session_id |-> S(c), direction |-> Request[c].op, task |-> c]

\* A message on a channel about the rule, or the context, of a handler.
Msg(cid, of, command, ok) == [cid |-> cid, of |-> of, command |-> command, ok |-> ok]
Own(c, command, ok) == Msg(Cid(c), c, command, ok)

Setup == {c \in Handler : Request[c].op \in {"fport", "rport"}}

Init ==
    /\ usb = [EmptyUsbMap EXCEPT !.session_senders = UsbSession]
    /\ tcp = [EmptyTcpMap EXCEPT !.session_writers = HdcdSession]
    /\ forward_map = EmptyMap
    /\ \E given \in Given : h = [c \in Handler |-> IF c \in given THEN "start" ELSE "off"]
    /\ told = [c \in Handler |-> "nothing"]
    /\ inbox = [c \in Handler |-> <<>>]
    /\ listener = [c \in Handler |-> "none"]
    /\ down = [s \in Session |-> <<>>]
    /\ up = [s \in Session |-> <<>>]
    /\ rport = [c \in Handler |-> "none"]
    /\ rport_listeners = EmptyMap
    /\ deaf = {}
    /\ cleanup = {}

-----------------------------------------------------------------------------
At(c, pc) == h[c] = pc
Goto(c, pc) == h' = [h EXCEPT ![c] = pc]

Alive(s) == s \in usb.session_senders \/ s \in tcp.session_writers

\* send_to_session; a failed TCP write is no different from a session that
\* has ended.
Send(s, m) == Alive(s) /\ down' = [down EXCEPT ![s] = Append(@, m)]
SendFails(s) == ~Alive(s) /\ UNCHANGED down

\* usb_map.send_to_session alone
UsbSend(s, m) == s \in usb.session_senders /\ down' = [down EXCEPT ![s] = Append(@, m)]
UsbSendFails(s) == s \notin usb.session_senders /\ UNCHANGED down

\* handle_client reads the next command of a channel when the last one's
\* handler has returned; track-jpid leaves a task behind and returns.
Returned(c) == h[c] \in {"off", "done", "failed"} \/ (h[c] = "using" /\ Request[c].op = "track")
SameChannel(c, d) == Request[c].channel = Request[d].channel
Turn(c) ==
    \A d \in Handler : SameChannel(c, d) /\ Request[d].turn < Request[c].turn => Returned(d)

\* The port may be held by another rule or by another program.
PortFree(c) ==
    \A d \in Handler : listener[d] \notin {"none", "broken"} => Port(d) # Port(c)

Bind(c) == PortFree(c) /\ listener' = [listener EXCEPT ![c] = "bound"]
DropListener(c) == listener' = [listener EXCEPT ![c] = "none"]

\* The handler returns Err: its receiver and its listener are dropped.
Fails(c) == Goto(c, "failed") /\ DropListener(c)

Take(c) == inbox[c] # <<>> /\ inbox' = [inbox EXCEPT ![c] = Tail(@)]

-----------------------------------------------------------------------------
(* fport (handle_server_forward)                                           *)

StartForward(c) ==
    /\ At(c, "start") /\ Turn(c) /\ Request[c].op = "fport"
    /\ usb' = Register(usb, S(c), Cid(c), c)
    /\ Goto(c, IF Request[c].debug THEN "init" ELSE "bind")
    /\ UNCHANGED <<tcp, forward_map, told, inbox, listener, down, up, hdcdvars, cleanup>>

\* The textbook flow: the listener first, then ForwardCheck.  Whatever goes
\* wrong in it leads to ForwardInit.
BindFirst(c) ==
    /\ At(c, "bind")
    /\ \/ Bind(c) /\ Goto(c, "register_ctx")
       \/ Goto(c, "init") /\ UNCHANGED listener
    /\ UNCHANGED <<usb, tcp, forward_map, told, inbox, down, up, hdcdvars, cleanup>>

RegisterCtx(c) ==
    /\ At(c, "register_ctx")
    /\ usb' = Register(usb, S(c), Ctx(c), c)
    /\ Goto(c, "check")
    /\ UNCHANGED <<tcp, forward_map, told, inbox, listener, down, up, hdcdvars, cleanup>>

FallBack(c) == Goto(c, "init") /\ DropListener(c)

SendForwardCheck(c) ==
    /\ At(c, "check")
    /\ \/ Send(S(c), Own(c, "ForwardCheck", TRUE)) /\ Goto(c, "result") /\ UNCHANGED listener
       \/ SendFails(S(c)) /\ FallBack(c)
    /\ UNCHANGED <<usb, tcp, forward_map, told, inbox, up, hdcdvars, cleanup>>

AwaitCheckResult(c) ==
    /\ At(c, "result") /\ Take(c)
    /\ LET m == Head(inbox[c])
           result == m.command = "ForwardCheckResult" /\ m.of = c
       IN \/ result /\ m.ok /\ Goto(c, "announce_first") /\ UNCHANGED listener
          \/ result /\ ~m.ok /\ FallBack(c)
          \/ m.command = "KernelChannelClose" /\ FallBack(c)
          \/ ~result /\ m.command # "KernelChannelClose" /\ UNCHANGED <<h, listener>>
    /\ UNCHANGED <<usb, tcp, forward_map, told, down, up, hdcdvars, cleanup>>

\* The ForwardInit flow, the only one for ark: and jdwp:.
SendForwardInit(c) ==
    /\ At(c, "init")
    /\ \/ /\ Send(S(c), Own(c, "ForwardInit", TRUE))
          /\ Goto(c, "await_check") /\ UNCHANGED listener
       \/ SendFails(S(c)) /\ Fails(c)
    /\ UNCHANGED <<usb, tcp, forward_map, told, inbox, up, hdcdvars, cleanup>>

AwaitForwardCheck(c) ==
    /\ At(c, "await_check") /\ Take(c)
    /\ LET m == Head(inbox[c])
       IN \/ m.command = "ForwardCheck" /\ Goto(c, "bind_again") /\ UNCHANGED listener
          \/ m.command = "KernelChannelClose" /\ Fails(c)
          \/ m.command \notin {"ForwardCheck", "KernelChannelClose"} /\ UNCHANGED <<h, listener>>
    /\ UNCHANGED <<usb, tcp, forward_map, told, down, up, hdcdvars, cleanup>>

\* A failed bind is the one failure that takes back the registration.
BindAgain(c) ==
    /\ At(c, "bind_again")
    /\ \/ Bind(c) /\ Goto(c, "confirm") /\ UNCHANGED <<usb, down>>
       \/ /\ \/ UsbSend(S(c), Own(c, "ForwardCheckResult", FALSE))
             \/ UsbSendFails(S(c))
          /\ usb' = Unregister(usb, S(c), Cid(c))
          /\ Fails(c)
    /\ UNCHANGED <<tcp, forward_map, told, inbox, up, hdcdvars, cleanup>>

\* send_forward_check_result knows only USB sessions.
SendForwardCheckResult(c) ==
    /\ At(c, "confirm")
    /\ \/ UsbSend(S(c), Own(c, "ForwardCheckResult", TRUE)) /\ Goto(c, "success")
          /\ UNCHANGED listener
       \/ UsbSendFails(S(c)) /\ Fails(c)
    /\ UNCHANGED <<usb, tcp, forward_map, told, inbox, up, hdcdvars, cleanup>>

Confirmed(c) == Goto(c, IF Request[c].debug THEN "follow_up" ELSE "announce")

\* An echo of "Forwardport result" counts as ForwardSuccess.
AwaitForwardSuccess(c) ==
    /\ At(c, "success") /\ Take(c)
    /\ \/ Head(inbox[c]).command = "ForwardSuccess" /\ Confirmed(c)
       \/ Head(inbox[c]).command # "ForwardSuccess" /\ UNCHANGED h
    /\ UNCHANGED <<usb, tcp, forward_map, told, listener, down, up, hdcdvars, cleanup>>

SendFollowUp(c) ==
    /\ At(c, "follow_up")
    /\ \/ Send(S(c), Own(c, "ForwardCheck", TRUE)) /\ Goto(c, "follow_up_result")
          /\ UNCHANGED listener
       \/ SendFails(S(c)) /\ Fails(c)
    /\ UNCHANGED <<usb, tcp, forward_map, told, inbox, up, hdcdvars, cleanup>>

\* The outcome is only logged.  A result counts if it has the context of the
\* ForwardCheck that was taken for this rule's, which may be an earlier one's.
AwaitFollowUp(c) ==
    /\ At(c, "follow_up_result") /\ Take(c)
    /\ \/ /\ Head(inbox[c]).command \in {"ForwardCheckResult", "KernelChannelClose"}
          /\ Goto(c, "announce")
       \/ Head(inbox[c]).command # "KernelChannelClose" /\ UNCHANGED h
    /\ UNCHANGED <<usb, tcp, forward_map, told, listener, down, up, hdcdvars, cleanup>>

\* "Forwardport result:OK".  Even a client that has left makes the textbook
\* flow fall back.
AnnounceForward(c) ==
    /\ h[c] \in {"announce_first", "announce"} /\ Request[c].op = "fport"
    /\ \/ told' = [told EXCEPT ![c] = "ok"] /\ Goto(c, "spawn") /\ UNCHANGED listener
       \/ At(c, "announce_first") /\ FallBack(c) /\ UNCHANGED told
       \/ At(c, "announce") /\ Fails(c) /\ UNCHANGED told
    /\ UNCHANGED <<usb, tcp, forward_map, inbox, down, up, hdcdvars, cleanup>>

\* The dispatcher takes over the receiver, a task the listener.
SpawnListener(c) ==
    /\ At(c, "spawn")
    /\ listener' = [listener EXCEPT ![c] = "running"]
    /\ Goto(c, "insert")
    /\ UNCHANGED <<usb, tcp, forward_map, told, inbox, down, up, hdcdvars, cleanup>>

InsertForwardEntry(c) ==
    /\ At(c, "insert")
    /\ forward_map' = Put(forward_map, Request[c].spec, ForwardEntry(c))
    /\ Goto(c, "done")
    /\ UNCHANGED <<usb, tcp, told, inbox, listener, down, up, hdcdvars, cleanup>>

ForwardTimeoutNotOfInit(c) ==
    /\ \/ At(c, "result") /\ FallBack(c)
       \/ At(c, "success") /\ Confirmed(c) /\ UNCHANGED listener
       \/ At(c, "follow_up_result") /\ Goto(c, "announce") /\ UNCHANGED listener
    /\ UNCHANGED <<usb, tcp, forward_map, told, inbox, down, up, hdcdvars, cleanup>>

\* The deadlines of the waits: 5 s and 10 s.  The handler keeps a sender of
\* its own, so that it is never told that a session has ended.
ForwardTimeout(c) ==
    /\ \/ At(c, "result") /\ FallBack(c)
       \/ At(c, "await_check") /\ Fails(c)
       \/ At(c, "success") /\ Confirmed(c) /\ UNCHANGED listener
       \/ At(c, "follow_up_result") /\ Goto(c, "announce") /\ UNCHANGED listener
    /\ UNCHANGED <<usb, tcp, forward_map, told, inbox, down, up, hdcdvars, cleanup>>

-----------------------------------------------------------------------------
(* rport (handle_server_rport)                                             *)

StartRport(c) ==
    /\ At(c, "start") /\ Turn(c) /\ Request[c].op = "rport"
    /\ usb' = Register(usb, S(c), Cid(c), c)
    /\ Goto(c, "rport_init")
    /\ UNCHANGED <<tcp, forward_map, told, inbox, listener, down, up, hdcdvars, cleanup>>

SendRportInit(c) ==
    /\ At(c, "rport_init")
    /\ \/ Send(S(c), Own(c, "ForwardInit", TRUE)) /\ Goto(c, "setup")
       \/ SendFails(S(c)) /\ Goto(c, "unregister")
    /\ UNCHANGED <<usb, tcp, forward_map, told, inbox, listener, up, hdcdvars, cleanup>>

\* A ForwardCheck is answered by whether the local port can be connected to,
\* whichever rule of the channel it is about.
AnswerCheck(c, of) ==
    \/ \E ok \in BOOLEAN : Send(S(c), Msg(Cid(c), of, "ForwardCheckResult", ok))
    \/ SendFails(S(c))

AwaitSetup(c) ==
    /\ At(c, "setup") /\ Take(c)
    /\ LET m == Head(inbox[c])
       IN \/ m.command = "ForwardCheck" /\ AnswerCheck(c, m.of) /\ UNCHANGED h
          \/ m.command = "ForwardSuccess" /\ Goto(c, "rport_announce") /\ UNCHANGED down
          \/ m.command = "KernelChannelClose" /\ Goto(c, "unregister") /\ UNCHANGED down
          \/ /\ m.command \notin {"ForwardCheck", "ForwardSuccess", "KernelChannelClose"}
             /\ UNCHANGED <<h, down>>
    /\ UNCHANGED <<usb, tcp, forward_map, told, listener, up, hdcdvars, cleanup>>

\* The deadline of 10 s, or the end of a USB session.
RportTimeout(c) ==
    /\ At(c, "setup")
    /\ Goto(c, "unregister")
    /\ UNCHANGED <<usb, tcp, forward_map, told, inbox, listener, down, up, hdcdvars, cleanup>>

AnnounceRport(c) ==
    /\ At(c, "rport_announce")
    /\ \/ told' = [told EXCEPT ![c] = "ok"] /\ Goto(c, "rport_insert")
       \/ Goto(c, "unregister") /\ UNCHANGED told
    /\ UNCHANGED <<usb, tcp, forward_map, inbox, listener, down, up, hdcdvars, cleanup>>

UnregisterRportNot(c) ==
    /\ At(c, "unregister")
    /\ Goto(c, "failed")
    /\ UNCHANGED <<usb, tcp, forward_map, told, inbox, listener, down, up, hdcdvars, cleanup>>

UnregisterRport(c) ==
    /\ At(c, "unregister")
    /\ usb' = Unregister(usb, S(c), Cid(c))
    /\ Goto(c, "failed")
    /\ UNCHANGED <<tcp, forward_map, told, inbox, listener, down, up, hdcdvars, cleanup>>

InsertRportEntryUnregisters(c) ==
    /\ At(c, "rport_insert")
    /\ forward_map' = Put(forward_map, Request[c].spec, ForwardEntry(c))
    /\ usb' = Unregister(usb, S(c), Cid(c))
    /\ Goto(c, "done")
    /\ UNCHANGED <<tcp, told, inbox, listener, down, up, hdcdvars, cleanup>>

\* There is no listener on the host; the dispatcher is spawned last.
InsertRportEntry(c) ==
    /\ At(c, "rport_insert")
    /\ forward_map' = Put(forward_map, Request[c].spec, ForwardEntry(c))
    /\ Goto(c, "done")
    /\ UNCHANGED <<usb, tcp, told, inbox, listener, down, up, hdcdvars, cleanup>>

\* The dispatcher goes on answering.
RportDispatches(c) ==
    /\ At(c, "done") /\ Request[c].op = "rport" /\ Take(c)
    /\ \/ Head(inbox[c]).command = "ForwardCheck" /\ AnswerCheck(c, Head(inbox[c]).of)
       \/ Head(inbox[c]).command # "ForwardCheck" /\ UNCHANGED down
    /\ UNCHANGED <<usb, tcp, forward_map, h, told, listener, up, hdcdvars, cleanup>>

-----------------------------------------------------------------------------
(* The other commands of a channel: they register it, and take that back   *)
(* when they end, a file transfer before its handler returns and           *)
(* track-jpid in the task it leaves behind.  Of what they say only the     *)
(* daemon's last word, which may come late, concerns a later command.      *)

StartOther(c) ==
    /\ At(c, "start") /\ Turn(c) /\ Request[c].op \in {"file", "track"}
    /\ usb' = Register(usb, S(c), Cid(c), c)
    /\ Goto(c, "using")
    /\ UNCHANGED <<tcp, forward_map, told, inbox, listener, down, up, hdcdvars, cleanup>>

EndOther(c) ==
    /\ At(c, "using")
    /\ usb' = Unregister(usb, S(c), Cid(c))
    /\ Goto(c, "done")
    /\ \/ UNCHANGED up
       \/ Alive(S(c)) /\ up' = [up EXCEPT ![S(c)] = Append(@, Own(c, "KernelChannelClose", TRUE))]
    /\ UNCHANGED <<tcp, forward_map, told, inbox, listener, down, hdcdvars, cleanup>>

-----------------------------------------------------------------------------
(* fport rm (remove_forward_entry), under the lock of forward_map          *)

\* The keys that -t names.
OfKey(k, session) == session = "any" \/ forward_map[k].session_id = session

\* All the rules of a device; a rule given in full, whosever it is; or some
\* rule of the device with that end.
ToRemoveIn(spec, session, keys) ==
    IF spec = <<>> THEN keys = {k \in DOMAIN forward_map : OfKey(k, session)}
    ELSE IF spec \in DOMAIN forward_map THEN keys = {spec}
    ELSE LET found == {k \in DOMAIN forward_map :
                          OfKey(k, session) /\ Len(spec) = 1 /\ spec[1] \in {k[1], k[2]}}
         IN IF found = {} THEN keys = {} ELSE \E k \in found : keys = {k}

AbortListenersNot(gone) == UNCHANGED listener

AbortListeners(gone) ==
    listener' = [d \in Handler |-> IF d \in gone /\ listener[d] = "running"
                                  THEN "aborted" ELSE listener[d]]

\* A HashMap is walked in any order: the ways to walk a set of rules.
Walks(set) ==
    {q \in UNION {[1..n -> set] : n \in 0..Cardinality(Handler)} :
        /\ \A x \in set : \E i \in DOMAIN q : q[i] = x
        /\ \A i, j \in DOMAIN q : q[i] = q[j] => i = j}

\* Send KernelChannelClose for each to its session, if that is there.
SendCloses(gone) ==
    LET closing(s) == {d \in gone : S(d) = s /\ Alive(s)}
    IN \E q \in [Session -> UNION {Walks(closing(s)) : s \in Session}] :
          /\ \A s \in Session : q[s] \in Walks(closing(s))
          /\ down' = [s \in Session |->
                        down[s] \o [i \in DOMAIN q[s] |->
                                       Own(q[s][i], "KernelChannelClose", TRUE)]]

\* Abort the listener of each, and close its channel.
RemoveKeys(keys) ==
    LET gone == {forward_map[k].task : k \in keys}
    IN /\ forward_map' = [k \in DOMAIN forward_map \ keys |-> forward_map[k]]
       /\ AbortListeners(gone)
       /\ SendCloses(gone)

RemoveForwardEntry(c) ==
    /\ At(c, "start") /\ Turn(c) /\ Request[c].op = "rm"
    /\ \E keys \in SUBSET DOMAIN forward_map :
          /\ ToRemoveIn(Request[c].spec, Request[c].session, keys)
          /\ RemoveKeys(keys)
          /\ told' = [told EXCEPT ![c] = IF keys = {} /\ Request[c].spec # <<>>
                                         THEN "fail" ELSE "ok"]
    /\ Goto(c, "done")
    /\ UNCHANGED <<usb, tcp, inbox, up, hdcdvars, cleanup>>

\* An aborted task drops its listener when it is next polled.
ListenerStops(c) ==
    /\ listener[c] = "aborted"
    /\ DropListener(c)
    /\ UNCHANGED <<usb, tcp, forward_map, h, told, inbox, down, up, hdcdvars, cleanup>>

\* An error of accept ends the task, and the rule stays listed.
ListenerBreaks(c) ==
    /\ listener[c] = "running"
    /\ listener' = [listener EXCEPT ![c] = "broken"]
    /\ UNCHANGED <<usb, tcp, forward_map, h, told, inbox, down, up, hdcdvars, cleanup>>

-----------------------------------------------------------------------------
(* Sessions and daemons                                                    *)

\* What handlers and dispatchers make something of.
Concerns(m, c) ==
    \/ c \in Setup /\ h[c] \notin {"done", "failed"}
    \/ h[c] = "done" /\ Request[c].op = "rport" /\ m.command = "ForwardCheck"

RouteResponse(s) ==
    /\ Alive(s) /\ up[s] # <<>>
    /\ up' = [up EXCEPT ![s] = Tail(@)]
    /\ LET m == Head(up[s])
       IN inbox' = IF Registered(usb, s, m.cid)
                   THEN LET c == usb.response_channels[<<s, m.cid>>]
                        IN IF Concerns(m, c) THEN [inbox EXCEPT ![c] = Append(@, m)] ELSE inbox
                   ELSE inbox
    /\ UNCHANGED <<usb, tcp, forward_map, h, told, listener, down, hdcdvars, cleanup>>

EndSession(s) ==
    /\ usb' = IF s \in UsbSession THEN EndSessionWithCleanup(usb, s) ELSE usb
    /\ tcp' = EndTcpSession(tcp, s)
    /\ down' = [down EXCEPT ![s] = <<>>]
    /\ up' = [up EXCEPT ![s] = <<>>]

\* The link breaks.  The reader of a TCP session leaves the rules alone; the
\* task of a USB session removes those of its device, but only after it has
\* waited for the writer and closed the clients' channels.
SessionEnds(s) ==
    /\ Alive(s) /\ EndSession(s)
    /\ cleanup' = cleanup \cup ({s} \cap UsbSession)
    /\ UNCHANGED <<forward_map, h, told, inbox, listener, hdcdvars>>

RemoveRulesOfSwapped(s) ==
    /\ s \in cleanup /\ cleanup' = cleanup \ {s}
    /\ \E keys \in SUBSET DOMAIN forward_map :
          ToRemoveIn(<<s>>, "any", keys) /\ RemoveKeys(keys)
    /\ UNCHANGED <<usb, tcp, h, told, inbox, up, hdcdvars>>

RemoveRulesOf(s) ==
    /\ s \in cleanup /\ cleanup' = cleanup \ {s}
    /\ \E keys \in SUBSET DOMAIN forward_map :
          ToRemoveIn(<<>>, s, keys) /\ RemoveKeys(keys)
    /\ UNCHANGED <<usb, tcp, h, told, inbox, up, hdcdvars>>

\* A device answers or not, on the channel or on the context.
DeviceTakes(s) ==
    /\ s \in UsbSession /\ Alive(s) /\ down[s] # <<>>
    /\ down' = [down EXCEPT ![s] = Tail(@)]
    /\ LET m == Head(down[s])
           Answers(cid, command, ok) ==
              up' = [up EXCEPT ![s] = Append(@, Msg(cid, m.of, command, ok))]
       IN \/ UNCHANGED up
          \/ /\ m.command = "ForwardCheck"
             /\ \E ok \in BOOLEAN, cid \in {m.cid, Ctx(m.of)} : Answers(cid, "ForwardCheckResult", ok)
          \/ m.command = "ForwardInit" /\ Answers(m.cid, "ForwardCheck", TRUE)
          \/ m.command = "ForwardCheckResult" /\ m.ok /\ Answers(m.cid, "ForwardSuccess", TRUE)
          \/ /\ m.command \in {"ForwardCheck", "ForwardInit"}
             /\ Answers(m.cid, "KernelChannelClose", TRUE)
    /\ UNCHANGED <<usb, tcp, forward_map, h, told, inbox, listener, hdcdvars, cleanup>>

\* handle_forward_task and the arm KernelChannelClose of dispatch_task.  The
\* ForwardCheckResult has its flag in byte 12 and 0 in byte 4, where the host
\* looks.  A ForwardInit replaces the task registered for its channel.  After
\* a close that no listener answers for hdcd stops reading the session, whose
\* writer the other listeners may keep.
HdcdTakes(s) ==
    /\ s \in HdcdSession \ deaf /\ Alive(s) /\ down[s] # <<>>
    /\ down' = [down EXCEPT ![s] = Tail(@)]
    /\ LET m == Head(down[s])
           p == <<s, m.cid>>
           known == p \in DOMAIN rport_listeners
           Answers(command) == up' = [up EXCEPT ![s] = Append(@, Msg(m.cid, m.of, command, FALSE))]
       IN \/ m.command = "ForwardCheck" /\ Answers("ForwardCheckResult") /\ UNCHANGED hdcdvars
          \/ /\ m.command = "ForwardInit"
             /\ rport' = [rport EXCEPT ![m.of] = "ask"]
             /\ rport_listeners' = Put(rport_listeners, p, m.of)
             /\ UNCHANGED <<up, deaf>>
          \/ m.command = "ForwardInit" /\ Answers("KernelEcho") /\ UNCHANGED hdcdvars
          \/ /\ m.command = "ForwardCheckResult" /\ known
             /\ rport' = IF rport_listeners[p] = m.of /\ rport[m.of] = "asked"
                         THEN [rport EXCEPT ![m.of] = IF m.ok THEN "passed" ELSE "refused"]
                         ELSE rport
             /\ UNCHANGED <<up, rport_listeners, deaf>>
          \/ /\ m.command = "ForwardCheckResult" /\ ~known
             /\ Answers("KernelEcho") /\ UNCHANGED hdcdvars
          \/ /\ m.command = "KernelChannelClose" /\ known
             /\ rport' = [rport EXCEPT ![rport_listeners[p]] = "none"]
             /\ rport_listeners' = Remove(rport_listeners, p)
             /\ Answers("KernelChannelClose") /\ UNCHANGED deaf
          \/ /\ m.command = "KernelChannelClose" /\ ~known
             /\ deaf' = deaf \cup {s}
             /\ Answers("KernelChannelClose") /\ UNCHANGED <<rport, rport_listeners>>
    /\ UNCHANGED <<usb, tcp, forward_map, h, told, inbox, listener, cleanup>>

\* hdcd's messages for the channel reach the task.
Current(c) ==
    LET p == <<S(c), Cid(c)>> IN p \in DOMAIN rport_listeners /\ rport_listeners[p] = c

\* run_rport_listener: asks the host, waits for its answer, confirms it and
\* accepts, or ends.  It ends too when another task has taken its place, or on
\* an error of accept, but not with the session; at its end it removes
\* whichever task is registered for the channel.
RunRportListener(c) ==
    LET Says(m) == up' = IF Alive(S(c)) THEN [up EXCEPT ![S(c)] = Append(@, m)] ELSE up
        Goes(state) == rport' = [rport EXCEPT ![c] = state] /\ UNCHANGED rport_listeners
        Ends ==
           /\ rport' = [rport EXCEPT ![c] = "none"]
           /\ rport_listeners' = Remove(rport_listeners, <<S(c), Cid(c)>>)
           /\ UNCHANGED up
    IN /\ \/ rport[c] = "ask" /\ Alive(S(c)) /\ Goes("asked") /\ Says(Own(c, "ForwardCheck", TRUE))
          \/ rport[c] = "ask" /\ ~Alive(S(c)) /\ Ends
          \/ rport[c] = "passed" /\ Goes("accepting") /\ Says(Own(c, "ForwardSuccess", TRUE))
          \/ rport[c] \in {"refused", "accepting"} /\ Ends
          \/ rport[c] = "asked" /\ ~Current(c) /\ Ends
       /\ UNCHANGED <<usb, tcp, forward_map, h, told, inbox, listener, down, deaf, cleanup>>

-----------------------------------------------------------------------------
ForwardStep(c) ==
    \/ StartForward(c) \/ BindFirst(c) \/ RegisterCtx(c) \/ SendForwardCheck(c)
    \/ AwaitCheckResult(c) \/ SendForwardInit(c) \/ AwaitForwardCheck(c) \/ BindAgain(c)
    \/ SendForwardCheckResult(c) \/ AwaitForwardSuccess(c) \/ SendFollowUp(c)
    \/ AwaitFollowUp(c) \/ AnnounceForward(c) \/ SpawnListener(c) \/ InsertForwardEntry(c)
    \/ ForwardTimeout(c)

RportStep(c) ==
    \/ StartRport(c) \/ SendRportInit(c) \/ AwaitSetup(c) \/ RportTimeout(c)
    \/ AnnounceRport(c) \/ UnregisterRport(c) \/ InsertRportEntry(c)

HandlerStep(c) ==
    ForwardStep(c) \/ RportStep(c) \/ RemoveForwardEntry(c) \/ StartOther(c) \/ EndOther(c)

Next ==
    \/ \E c \in Handler : \/ HandlerStep(c) \/ RportDispatches(c) \/ ListenerStops(c)
                         \/ ListenerBreaks(c) \/ RunRportListener(c)
    \/ \E s \in Session : RouteResponse(s) \/ SessionEnds(s) \/ RemoveRulesOf(s) \/ DeviceTakes(s)
                       \/ HdcdTakes(s)

\* Handlers are tokio tasks, which run when they can, timers included.  So are
\* the tasks of the sessions, whose writer ends when its queue is closed.
Fairness ==
    /\ \A c \in Setup : WF_vars(h[c] # "start" /\ (ForwardStep(c) \/ RportStep(c)))
    /\ \A s \in UsbSession : WF_vars(RemoveRulesOf(s))

Spec == Init /\ [][Next]_vars /\ Fairness

-----------------------------------------------------------------------------
(* Properties.                                                             *)

HandlerPc ==
    {"off", "start", "bind", "register_ctx", "check", "result", "announce_first", "init",
     "await_check", "bind_again", "confirm", "success", "follow_up", "follow_up_result",
     "announce", "spawn", "insert", "rport_init", "setup", "rport_announce", "unregister",
     "rport_insert", "using", "done", "failed"}

\* Queues and receivers belong to known sessions and handlers, a rule names the
\* session of the handler that set it up, and every task is at one of its
\* steps (the structs UsbMapInner, TcpMapInner and ForwardEntry of server.rs).
TypeOK ==
    /\ usb.session_senders \subseteq UsbSession
    /\ tcp.session_writers \subseteq HdcdSession
    /\ \A p \in DOMAIN usb.response_channels : usb.response_channels[p] \in Handler
    /\ \A k \in DOMAIN forward_map :
          /\ forward_map[k].task \in Handler
          /\ forward_map[k].session_id = S(forward_map[k].task)
    /\ h \in [Handler -> HandlerPc]
    /\ told \in [Handler -> {"nothing", "ok", "fail"}]
    /\ listener \in [Handler -> {"none", "bound", "running", "aborted", "broken"}]
    /\ rport \in [Handler -> {"none", "ask", "asked", "passed", "refused", "accepting"}]
    /\ \A p \in DOMAIN rport_listeners : rport_listeners[p] \in Handler
    /\ deaf \subseteq HdcdSession
    /\ cleanup \subseteq UsbSession

\* A later command of the same channel and device has registered the channel
\* for itself, or an earlier track-jpid of it, which unregisters the channel
\* whenever it ends, has.
Superseded(c) ==
    \E d \in Handler \ {c} :
       /\ SameChannel(c, d) /\ S(d) = S(c) /\ Request[d].op # "rm"
       /\ Request[d].turn > Request[c].turn \/ Request[d].op = "track"
       /\ h[d] \notin {"off", "start"}

\* A rule that "fport ls" shows works while its device is there: what the
\* daemon says on its channel reaches the rule's own dispatcher, unless the
\* client has used the channel for other commands of the device, and the
\* listener of an fport runs, unless accept has failed.  What goes on in
\* other channels, and removals, never take that away.
ListedIsServed ==
    \A k \in DOMAIN forward_map :
       LET e == forward_map[k]
           p == <<e.session_id, e.channel_id>>
       IN /\ e.session_id \in usb.session_senders \cup tcp.session_writers
             => \/ p \in DOMAIN usb.response_channels /\ usb.response_channels[p] = e.task
                \/ Superseded(e.task)
          /\ e.direction = "fport" => listener[e.task] \in {"running", "broken"}

Listed(c) == \E k \in DOMAIN forward_map : forward_map[k].task = c

ClosePending(c) ==
    \E i \in 1..Len(down[S(c)]) :
       down[S(c)][i].cid = Cid(c) /\ down[S(c)][i].command = "KernelChannelClose"

\* Another rule with the same text has been set up: forward_map has one entry
\* for both.  Two fports get there only if accept fails for one of them, they
\* need the same port.
Replaced(c) ==
    \E d \in Setup \ {c} :
       /\ Request[d].spec = Request[c].spec
       /\ "rport" \in {Request[c].op, Request[d].op} \/ listener[d] = "broken"
       /\ h[d] = "done" /\ told[d] = "ok"

\* No listener is out of reach of "fport rm": a running one on the host is
\* listed or about to be, and one that hdcd has confirmed for an rport is
\* listed, about to be, about to be closed or about to end because a later
\* ForwardInit of the channel has taken its place, unless an rport with the
\* same two ends, in either direction or on another device, shares its key in
\* forward_map, the host has given up on the rule (its deadline passed or its
\* client left), or the session is gone or no longer read.
ListenersAreListed ==
    \A c \in Handler :
       /\ listener[c] = "running" => h[c] = "insert" \/ Listed(c) \/ Replaced(c)
       /\ /\ Request[c].op = "rport" /\ rport[c] = "accepting" /\ Current(c)
          /\ Alive(S(c)) /\ S(c) \notin deaf
          => \/ Listed(c) \/ ClosePending(c) \/ Replaced(c)
             \/ h[c] \notin {"off", "start", "done"}

\* A command that fails has taken back what it had set up on the host: it
\* holds no port and no entry, and rport no receiver either.
FailedHoldsNothing ==
    \A c \in Handler :
       h[c] = "failed" =>
          /\ listener[c] = "none" /\ ~Listed(c)
          /\ Request[c].op = "rport" /\ Registered(usb, S(c), Cid(c))
             => usb.response_channels[<<S(c), Cid(c)>>] # c

\* Every rule whose setup has been started is set up or given up, whatever
\* daemons and links do: again and again no setup is under way.
SetupEnds == []<>(\A c \in Setup : h[c] \in {"off", "start", "done", "failed"})

\* A rule listed when its USB device is lost does not outlive it: it is removed
\* and its listener stopped, whatever rules are set up or removed meanwhile,
\* other than one that takes over its key.
LostIsForgotten ==
    \A c \in {d \in Setup : S(d) \in UsbSession} :
       S(c) \in cleanup /\ Listed(c) ~> ~Listed(c) /\ (listener[c] # "running" \/ Replaced(c))

=============================================================================
