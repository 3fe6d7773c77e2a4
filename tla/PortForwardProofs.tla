-------------------------- MODULE PortForwardProofs --------------------------
(***************************************************************************)
(* Proofs about port forwarding rules, for any devices, rules and number   *)
(* of concurrent commands.                                                 *)
(***************************************************************************)
EXTENDS PortForward, TLAPS

IsRecord(r, fields) == DOMAIN r = fields /\ r = [f \in fields |-> r[f]]

UsbTyped(u) ==
    /\ IsRecord(u, {"session_senders", "response_channels"})
    /\ u.session_senders \subseteq UsbSession
    /\ \A p \in DOMAIN u.response_channels : u.response_channels[p] \in Handler

TcpTyped(t) ==
    /\ IsRecord(t, {"session_writers", "channel_writers", "channel_sessions", "keep_alive"})
    /\ t.session_writers \subseteq HdcdSession

Told == {"nothing", "ok", "fail"}
ListenerState == {"none", "bound", "running", "aborted", "broken"}
RportState == {"none", "ask", "asked", "passed", "refused", "accepting"}

Typed ==
    /\ UsbTyped(usb) /\ TcpTyped(tcp)
    /\ h \in [Handler -> HandlerPc]
    /\ told \in [Handler -> Told]
    /\ listener \in [Handler -> ListenerState]
    /\ rport \in [Handler -> RportState]
    /\ deaf \subseteq HdcdSession
    /\ cleanup \subseteq UsbSession

\* Where a handler can be for its command, the listener it holds there, and
\* what it has told its client by then.
Holding ==
    {"register_ctx", "check", "result", "announce_first", "confirm", "success", "follow_up",
     "follow_up_result", "announce", "spawn"}

Suits(op, pc, l, t) ==
    /\ \/ op \in {"fport", "rport", "rm", "file", "track"} /\ pc \in {"off", "start"} /\ l = "none"
       \/ op = "fport" /\ pc \in {"bind", "init", "await_check", "bind_again",
          "failed"} /\ l = "none"
       \/ op = "fport" /\ pc \in Holding /\ l = "bound"
       \/ op = "fport" /\ pc = "insert" /\ l \in {"running", "broken"}
       \/ op = "fport" /\ pc = "done" /\ l \in {"none", "running", "aborted", "broken"}
       \/ /\ op = "rport" /\ l = "none"
          /\ pc \in {"rport_init", "setup", "rport_announce", "unregister", "rport_insert",
                     "done", "failed"}
       \/ op = "rm" /\ pc = "done" /\ l = "none"
       \/ op \in {"file", "track"} /\ pc \in {"using", "done"} /\ l = "none"
    /\ pc \in {"spawn", "insert", "rport_insert"} => t = "ok"

Suited == \A c \in Handler : Suits(Request[c].op, h[c], listener[c], told[c])

\* No two listeners have one port.
PortsApart ==
    \A c, d \in Handler :
       c # d /\ listener[c] \notin {"none", "broken"} /\ listener[d] \notin {"none", "broken"}
       => Port(c) # Port(d)

\* The commands of a channel run in turn.
InTurn ==
    \A c, d \in Handler :
       SameChannel(c, d) /\ Request[d].turn < Request[c].turn /\ h[c] \notin {"off", "start"}
       => Returned(d)

\* While the session of a handler is there, answers for its channel reach it,
\* unless another command of the channel has taken the registration.
Owns(c) ==
    /\ Registered(usb, S(c), Cid(c))
    /\ usb.response_channels[<<S(c), Cid(c)>>] = c

Served(c) == Alive(S(c)) => Owns(c)

HandlersServed ==
    \A c \in Setup : h[c] \notin {"off", "start", "failed"} => Served(c) \/ Superseded(c)

\* An entry of forward_map is the one that its handler put there when it was
\* done.
EntryRight(k, c) ==
    /\ c \in Setup /\ Request[c].spec = k
    /\ forward_map[k] = ForwardEntry(c)
    /\ h[c] = "done" /\ told[c] = "ok"
    /\ Request[c].op = "fport" => listener[c] \in {"running", "broken"}

Entries == \A k \in DOMAIN forward_map : EntryRight(k, forward_map[k].task)

Running == \A c \in Handler : listener[c] = "running" => h[c] = "insert" \/ Listed(c) \/ Replaced(c)

GivenUp ==
    \A c \in Setup : h[c] = "failed" /\ Request[c].op = "rport" => ~Owns(c)

Rules ==
    /\ Typed /\ Suited /\ PortsApart /\ InTurn
    /\ HandlersServed /\ Entries /\ Running /\ GivenUp

\* What hdcd has registered, which it learns from messages.
HdcdTyped == \A p \in DOMAIN rport_listeners : rport_listeners[p] \in Handler

\* The parts give the invariants that the runs check.
LEMMA RulesAreRight ==
    Rules => (HdcdTyped => TypeOK) /\ ListedIsServed /\ FailedHoldsNothing
<1> SUFFICES ASSUME Rules PROVE (HdcdTyped => TypeOK) /\ ListedIsServed /\ FailedHoldsNothing
  BY Zenon
<1>e. ASSUME NEW k \in DOMAIN forward_map
      PROVE  \E c \in Setup :
                /\ c \in Handler /\ EntryRight(k, c)
                /\ forward_map[k].task = c /\ forward_map[k].session_id = S(c)
                /\ forward_map[k].channel_id = Cid(c)
                /\ forward_map[k].direction = Request[c].op
  <2>1. PICK c : c = forward_map[k].task
    BY Zenon
  <2>2. EntryRight(k, c)
    BY <2>1, Zenon DEF Rules, Entries
  <2>3. /\ forward_map[k].session_id = S(c) /\ forward_map[k].channel_id = Cid(c)
        /\ forward_map[k].direction = Request[c].op
    BY <2>2 DEF EntryRight, ForwardEntry
  <2> QED BY <2>1, <2>2, <2>3, Zenon DEF EntryRight, Setup
<1>1. HdcdTyped => TypeOK
  BY <1>e, Zenon DEF HdcdTyped, Rules, Typed, UsbTyped, TcpTyped, TypeOK, Told, ListenerState, RportState
<1>2. ListedIsServed
  <2> SUFFICES ASSUME NEW k \in DOMAIN forward_map
               PROVE  LET e == forward_map[k]
                          p == <<e.session_id, e.channel_id>>
                      IN /\ e.session_id \in usb.session_senders \cup tcp.session_writers
                            => \/ /\ p \in DOMAIN usb.response_channels
                                  /\ usb.response_channels[p] = e.task
                               \/ Superseded(e.task)
                         /\ e.direction = "fport" => listener[e.task] \in {"running", "broken"}
    BY Zenon DEF ListedIsServed
  <2>1. PICK c \in Setup :
                /\ EntryRight(k, c)
                /\ forward_map[k].task = c /\ forward_map[k].session_id = S(c)
                /\ forward_map[k].channel_id = Cid(c)
                /\ forward_map[k].direction = Request[c].op
    BY <1>e, Zenon
  <2>2. Served(c) \/ Superseded(c)
    BY <2>1, Zenon DEF EntryRight, Rules, HandlersServed
  <2> QED BY <2>1, <2>2, Zenon DEF EntryRight, Served, Owns, Registered, Alive
<1>3. FailedHoldsNothing
  <2> SUFFICES ASSUME NEW c \in Handler, h[c] = "failed"
               PROVE  /\ listener[c] = "none" /\ ~Listed(c)
                      /\ Request[c].op = "rport" => ~Owns(c)
    BY Zenon DEF FailedHoldsNothing, Owns
  <2>1. listener[c] = "none" /\ Request[c].op \in {"fport", "rport"}
    BY Zenon DEF Rules, Suited, Suits, Holding
  <2>2. ~Listed(c)
    BY Zenon DEF Rules, Entries, EntryRight, Listed
  <2> QED BY <2>1, <2>2, Zenon DEF Rules, GivenUp, Setup
<1> QED BY <1>1, <1>2, <1>3, Zenon

\* They hold when the server starts.
LEMMA RulesInit == Init => Rules
<1> SUFFICES ASSUME Init PROVE Rules
  BY Zenon
<1>0. \A c \in Handler : h[c] \in {"off", "start"} /\ listener[c] = "none"
  BY Zenon DEF Init
<1>1. Typed
  <2>1. h \in [Handler -> HandlerPc]
    BY Zenon DEF Init, HandlerPc
  <2>2. UsbTyped(usb)
    BY Zenon DEF Init, UsbTyped, IsRecord, EmptyUsbMap, EmptyMap
  <2>3. TcpTyped(tcp)
    BY Zenon DEF Init, TcpTyped, IsRecord, EmptyTcpMap
  <2> QED BY <2>1, <2>2, <2>3, Zenon DEF Init, Typed, Told, ListenerState, RportState
<1>2. Suited
  BY <1>0, ForwardAssumption, Zenon DEF Suited, Suits
<1>3. PortsApart /\ InTurn /\ Running /\ HandlersServed /\ GivenUp
  BY <1>0, Zenon DEF PortsApart, InTurn, Running, HandlersServed, GivenUp, Setup
<1>4. Entries
  BY Zenon DEF Init, Entries, EmptyMap
<1> QED BY <1>1, <1>2, <1>3, <1>4, Zenon DEF Rules

-----------------------------------------------------------------------------
\* A step that only takes one handler on, to where no rule is finished.
Moved(c) ==
    /\ UNCHANGED <<tcp, forward_map, rport, deaf, cleanup>>
    /\ \A d \in Handler \ {c} : h'[d] = h[d] /\ listener'[d] = listener[d] /\ told'[d] = told[d]
    /\ h[c] \notin {"off", "done", "failed"} /\ h'[c] \notin {"off", "start"}
    /\ h[c] = "start" => Turn(c)
    /\ h'[c] = "done" => Request[c].op \in {"file", "track"}
    /\ h[c] = "using" => h'[c] = "done"
    /\ Suits(Request[c].op, h'[c], listener'[c], told'[c])
    /\ listener[c] \in {"none", "broken"} /\ listener'[c] \notin {"none", "broken"} => PortFree(c)
    /\ h' \in [Handler -> HandlerPc] /\ told' \in [Handler -> Told]
    /\ listener' \in [Handler -> ListenerState]

\* The registrations that step may change are those of the handler's channel:
\* a setup has the one of its session until it fails, and rport has none then.
Linked(c) ==
    /\ UsbTyped(usb')
    /\ \A d \in Setup \ {c} :
          /\ Served(d) => Served(d)' \/ (SameChannel(d, c) /\ S(c) = S(d))
          /\ Owns(d)' => Owns(d)
    /\ c \in Setup /\ h'[c] # "failed" => Served(c)' \/ Superseded(c)
    /\ h'[c] = "failed" /\ Request[c].op = "rport" => ~Owns(c)'

\* A handler that uses the channel of another, started one supersedes that.
LEMMA Displaces ==
    ASSUME Rules, NEW c \in Handler, Request[c].op # "rm", Moved(c),
           NEW d \in Setup \ {c}, SameChannel(d, c), S(c) = S(d), h[d] \notin {"off", "start"}
    PROVE  Superseded(d)'
<1>0. /\ d \in Handler /\ h'[c] \notin {"off", "start"} /\ h[c] \notin {"off", "done", "failed"}
      /\ Request[c].turn \in Nat /\ Request[d].turn \in Nat /\ SameChannel(c, d)
      /\ Request[c].turn # Request[d].turn
  BY ForwardAssumption, Zenon DEF Setup, Moved, SameChannel
<1>1. CASE Request[c].turn > Request[d].turn
  BY <1>0, <1>1, Zenon DEF Superseded
<1>2. CASE Request[c].turn < Request[d].turn
  <2>1. Returned(c)
    BY <1>0, <1>2, Zenon DEF Rules, InTurn
  <2> QED BY <1>0, <2>1, Zenon DEF Returned, Superseded
<1> QED BY <1>0, <1>1, <1>2

\* Once superseded, a handler stays so.
LEMMA SupersededStays ==
    ASSUME NEW c, Superseded(c),
           \A d \in Handler : h[d] \notin {"off", "start"} => h'[d] \notin {"off", "start"}
    PROVE  Superseded(c)'
BY Zenon DEF Superseded

\* Such a step keeps the rules.
LEMMA MoveKeepsRules ==
    ASSUME Rules, NEW c \in Handler, Request[c].op # "rm", Moved(c), Linked(c)
    PROVE  Rules'
<1>1. Typed'
  BY Zenon DEF Rules, Typed, Moved, Linked
<1>2. Suited'
  BY Zenon DEF Rules, Suited, Moved
<1>3. PortsApart'
  BY DEF Rules, PortsApart, PortFree, Moved, Port
<1>h. \A d \in Handler : h[d] \notin {"off", "start"} => h'[d] \notin {"off", "start"}
  BY Zenon DEF Moved
<1>4. HandlersServed'
  <2> SUFFICES ASSUME NEW d \in Setup, h'[d] \notin {"off", "start", "failed"}
               PROVE  Served(d)' \/ Superseded(d)'
    BY Zenon DEF HandlersServed
  <2>1. CASE d = c
    BY <1>h, <2>1, SupersededStays, Zenon DEF Linked
  <2>2. CASE d # c
    <3>1. h[d] \notin {"off", "start", "failed"}
      BY <2>2, Zenon DEF Moved, Setup
    <3>2. Served(d) \/ Superseded(d)
      BY <3>1, Zenon DEF Rules, HandlersServed
    <3>3. CASE Superseded(d)
      BY <1>h, <3>3, SupersededStays, Zenon
    <3>4. CASE Served(d)
      BY <2>2, <3>1, <3>4, Displaces, Zenon DEF Linked
    <3> QED BY <3>2, <3>3, <3>4, Zenon
  <2> QED BY <2>1, <2>2, Zenon
<1>t. InTurn'
  <2> SUFFICES ASSUME NEW x \in Handler, NEW y \in Handler, SameChannel(x, y),
                      Request[y].turn < Request[x].turn, h'[x] \notin {"off", "start"}
               PROVE  Returned(y)'
    BY Zenon DEF InTurn, SameChannel
  <2>1. Returned(y)
    BY Zenon DEF Rules, InTurn, Moved, Turn
  <2> QED BY <2>1, Zenon DEF Returned, Moved
<1>5. Entries'
  <2> SUFFICES ASSUME NEW k \in DOMAIN forward_map
               PROVE  EntryRight(k, forward_map[k].task)'
    BY Zenon DEF Entries, Moved
  <2>1. PICK d : d = forward_map[k].task
    BY Zenon
  <2>2. EntryRight(k, d) /\ d # c /\ d \in Handler
    BY <2>1, Zenon DEF Rules, Entries, EntryRight, Moved, Setup
  <2>3. h'[d] = h[d] /\ listener'[d] = listener[d] /\ told'[d] = told[d] /\ forward_map' = forward_map
    BY <2>2, Zenon DEF Moved
  <2>4. EntryRight(k, d)'
    BY <2>2, <2>3, Zenon DEF EntryRight
  <2> QED BY <2>1, <2>3, <2>4, Zenon
<1>6. Running'
  <2> SUFFICES ASSUME NEW d \in Handler, listener'[d] = "running"
               PROVE  h'[d] = "insert" \/ Listed(d)' \/ Replaced(d)'
    BY Zenon DEF Running
  <2>1. CASE d = c
    BY <2>1, Zenon DEF Moved, Suits, Holding
  <2>2. CASE d # c
    <3>1. h[d] = "insert" \/ Listed(d) \/ Replaced(d)
      BY <2>2, Zenon DEF Rules, Running, Moved
    <3>2. Listed(d) => Listed(d)'
      BY Zenon DEF Listed, Moved
    <3>3. Replaced(d) => Replaced(d)'
      BY ZenonT(30) DEF Replaced, Moved, Setup
    <3> QED BY <2>2, <3>1, <3>2, <3>3, Zenon DEF Moved
  <2> QED BY <2>1, <2>2, Zenon
<1>7. GivenUp'
  BY Zenon DEF Rules, GivenUp, Moved, Linked, Setup
<1> QED BY <1>1, <1>2, <1>3, <1>4, <1>t, <1>5, <1>6, <1>7, Zenon DEF Rules

\* What the methods of UsbMap and TcpMap do to the two maps.
LEMMA RegisterDoes ==
    ASSUME NEW u, UsbTyped(u), NEW s, NEW x, NEW c \in Handler
    PROVE  /\ UsbTyped(Register(u, s, x, c))
           /\ Register(u, s, x, c).session_senders = u.session_senders
           /\ Register(u, s, x, c).response_channels = Put(u.response_channels, <<s, x>>, c)
BY Zenon DEF UsbTyped, IsRecord, Register, Put

\* unregister_response_channel takes one registration away.
LEMMA UnregisterDoes ==
    ASSUME NEW u, UsbTyped(u), NEW s, NEW x
    PROVE  /\ UsbTyped(Unregister(u, s, x))
           /\ Unregister(u, s, x).session_senders = u.session_senders
           /\ Unregister(u, s, x).response_channels = Remove(u.response_channels, <<s, x>>)
BY Zenon DEF UsbTyped, IsRecord, Unregister, Remove

\* end_session takes the session and its registrations away.
LEMMA EndDoes ==
    ASSUME NEW u, UsbTyped(u), NEW t, TcpTyped(t), NEW s
    PROVE  /\ UsbTyped(EndSessionWithCleanup(u, s)) /\ TcpTyped(EndTcpSession(t, s))
           /\ EndSessionWithCleanup(u, s).session_senders = u.session_senders \ {s}
           /\ EndSessionWithCleanup(u, s).response_channels =
                 [p \in {q \in DOMAIN u.response_channels : q[1] # s} |-> u.response_channels[p]]
           /\ EndTcpSession(t, s).session_writers = t.session_writers \ {s}
<1>1. TcpTyped(EndTcpSession(t, s)) /\ EndTcpSession(t,
   s).session_writers = t.session_writers \ {s}
  BY Zenon DEF TcpTyped, IsRecord, EndTcpSession
<1>2. /\ EndSessionWithCleanup(u, s).session_senders = u.session_senders \ {s}
      /\ EndSessionWithCleanup(u, s).response_channels =
            [p \in {q \in DOMAIN u.response_channels : q[1] # s} |-> u.response_channels[p]]
      /\ IsRecord(EndSessionWithCleanup(u, s), {"session_senders", "response_channels"})
  BY Zenon DEF UsbTyped, IsRecord, EndSessionWithCleanup
<1> QED BY <1>1, <1>2, Zenon DEF UsbTyped

\* A handler that touches no registration keeps its own.
LEMMA LinkedStill ==
    ASSUME Rules, NEW c \in Setup, UNCHANGED <<usb, tcp>>,
           h[c] \notin {"off", "start", "done", "failed"},
           h'[c] = "failed" => Request[c].op = "fport"
    PROVE  Linked(c)
<1>1. \A d \in Setup : (Served(d)' <=> Served(d)) /\ (Owns(d)' <=> Owns(d))
  BY Zenon DEF Served, Owns, Alive, Registered
<1>2. Served(c) \/ Superseded(c)
  BY Zenon DEF Rules, HandlersServed
<1> QED BY <1>1, <1>2, Zenon DEF Linked, Rules, Typed

\* One that registers its channel has it.
LEMMA LinkedByRegister ==
    ASSUME Rules, NEW c \in Handler, UNCHANGED tcp, h'[c] # "failed",
           usb' = Register(usb, S(c), Cid(c), c)
    PROVE  Linked(c)
<1>2. /\ UsbTyped(usb') /\ usb'.session_senders = usb.session_senders
      /\ usb'.response_channels = Put(usb.response_channels, <<S(c), Cid(c)>>, c)
  BY RegisterDoes, Zenon DEF Rules, Typed
<1>4. ASSUME NEW d \in Setup \ {c}
      PROVE  /\ Served(d) => Served(d)' \/ (SameChannel(d, c) /\ S(c) = S(d))
             /\ Owns(d)' => Owns(d)
  <2>1. CASE <<S(d), Cid(d)>> = <<S(c), Cid(c)>>
    <3>1. SameChannel(d, c) /\ S(c) = S(d)
      BY <2>1 DEF Cid, SameChannel
    <3>2. ~Owns(d)'
      BY <1>2, <2>1, Zenon DEF Owns, Registered, Put
    <3> QED BY <3>1, <3>2, Zenon
  <2>2. CASE <<S(d), Cid(d)>> # <<S(c), Cid(c)>>
    BY <1>2, <2>2, Zenon DEF Served, Owns, Alive, Registered, Put
  <2> QED BY <2>1, <2>2, Zenon
<1>5. Served(c)'
  BY <1>2, Zenon DEF Served, Owns, Alive, Registered, Put
<1> QED BY <1>2, <1>4, <1>5, Zenon DEF Linked

\* One that registers its context keeps its channel.
LEMMA LinkedByContext ==
    ASSUME Rules, NEW c \in Setup, UNCHANGED tcp, h[c] \notin {"off", "start", "failed"},
           h'[c] # "failed", usb' = Register(usb, S(c), Ctx(c), c)
    PROVE  Linked(c)
<1>0. c \in Handler /\ UsbTyped(usb)
  BY Zenon DEF Setup, Rules, Typed
<1>2. /\ UsbTyped(usb') /\ usb'.session_senders = usb.session_senders
      /\ usb'.response_channels = Put(usb.response_channels, <<S(c), Ctx(c)>>, c)
  BY <1>0, RegisterDoes, Zenon
<1>3. \A d : <<S(d), Cid(d)>> # <<S(c), Ctx(c)>>
  BY DEF Cid, Ctx
<1>4. ASSUME NEW d \in Setup PROVE (Served(d)' <=> Served(d)) /\ (Owns(d)' <=> Owns(d))
  BY <1>2, <1>3, Zenon DEF Served, Owns, Alive, Registered, Put
<1>5. Served(c) \/ Superseded(c)
  BY Zenon DEF Rules, HandlersServed
<1> QED BY <1>2, <1>4, <1>5, Zenon DEF Linked

\* One that ends may take the registration of its channel back.
LEMMA LinkedByUnregister ==
    ASSUME Rules, NEW c \in Handler, UNCHANGED tcp, h'[c] = "failed" \/ c \notin Setup,
           usb' = Unregister(usb, S(c), Cid(c))
    PROVE  Linked(c)
<1>2. /\ UsbTyped(usb') /\ usb'.session_senders = usb.session_senders
      /\ usb'.response_channels = Remove(usb.response_channels, <<S(c), Cid(c)>>)
  BY UnregisterDoes, Zenon DEF Rules, Typed
<1>4. ASSUME NEW d \in Setup \ {c}
      PROVE  /\ Served(d) => Served(d)' \/ (SameChannel(d, c) /\ S(c) = S(d))
             /\ Owns(d)' => Owns(d)
  <2>1. CASE <<S(d), Cid(d)>> = <<S(c), Cid(c)>>
    <3>1. SameChannel(d, c) /\ S(c) = S(d)
      BY <2>1 DEF Cid, SameChannel
    <3>2. ~Owns(d)'
      BY <1>2, <2>1, Zenon DEF Owns, Registered, Remove
    <3> QED BY <3>1, <3>2, Zenon
  <2>2. CASE <<S(d), Cid(d)>> # <<S(c), Cid(c)>>
    BY <1>2, <2>2, Zenon DEF Served, Owns, Alive, Registered, Remove
  <2> QED BY <2>1, <2>2, Zenon
<1>5. ~Owns(c)'
  BY <1>2, Zenon DEF Owns, Registered, Remove
<1> QED BY <1>2, <1>4, <1>5, Zenon DEF Linked

-----------------------------------------------------------------------------
Proceeds(c) == BindFirst(c) \/ SendForwardCheck(c) \/ AwaitCheckResult(c) \/ SendForwardInit(c)
              \/ AwaitForwardCheck(c) \/ SendForwardCheckResult(c) \/ AwaitForwardSuccess(c)
              \/ SendFollowUp(c) \/ AwaitFollowUp(c) \/ AnnounceForward(c) \/ SpawnListener(c)
              \/ ForwardTimeout(c) \/ SendRportInit(c) \/ AwaitSetup(c) \/ RportTimeout(c) \/
              AnnounceRport(c)

\* The steps of a handler between its registration and its end.
LEMMA Proceeding ==
    ASSUME Rules, NEW c \in Handler, Proceeds(c)
    PROVE  /\ Moved(c) /\ UNCHANGED usb
           /\ h[c] \notin {"off", "start", "using", "done", "failed"}
           /\ h'[c] = "failed" => Request[c].op = "fport"
<1>0. /\ h \in [Handler -> HandlerPc] /\ told \in [Handler -> Told]
      /\ listener \in [Handler -> ListenerState]
      /\ Suits(Request[c].op, h[c], listener[c], told[c])
  BY Zenon DEF Rules, Typed, Suited
<1>1. CASE BindFirst(c)
  BY <1>0, <1>1, Zenon DEF BindFirst, Goto, At, Bind, DropListener, Moved, hdcdvars, Suits, Holding, Told,
     ListenerState, HandlerPc
<1>2. CASE SendForwardCheck(c)
  BY <1>0, <1>2, Zenon
     DEF SendForwardCheck, Goto, At, FallBack, DropListener, Moved, hdcdvars, Suits, Holding, Told,
     ListenerState, HandlerPc
<1>3. CASE AwaitCheckResult(c)
  BY <1>0, <1>3
     DEF AwaitCheckResult, Goto, At, FallBack, DropListener, Moved, hdcdvars, Suits, Holding, Told,
     ListenerState, HandlerPc
<1>4. CASE SendForwardInit(c)
  BY <1>0, <1>4, Zenon
     DEF SendForwardInit, Goto, At, Fails, DropListener, Moved, hdcdvars, Suits, Holding, Told,
     ListenerState, HandlerPc
<1>5. CASE AwaitForwardCheck(c)
  BY <1>0, <1>5
     DEF AwaitForwardCheck, Goto, At, Fails, DropListener, Moved, hdcdvars, Suits, Holding, Told,
     ListenerState, HandlerPc
<1>6. CASE SendForwardCheckResult(c)
  BY <1>0, <1>6, Zenon
     DEF SendForwardCheckResult, Goto, At, Fails, DropListener, Moved, hdcdvars, Suits, Holding, Told,
     ListenerState, HandlerPc
<1>7. CASE AwaitForwardSuccess(c)
  BY <1>0, <1>7, Zenon DEF AwaitForwardSuccess, Goto, At, Confirmed, Moved, hdcdvars, Suits, Holding, Told,
     ListenerState, HandlerPc
<1>8. CASE SendFollowUp(c)
  BY <1>0, <1>8, Zenon
     DEF SendFollowUp, Goto, At, Fails, DropListener, Moved, hdcdvars, Suits, Holding, Told,
     ListenerState, HandlerPc
<1>9. CASE AwaitFollowUp(c)
  BY <1>0, <1>9, Zenon DEF AwaitFollowUp, Goto, At, Moved, hdcdvars, Suits, Holding, Told,
     ListenerState, HandlerPc
<1>10. CASE AnnounceForward(c)
  BY <1>0, <1>10, Zenon
     DEF AnnounceForward, Goto, At, FallBack, Fails, DropListener, Moved, hdcdvars, Suits, Holding, Told,
     ListenerState, HandlerPc
<1>11. CASE SpawnListener(c)
  BY <1>0, <1>11, Zenon DEF SpawnListener, Goto, At, Moved, hdcdvars, Suits, Holding, Told,
     ListenerState, HandlerPc
<1>12. CASE ForwardTimeout(c)
  BY <1>0, <1>12 DEF ForwardTimeout, Goto, At, FallBack, Fails, DropListener, Confirmed,
     Moved, hdcdvars, Suits, Holding, Told,
     ListenerState, HandlerPc
<1>13. CASE SendRportInit(c)
  BY <1>0, <1>13, Zenon DEF SendRportInit, Goto, At, Moved, hdcdvars, Suits, Holding, Told,
     ListenerState, HandlerPc
<1>14. CASE AwaitSetup(c)
  BY <1>0, <1>14, Zenon DEF AwaitSetup, Goto, At, Moved, hdcdvars, Suits, Holding, Told,
     ListenerState, HandlerPc
<1>15. CASE RportTimeout(c)
  BY <1>0, <1>15, Zenon DEF RportTimeout, Goto, At, Moved, hdcdvars, Suits, Holding, Told,
     ListenerState, HandlerPc
<1>16. CASE AnnounceRport(c)
  BY <1>0, <1>16 DEF AnnounceRport, Goto, At, Moved, hdcdvars, Suits, Holding, Told,
     ListenerState, HandlerPc
<1> QED BY Zenon, <1>1, <1>2, <1>3, <1>4, <1>5, <1>6, <1>7, <1>8, <1>9, <1>10, <1>11, <1>12, <1>13,
           <1>14, <1>15, <1>16 DEF Proceeds

\* The steps of fport and rport but the last, the insertion into forward_map,
\* and those of the other commands.
LEMMA SetupKeepsRules ==
    ASSUME Rules, NEW c \in Handler,
           \/ Proceeds(c) \/ StartForward(c) \/ RegisterCtx(c) \/ BindAgain(c)
           \/ StartRport(c) \/ UnregisterRport(c) \/ StartOther(c) \/ EndOther(c)
    PROVE  Rules' /\ Moved(c)
<1>0. /\ h \in [Handler -> HandlerPc] /\ told \in [Handler -> Told]
      /\ listener \in [Handler -> ListenerState]
      /\ Suits(Request[c].op, h[c], listener[c], told[c])
  BY Zenon DEF Rules, Typed, Suited
<1>1. CASE Proceeds(c)
  <2>1. c \in Setup /\ Request[c].op # "rm"
    BY <1>0, <1>1, Proceeding DEF Suits, Setup
  <2>2. Linked(c)
    BY <1>1, <2>1, Proceeding, LinkedStill, Zenon DEF Moved
  <2> QED BY <1>1, <2>1, <2>2, Proceeding, MoveKeepsRules, Zenon
<1>2. CASE StartForward(c) \/ StartRport(c) \/ StartOther(c)
  <2>1. Request[c].op # "rm"
    BY <1>2 DEF StartForward, StartRport, StartOther
  <2>2. Moved(c) /\ h'[c] # "failed" /\ usb' = Register(usb, S(c), Cid(c), c)
    <3>1. CASE StartForward(c)
      BY <1>0, <3>1, SMTT(20) DEF StartForward, Goto, At, Moved, hdcdvars, Suits, Holding, HandlerPc
    <3>2. CASE StartRport(c)
      BY <1>0, <3>2, SMTT(20) DEF StartRport, Goto, At, Moved, hdcdvars, Suits, Holding, HandlerPc
    <3>3. CASE StartOther(c)
      BY <1>0, <3>3, SMTT(20) DEF StartOther, Goto, At, Moved, hdcdvars, Suits, Holding, HandlerPc
    <3> QED BY <1>2, <3>1, <3>2, <3>3, Zenon
  <2>3. Linked(c)
    BY <2>2, LinkedByRegister, Zenon DEF Moved
  <2> QED BY <2>1, <2>2, <2>3, MoveKeepsRules, Zenon
<1>3. CASE RegisterCtx(c)
  <2>1. c \in Setup /\ Request[c].op # "rm" /\ h[c] = "register_ctx"
    BY <1>0, <1>3 DEF RegisterCtx, At, Suits, Setup
  <2>2. Moved(c) /\ h'[c] # "failed" /\ usb' = Register(usb, S(c), Ctx(c), c)
    BY <1>0, <1>3, Zenon DEF RegisterCtx, Goto, At, Moved, hdcdvars, Suits, Holding, HandlerPc
  <2>4. Linked(c)
    BY <2>1, <2>2, LinkedByContext, Zenon DEF Moved
  <2> QED BY <2>1, <2>2, <2>4, MoveKeepsRules, Zenon
<1>4. CASE BindAgain(c)
  <2>1. c \in Setup /\ Request[c].op # "rm"
    BY <1>0, <1>4 DEF BindAgain, At, Suits, Setup
  <2>2. Moved(c) /\ h[c] = "bind_again" /\ Request[c].op = "fport"
    BY <1>0, <1>4, ZenonT(30)
       DEF BindAgain, Bind, Fails, DropListener, Goto, At, Moved, hdcdvars, Suits, Holding,
       HandlerPc, ListenerState
  <2>3. UNCHANGED usb \/ (h'[c] = "failed" /\ usb' = Unregister(usb, S(c), Cid(c)))
    BY <1>0, <1>4, Zenon DEF BindAgain, Fails, Goto
  <2>4. Linked(c)
    BY <2>1, <2>2, <2>3, LinkedStill, LinkedByUnregister, Zenon DEF Moved
  <2> QED BY <2>1, <2>2, <2>4, MoveKeepsRules, Zenon
<1>5. CASE UnregisterRport(c)
  <2>1. Request[c].op # "rm"
    BY <1>0, <1>5 DEF UnregisterRport, At, Suits
  <2>2. Moved(c) /\ h'[c] = "failed" /\ usb' = Unregister(usb, S(c), Cid(c))
    BY <1>0, <1>5, Zenon DEF UnregisterRport, Goto, At, Moved, hdcdvars, Suits, Holding, HandlerPc
  <2>3. Linked(c)
    BY <2>2, LinkedByUnregister, Zenon DEF Moved
  <2> QED BY <2>1, <2>2, <2>3, MoveKeepsRules, Zenon
<1>6. CASE EndOther(c)
  <2>1. Request[c].op \in {"file", "track"}
    BY <1>0, <1>6 DEF EndOther, At, Suits, Holding
  <2>2. Moved(c) /\ usb' = Unregister(usb, S(c), Cid(c))
    BY <1>0, <1>6, <2>1, Zenon DEF EndOther, Goto, At, Moved, hdcdvars, Suits, HandlerPc
  <2>3. c \notin Setup
    BY <2>1 DEF Setup
  <2>4. Linked(c)
    BY <2>2, <2>3, LinkedByUnregister, Zenon DEF Moved
  <2> QED BY <2>1, <2>2, <2>4, MoveKeepsRules
<1> QED BY <1>1, <1>2, <1>3, <1>4, <1>5, <1>6, Zenon

\* A finished rule is listed under its key; one it replaces there, if it has
\* a listener, is not another fport, since the two would share a port.
LEMMA InsertKeepsRules ==
    ASSUME Rules, NEW c \in Handler, InsertForwardEntry(c) \/ InsertRportEntry(c)
    PROVE  Rules'
<1>0. /\ h \in [Handler -> HandlerPc] /\ told[c] = "ok"
      /\ h' = [h EXCEPT ![c] = "done"] /\ h[c] \in {"insert", "rport_insert"}
      /\ forward_map' = Put(forward_map, Request[c].spec, ForwardEntry(c))
      /\ Suits(Request[c].op, h[c], listener[c], told[c])
      /\ UNCHANGED <<usb, tcp, told, listener, rport, deaf, cleanup>>
  BY Zenon DEF Rules, Typed, Suited, Suits, InsertForwardEntry, InsertRportEntry, At, Goto, hdcdvars
<1>1. /\ c \in Setup
      /\ Request[c].op = "fport" => listener[c] \in {"running", "broken"}
      /\ Request[c].op = "rport" => listener[c] = "none"
      /\ Request[c].op \in {"fport", "rport"}
  BY <1>0, Zenon DEF Suits, Holding, Setup
<1>2. Typed'
  BY <1>0, Zenon DEF Rules, Typed, HandlerPc
<1>3. Suited'
  BY <1>0, SMTT(20) DEF Rules, Suited, Suits, Holding
<1>4. PortsApart'
  BY <1>0, Zenon DEF Rules, PortsApart
<1>h. \A d \in Handler : /\ h[d] \notin {"off", "start"} => h'[d] \notin {"off", "start"}
                         /\ h'[d] \in {"off", "start", "failed"} => h[d] = h'[d]
                         /\ h[d] \in {"off", "start", "failed"} => h[d] = h'[d]
                         /\ Returned(d) => Returned(d)'
  BY <1>0, Zenon DEF Returned
<1>s. \A d : (Served(d)' <=> Served(d)) /\ (Owns(d)' <=> Owns(d))
  BY <1>0, Zenon DEF Served, Owns, Alive, Registered
<1>5. HandlersServed'
  BY <1>h, <1>s, SupersededStays, Zenon DEF Rules, HandlersServed, Setup
<1>6. GivenUp' /\ InTurn'
  BY <1>h, <1>s, Zenon DEF Rules, GivenUp, InTurn, SameChannel, Setup
<1>7. Entries'
  <2> SUFFICES ASSUME NEW k \in DOMAIN forward_map'
               PROVE  EntryRight(k, forward_map[k].task)'
    BY Zenon DEF Entries
  <2>1. CASE k = Request[c].spec
    <3>1. forward_map'[k] = ForwardEntry(c) /\ forward_map'[k].task = c
      BY <1>0, <2>1, Zenon DEF Put, ForwardEntry
    <3> QED BY <1>0, <1>1, <2>1, <3>1, Zenon DEF EntryRight
  <2>2. CASE k # Request[c].spec
    <3>1. k \in DOMAIN forward_map /\ forward_map'[k] = forward_map[k]
      BY <1>0, <2>2, Zenon DEF Put
    <3>2. PICK d : d = forward_map[k].task
      BY Zenon
    <3>3. EntryRight(k, d)
      BY <3>1, <3>2, Zenon DEF Rules, Entries
    <3>4. h'[d] = "done" /\ listener'[d] = listener[d] /\ told'[d] = told[d]
      BY <1>0, <3>3, Zenon DEF EntryRight, Setup
    <3>5. EntryRight(k, d)'
      BY <3>1, <3>3, <3>4, Zenon DEF EntryRight
    <3> QED BY <3>1, <3>2, <3>5, Zenon
  <2> QED BY <2>1, <2>2, Zenon
<1>8. Running'
  <2> SUFFICES ASSUME NEW d \in Handler, listener[d] = "running"
               PROVE  h'[d] = "insert" \/ Listed(d)' \/ Replaced(d)'
    BY <1>0, Zenon DEF Running
  <2>1. Listed(c)'
    BY <1>0, Zenon DEF Listed, Put, ForwardEntry
  <2>2. ASSUME d # c, Listed(d) PROVE Listed(d)' \/ Replaced(d)'
    <3>1. PICK k \in DOMAIN forward_map : forward_map[k].task = d
      BY <2>2, Zenon DEF Listed
    <3>2. EntryRight(k, d)
      BY <3>1, Zenon DEF Rules, Entries
    <3>3. CASE k # Request[c].spec
      BY <1>0, <3>1, <3>3, Zenon DEF Listed, Put
    <3>4. CASE k = Request[c].spec
      <4>1. Request[d].spec = Request[c].spec /\ Port(d) = Port(c)
        BY <3>2, <3>4, Zenon DEF EntryRight, Port
      <4>2. listener[c] \in {"none", "broken"}
        BY <2>2, <4>1, <1>1, Zenon DEF Rules, PortsApart
      <4>3. Request[c].op = "rport" \/ listener'[c] = "broken"
        BY <1>0, <1>1, <4>2, Zenon
      <4> QED BY <1>0, <1>1, <2>2, <4>1, <4>3, Zenon DEF Replaced
    <3> QED BY <3>3, <3>4, Zenon
  <2>3. Replaced(d) => Replaced(d)'
    BY <1>0, Zenon DEF Replaced, Setup
  <2> QED BY <1>0, <2>1, <2>2, <2>3, Zenon DEF Rules, Running
<1> QED BY <1>2, <1>3, <1>4, <1>5, <1>6, <1>7, <1>8, Zenon DEF Rules

\* Removed rules lose their listeners, and no other rule does: the entry that
\* names a channel is the only one.
LEMMA RemovalKeepsRules ==
    ASSUME Rules, NEW keys \in SUBSET DOMAIN forward_map, RemoveKeys(keys),
           UNCHANGED <<usb, tcp, rport, deaf>>, cleanup' \subseteq cleanup,
           \/ UNCHANGED <<h, told>>
           \/ \E c \in Handler \ Setup : /\ h' = [h EXCEPT ![c] = "done"]
                                         /\ told' = [told EXCEPT ![c] = told'[c]]
                                         /\ told'[c] \in Told
                                         /\ h[c] = "start" /\ Turn(c) /\ Request[c].op = "rm"
    PROVE  Rules'
<1> DEFINE gone == {forward_map[k].task : k \in keys}
<1>0. /\ forward_map' = [k \in DOMAIN forward_map \ keys |-> forward_map[k]]
      /\ listener' = [d \in Handler |-> IF d \in gone /\ listener[d] = "running"
                                        THEN "aborted" ELSE listener[d]]
  BY Zenon DEF RemoveKeys, AbortListeners
<1>1. Typed /\ Typed' /\ \A d \in Setup : d \in Handler /\ h'[d] = h[d] /\ told'[d] = told[d]
  <2>1. Typed /\ \A d \in Setup : d \in Handler /\ h'[d] = h[d] /\ told'[d] = told[d]
    BY Zenon DEF Rules, Typed, Setup
  <2>2. /\ h' \in [Handler -> HandlerPc] /\ told' \in [Handler -> Told]
        /\ listener' \in [Handler -> ListenerState]
    BY <1>0, <2>1, Zenon DEF Typed, HandlerPc, ListenerState
  <2> QED BY <2>1, <2>2, Zenon DEF Typed
<1>2. Suited'
  <2> SUFFICES ASSUME NEW d \in Handler
               PROVE  Suits(Request[d].op, h'[d], listener'[d], told'[d])
    BY Zenon DEF Suited
  <2>0. Suits(Request[d].op, h[d], listener[d], told[d])
    BY Zenon DEF Rules, Suited
  <2>1. \/ h'[d] = h[d] /\ told'[d] = told[d]
        \/ h'[d] = "done" /\ h[d] = "start" /\ Request[d].op = "rm"
    BY <1>1, Zenon DEF Typed
  <2>2. \/ listener'[d] = listener[d]
        \/ d \in gone /\ listener[d] = "running" /\ listener'[d] = "aborted"
    BY <1>0, Zenon
  <2>3. d \in gone => h[d] = "done" /\ d \in Setup
    BY DEF Rules, Entries, EntryRight
  <2> QED BY <2>0, <2>1, <2>2, <2>3, ForwardAssumption, Zenon DEF Suits, Holding, Setup
<1>3. PortsApart'
  BY <1>0, Zenon DEF Rules, PortsApart
<1>s. \A d : (Served(d)' <=> Served(d)) /\ (Owns(d)' <=> Owns(d))
  BY Zenon DEF Served, Owns, Alive, Registered
<1>h. \A d \in Handler : \/ h'[d] = h[d]
                         \/ h'[d] = "done" /\ h[d] = "start" /\ Turn(d) /\ d \notin Setup
  BY <1>1, Zenon DEF Typed
<1>4. HandlersServed' /\ GivenUp'
  BY <1>1, <1>h, <1>s, SupersededStays, Zenon DEF Rules, HandlersServed, GivenUp
<1>t. InTurn'
  <2> SUFFICES ASSUME NEW x \in Handler, NEW y \in Handler, SameChannel(x, y),
                      Request[y].turn < Request[x].turn, h'[x] \notin {"off", "start"}
               PROVE  Returned(y)'
    BY Zenon DEF InTurn, SameChannel
  <2>1. Returned(y)
    BY <1>h, Zenon DEF Rules, InTurn, Turn
  <2> QED BY <1>h, <2>1, Zenon DEF Returned
<1>5. Entries'
  <2> SUFFICES ASSUME NEW k \in DOMAIN forward_map'
               PROVE  EntryRight(k, forward_map[k].task)'
    BY Zenon DEF Entries
  <2>1. k \in DOMAIN forward_map /\ k \notin keys /\ forward_map'[k] = forward_map[k]
    BY <1>0, Zenon
  <2>2. PICK d : d = forward_map[k].task
    BY Zenon
  <2>3. EntryRight(k, d)
    BY <2>1, <2>2, Zenon DEF Rules, Entries
  <2>4. d \notin gone
    <3> SUFFICES ASSUME NEW j \in keys, forward_map[j].task = d PROVE FALSE
      BY Zenon
    <3>1. EntryRight(j, d)
      BY Zenon DEF Rules, Entries
    <3> QED BY <2>1, <2>3, <3>1, Zenon DEF EntryRight
  <2>5. listener'[d] = listener[d] /\ h'[d] = h[d] /\ told'[d] = told[d]
    BY <1>0, <1>1, <2>3, <2>4, Zenon DEF EntryRight
  <2>6. EntryRight(k, d)'
    BY <2>1, <2>3, <2>5, Zenon DEF EntryRight
  <2> QED BY <2>1, <2>2, <2>6, Zenon
<1>6. Running'
  <2> SUFFICES ASSUME NEW d \in Handler, listener'[d] = "running"
               PROVE  h'[d] = "insert" \/ Listed(d)' \/ Replaced(d)'
    BY Zenon DEF Running
  <2>1. listener[d] = "running" /\ d \notin gone
    BY <1>0, Zenon
  <2>2. h[d] = "insert" => h'[d] = "insert"
    BY <1>1, Zenon DEF Typed
  <2>3. Listed(d) => Listed(d)'
    BY <1>0, <2>1, Zenon DEF Listed
  <2>4. Replaced(d) => Replaced(d)'
    <3>1. \A e \in Setup : listener[e] = "broken" => listener'[e] = "broken"
      BY <1>0, <1>1, Zenon
    <3> QED BY <1>1, <3>1, Zenon DEF Replaced
  <2> QED BY <2>1, <2>2, <2>3, <2>4, Zenon DEF Rules, Running
<1> QED BY <1>1, <1>2, <1>3, <1>4, <1>t, <1>5, <1>6, Zenon DEF Rules

\* Steps of sessions and daemons move no handler.  The end of a session, which
\* never comes back, takes its registrations away.
LEMMA SessionsKeepRules ==
    ASSUME Rules, UNCHANGED <<forward_map, h, told, listener>>,
           rport' \in [Handler -> RportState], cleanup' \subseteq UsbSession,
           deaf' \subseteq HdcdSession,
           \/ UNCHANGED <<usb, tcp>>
           \/ \E s \in Session : EndSession(s)
    PROVE  Rules'
<1>1. /\ UsbTyped(usb') /\ TcpTyped(tcp')
      /\ \A c \in Setup : /\ Served(c) => Served(c)'
                          /\ Owns(c)' => Owns(c)
  <2>0. UsbTyped(usb) /\ TcpTyped(tcp)
    BY Zenon DEF Rules, Typed
  <2>1. CASE UNCHANGED <<usb, tcp>>
    BY <2>0, <2>1, Zenon DEF Served, Owns, Alive, Registered
  <2>2. CASE \E s \in Session : EndSession(s)
    <3>0. PICK s \in Session : EndSession(s)
      BY <2>2, Zenon
    <3>1. UsbTyped(usb') /\ TcpTyped(tcp') /\ tcp'.session_writers = tcp.session_writers \ {s}
      BY <2>0, <3>0, EndDoes, Zenon DEF EndSession
    <3>2. CASE s \in UsbSession
      <4>1. /\ usb'.session_senders = usb.session_senders \ {s}
            /\ usb'.response_channels =
                 [p \in {q \in DOMAIN usb.response_channels : q[1] # s} |-> usb.response_channels[p]]
        BY <2>0, <3>0, <3>2, EndDoes, SMTT(20) DEF EndSession
      <4> QED BY <3>1, <4>1, Zenon DEF Served, Owns, Alive, Registered
    <3>3. CASE s \notin UsbSession
      <4>1. usb' = usb
        BY <3>0, <3>3, Zenon DEF EndSession
      <4> QED BY <3>1, <4>1, Zenon DEF Served, Owns, Alive, Registered
    <3> QED BY <3>2, <3>3, Zenon
  <2> QED BY <2>1, <2>2, Zenon
<1>2. Typed'
  BY <1>1, Zenon DEF Rules, Typed
<1>3. Suited' /\ PortsApart' /\ InTurn'
  BY Zenon DEF Rules, Suited, PortsApart, InTurn, SameChannel, Returned
<1>4. HandlersServed' /\ GivenUp'
  BY <1>1, SupersededStays, Zenon DEF Rules, HandlersServed, GivenUp
<1>5. Entries'
  BY Zenon DEF Rules, Entries, EntryRight
<1>6. Running'
  BY Zenon DEF Rules, Running, Listed, Replaced
<1> QED BY <1>2, <1>3, <1>4, <1>5, <1>6, Zenon DEF Rules

\* A listener that has been stopped belongs to no rule, one whose accept has
\* failed may.
LEMMA StoppingKeepsRules ==
    ASSUME Rules, NEW c \in Handler, ListenerStops(c) \/ ListenerBreaks(c)
    PROVE  Rules'
<1>1. /\ listener \in [Handler -> ListenerState]
      /\ \/ listener[c] = "aborted" /\ listener' = [listener EXCEPT ![c] = "none"]
         \/ listener[c] = "running" /\ listener' = [listener EXCEPT ![c] = "broken"]
      /\ UNCHANGED <<usb, tcp, forward_map, h, told, rport, deaf, cleanup>>
  BY Zenon DEF ListenerStops, ListenerBreaks, DropListener, Rules, Typed, hdcdvars
<1>2. Typed'
  BY <1>1, Zenon DEF Rules, Typed, ListenerState
<1>3. Suited'
  <2> SUFFICES ASSUME NEW d \in Handler
               PROVE  Suits(Request[d].op, h[d], listener'[d], told[d])
    BY <1>1, Zenon DEF Suited
  <2>1. Suits(Request[d].op, h[d], listener[d], told[d])
    BY Zenon DEF Rules, Suited
  <2>2. CASE d # c
    BY <1>1, <2>1, <2>2, Zenon
  <2>3. CASE d = c /\ listener[c] = "aborted" /\ listener'[c] = "none"
    BY <2>1, <2>3, Zenon DEF Suits, Holding
  <2>4. CASE d = c /\ h[c] = "insert" /\ listener[c] = "running" /\ listener'[c] = "broken"
    BY <2>1, <2>4, Zenon DEF Suits, Holding
  <2>5. CASE d = c /\ h[c] # "insert" /\ listener[c] = "running" /\ listener'[c] = "broken"
    BY <2>1, <2>5, Zenon DEF Suits, Holding
  <2> QED BY <1>1, <2>2, <2>3, <2>4, <2>5, Zenon
<1>p. PortsApart'
  BY <1>1, Zenon DEF Rules, PortsApart
<1>s. \A d : (Served(d)' <=> Served(d)) /\ (Owns(d)' <=> Owns(d))
  BY <1>1, Zenon DEF Served, Owns, Alive, Registered
<1>4. HandlersServed' /\ GivenUp' /\ InTurn'
  BY <1>1, <1>s, SupersededStays, Zenon
     DEF Rules, HandlersServed, GivenUp, InTurn, SameChannel, Returned
<1>5. Entries'
  BY <1>1, Zenon DEF Rules, Entries, EntryRight, Setup
<1>6. Running'
  <2>1. \A d \in Handler : listener'[d] = "running" => listener[d] = "running"
    BY <1>1, Zenon
  <2>2. \A d : Listed(d)' <=> Listed(d)
    BY <1>1, Zenon DEF Listed
  <2>3. \A d \in Handler : listener[d] = "broken" => listener'[d] = "broken"
    BY <1>1, Zenon
  <2>4. \A d : Replaced(d) => Replaced(d)'
    BY <1>1, <2>3, Zenon DEF Replaced, Setup
  <2> QED BY <1>1, <2>1, <2>2, <2>4, Zenon DEF Rules, Running
<1> QED BY <1>2, <1>3, <1>p, <1>4, <1>5, <1>6, Zenon DEF Rules

\* Every step keeps the rules.
LEMMA RulesStep == Rules /\ [Next]_vars => Rules'
<1> SUFFICES ASSUME Rules, [Next]_vars PROVE Rules'
  BY Zenon
<1>0. /\ rport \in [Handler -> RportState] /\ cleanup \subseteq UsbSession
      /\ deaf \subseteq HdcdSession
  BY Zenon DEF Rules, Typed
<1>1. ASSUME NEW c \in Handler, ForwardStep(c) \/ RportStep(c) \/ StartOther(c) \/ EndOther(c)
      PROVE  Rules'
  <2>1. \/ \/ Proceeds(c) \/ StartForward(c) \/ RegisterCtx(c) \/ BindAgain(c)
           \/ StartRport(c) \/ UnregisterRport(c) \/ StartOther(c) \/ EndOther(c)
        \/ InsertForwardEntry(c) \/ InsertRportEntry(c)
    BY <1>1, Zenon DEF ForwardStep, RportStep, Proceeds
  <2> QED BY <2>1, SetupKeepsRules, InsertKeepsRules, Zenon
<1>2. ASSUME NEW c \in Handler, RemoveForwardEntry(c) PROVE Rules'
  <2>1. PICK keys \in SUBSET DOMAIN forward_map :
           /\ RemoveKeys(keys)
           /\ told' = [told EXCEPT ![c] = IF keys = {} /\ Request[c].spec # <<>>
                                          THEN "fail" ELSE "ok"]
    BY <1>2, Zenon DEF RemoveForwardEntry
  <2>2. /\ h' = [h EXCEPT ![c] = "done"] /\ h[c] = "start" /\ c \in Handler \ Setup
        /\ Turn(c) /\ Request[c].op = "rm"
        /\ UNCHANGED <<usb, tcp, rport, deaf, cleanup>>
    BY <1>2, Zenon DEF RemoveForwardEntry, Goto, At, Setup, hdcdvars
  <2>3. told'[c] \in Told /\ told' = [told EXCEPT ![c] = told'[c]]
    BY <2>1, Zenon DEF Rules, Typed, Told
  <2> QED BY <2>1, <2>2, <2>3, RemovalKeepsRules, Zenon
<1>3. ASSUME NEW c \in Handler, ListenerStops(c) \/ ListenerBreaks(c) PROVE Rules'
  BY <1>3, StoppingKeepsRules, Zenon
<1>4. ASSUME NEW c \in Handler, RunRportListener(c) PROVE Rules'
  <2>1. rport' \in [Handler -> RportState]
    BY <1>0, <1>4, Zenon DEF RunRportListener, RportState
  <2>4. UNCHANGED <<usb, tcp, forward_map, h, told, listener, deaf, cleanup>>
    BY <1>4, Zenon DEF RunRportListener
  <2> QED BY <1>0, <2>1, <2>4, SessionsKeepRules, Zenon
<1>5. ASSUME NEW s \in Session, RouteResponse(s) \/ DeviceTakes(s) PROVE Rules'
  <2>1. UNCHANGED <<usb, tcp, forward_map, h, told, listener, rport, deaf, cleanup>>
    BY <1>5, Zenon DEF RouteResponse, DeviceTakes, hdcdvars
  <2> QED BY <1>0, <2>1, SessionsKeepRules, Zenon
<1>10. ASSUME NEW c \in Handler, RportDispatches(c) PROVE Rules'
  <2>1. UNCHANGED <<usb, tcp, forward_map, h, told, listener, rport, deaf, cleanup>>
    BY <1>10, Zenon DEF RportDispatches, hdcdvars
  <2> QED BY <1>0, <2>1, SessionsKeepRules, Zenon
<1>6. ASSUME NEW s \in Session, SessionEnds(s) PROVE Rules'
  <2>1. /\ UNCHANGED <<forward_map, h, told, listener, rport, deaf>>
        /\ EndSession(s) /\ cleanup' \subseteq UsbSession
    BY <1>0, <1>6, Zenon DEF SessionEnds, hdcdvars
  <2> QED BY <1>0, <2>1, SessionsKeepRules, Zenon
<1>7. ASSUME NEW s \in Session, RemoveRulesOf(s) PROVE Rules'
  <2>1. PICK keys \in SUBSET DOMAIN forward_map : RemoveKeys(keys)
    BY <1>7, Zenon DEF RemoveRulesOf
  <2>2. /\ UNCHANGED <<usb, tcp, h, told, rport, deaf>>
        /\ cleanup' \subseteq cleanup
    BY <1>7, Zenon DEF RemoveRulesOf, hdcdvars
  <2> QED BY <2>1, <2>2, RemovalKeepsRules, Zenon
<1>8. ASSUME NEW s \in Session, HdcdTakes(s) PROVE Rules'
  <2>1. UNCHANGED <<usb, tcp, forward_map, h, told, listener, cleanup>>
    BY <1>8, Zenon DEF HdcdTakes
  <2>2. rport' \in [Handler -> RportState]
    BY <1>0, <1>8 DEF HdcdTakes, hdcdvars, RportState
  <2>3. deaf' \subseteq HdcdSession
    BY <1>0, <1>8, Zenon DEF HdcdTakes, hdcdvars
  <2> QED BY <1>0, <2>1, <2>2, <2>3, SessionsKeepRules, Zenon
<1>9. CASE UNCHANGED vars
  BY <1>0, <1>9, SessionsKeepRules, Zenon DEF vars, hdcdvars
<1> QED BY <1>1, <1>2, <1>3, <1>4, <1>5, <1>10, <1>6, <1>7, <1>8, <1>9, Zenon DEF Next, HandlerStep

\* A rule in forward_map works while its session is there: its channel is
\* registered to its own dispatcher, unless its client has used the channel
\* for other commands of the device, and an fport's listener runs, unless its
\* accept has failed; whatever the commands of other channels, removals and
\* ends of sessions do in between (handle_server_forward, handle_server_rport,
\* remove_forward_entry).
THEOREM RulesAreServed == Spec => []ListedIsServed
  BY RulesInit, RulesStep, RulesAreRight, PTL DEF Spec

\* A setup that fails leaves no port bound and no entry listed, and that of an
\* rport no registration (the error paths of handle_server_forward and
\* handle_server_rport).
THEOREM FailureCleansUp == Spec => []FailedHoldsNothing
  BY RulesInit, RulesStep, RulesAreRight, PTL DEF Spec

-----------------------------------------------------------------------------
(* hdcd's listeners of reverse forwards.                                   *)

Command ==
    {"ForwardCheck", "ForwardCheckResult", "ForwardInit", "ForwardSuccess",
     "KernelChannelClose", "KernelEcho"}

Id == {Cid(c) : c \in Handler} \cup {Ctx(c) : c \in Handler}

Message == [cid : Id, of : Handler, command : Command, ok : BOOLEAN]

MailTyped ==
    /\ down \in [Session -> Seq(Message)] /\ up \in [Session -> Seq(Message)]
    /\ inbox \in [Handler -> Seq(Message)]

HdcdOnly == \A p \in DOMAIN rport_listeners : p[1] \in HdcdSession

Mail == MailTyped /\ HdcdTyped /\ HdcdOnly

\* "fport rm" can reach the rule of a handler, or the handler is not done.
Reached(c) == Listed(c) \/ Replaced(c) \/ h[c] \notin {"off", "start", "done"}

IsInit(m, c) == m.command = "ForwardInit" /\ m.of = c
IsClose(m, c) == m.command = "KernelChannelClose" /\ m.cid = Cid(c)
Closes(q, c) == \E i \in DOMAIN q : IsClose(q[i], c)
Undone(q, c) ==
    \A i \in DOMAIN q : IsInit(q[i], c) => \E j \in DOMAIN q : i < j /\ IsClose(q[j], c)

\* A listener that hdcd has, or will have when it reads what is on its way, is
\* that of a rule within reach or is going to be closed.
ReverseRight(c) ==
    Alive(S(c)) =>
       /\ Reached(c) \/ Undone(down[S(c)], c)
       /\ Current(c) /\ S(c) \notin deaf => Reached(c) \/ Closes(down[S(c)], c)

Reversed == {c \in Handler : Request[c].op = "rport"}

Reverse == Mail /\ \A c \in Reversed : ReverseRight(c)

\* Messages as the tasks make them.
LEMMA Messages ==
    ASSUME NEW x \in Id, NEW c \in Handler, NEW k \in Command, NEW ok \in BOOLEAN
    PROVE  /\ Msg(x, c, k, ok) \in Message
           /\ Msg(x, c, k, ok).cid = x /\ Msg(x, c, k, ok).of = c
           /\ Msg(x, c, k, ok).command = k
BY Zenon DEF Msg, Message

\* What a queue has for a handler after a message is put at its end,
LEMMA QueueAdd ==
    ASSUME NEW q \in Seq(Message), NEW m \in Message, NEW c
    PROVE  /\ Append(q, m) \in Seq(Message)
           /\ Closes(q, c) => Closes(Append(q, m), c)
           /\ Undone(q, c) /\ ~IsInit(m, c) => Undone(Append(q, m), c)
<1>1. /\ Append(q, m) \in Seq(Message)
      /\ \A i \in DOMAIN q : i \in DOMAIN Append(q, m) /\ Append(q, m)[i] = q[i]
      /\ \A i \in DOMAIN Append(q, m) : i \in DOMAIN q \/ Append(q, m)[i] = m
  OBVIOUS
<1> QED BY <1>1, Zenon DEF Closes, Undone

\* after the first one is taken,
LEMMA QueueTake ==
    ASSUME NEW q \in Seq(Message), q # <<>>, NEW c
    PROVE  /\ Tail(q) \in Seq(Message) /\ Head(q) \in Message
           /\ Closes(q, c) /\ ~IsClose(Head(q), c) => Closes(Tail(q), c)
           /\ Undone(q, c) => Undone(Tail(q), c)
           /\ Undone(q, c) /\ IsInit(Head(q), c) => Closes(Tail(q), c)
<1>1. /\ Tail(q) \in Seq(Message) /\ Head(q) = q[1] /\ Head(q) \in Message /\ 1 \in DOMAIN q
      /\ \A i \in DOMAIN Tail(q) : i + 1 \in DOMAIN q /\ Tail(q)[i] = q[i + 1]
      /\ \A i \in DOMAIN q : i # 1 => i - 1 \in DOMAIN Tail(q) /\ Tail(q)[i - 1] = q[i]
  OBVIOUS
<1>2. \A i \in DOMAIN q : ~(1 < 1) /\ (1 < i => i # 1)
  BY <1>1
<1>3. Closes(q, c) /\ ~IsClose(Head(q), c) => Closes(Tail(q), c)
  BY <1>1, Zenon DEF Closes
<1>4. ASSUME Undone(q, c) PROVE Undone(Tail(q), c)
  <2> SUFFICES ASSUME NEW i \in DOMAIN Tail(q), IsInit(Tail(q)[i], c)
               PROVE  \E j \in DOMAIN Tail(q) : i < j /\ IsClose(Tail(q)[j], c)
    BY Zenon DEF Undone
  <2>1. PICK j \in DOMAIN q : i + 1 < j /\ IsClose(q[j], c)
    BY <1>1, <1>4, Zenon DEF Undone
  <2>2. j # 1 /\ i < j - 1
    BY <2>1
  <2> QED BY <1>1, <2>1, <2>2, Zenon
<1>5. Undone(q, c) /\ IsInit(Head(q), c) => Closes(Tail(q), c)
  BY <1>1, <1>2, Zenon DEF Undone, Closes
<1> QED BY <1>1, <1>3, <1>4, <1>5, Zenon

\* and after closes are put behind it.
LEMMA QueueJoin ==
    ASSUME NEW q \in Seq(Message), NEW r \in Seq(Message), NEW c,
           \A i \in DOMAIN r : r[i].command = "KernelChannelClose"
    PROVE  /\ q \o r \in Seq(Message)
           /\ Closes(q, c) \/ Closes(r, c) => Closes(q \o r, c)
           /\ Undone(q, c) \/ Closes(r, c) => Undone(q \o r, c)
<1>1. /\ q \o r \in Seq(Message)
      /\ \A i \in DOMAIN q : i \in DOMAIN (q \o r) /\ (q \o r)[i] = q[i]
      /\ \A i \in DOMAIN r : Len(q) + i \in DOMAIN (q \o r) /\ (q \o r)[Len(q) + i] = r[i]
      /\ \A i \in DOMAIN (q \o r) : \/ i \in DOMAIN q
                                    \/ i - Len(q) \in DOMAIN r /\ (q \o r)[i] = r[i - Len(q)]
      /\ \A i \in DOMAIN q, j \in DOMAIN r : i < Len(q) + j
  OBVIOUS
<1>2. \A i \in DOMAIN r : ~IsInit(r[i], c)
  BY DEF IsInit
<1>3. \A i \in DOMAIN (q \o r) : IsInit((q \o r)[i], c) => i \in DOMAIN q /\ IsInit(q[i], c)
  BY <1>1, <1>2, Zenon
<1>4. Closes(q, c) \/ Closes(r, c) => Closes(q \o r, c)
  BY <1>1, Zenon DEF Closes
<1>5. ASSUME Undone(q, c) PROVE Undone(q \o r, c)
  BY <1>1, <1>3, <1>5, Zenon DEF Undone
<1>6. ASSUME Closes(r, c) PROVE Undone(q \o r, c)
  BY <1>1, <1>3, <1>6, Zenon DEF Undone, Closes
<1> QED BY <1>1, <1>4, <1>5, <1>6, Zenon

-----------------------------------------------------------------------------
\* A handler reads at most one message and sends at most one; ForwardInit is
\* its own, and it waits for the answer.
Reads(c) == inbox' = inbox \/ (inbox[c] # <<>> /\ inbox' = [inbox EXCEPT ![c] = Tail(inbox[c])])

Posts(c) ==
    \/ down' = down
    \/ \E m \in Message :
          /\ S(c) \in Session /\ down' = [down EXCEPT ![S(c)] = Append(down[S(c)], m)]
          /\ m.command = "ForwardInit" => m.of = c /\ h'[c] \notin {"off", "start", "done"}

Answers(c) ==
    \/ up' = up
    \/ \E m \in Message : S(c) \in Session /\ up' = [up EXCEPT ![S(c)] = Append(up[S(c)], m)]

\* Its messages are typed.
LEMMA OwnMessages ==
    ASSUME NEW c \in Handler, NEW of \in Handler, NEW k \in Command
    PROVE  /\ \A ok \in BOOLEAN : Msg(Cid(c), of, k, ok) \in Message
           /\ \A ok \in BOOLEAN : Own(c, k, ok) \in Message
           /\ \A ok : Own(c, k, ok).command = k /\ Own(c, k, ok).of = c
           /\ \A ok : Msg(Cid(c), of, k, ok).command = k
           /\ Own(c, k, TRUE) \in Message /\ Own(c, k, FALSE) \in Message
<1>1. Cid(c) \in Id
  BY Zenon DEF Id
<1>2. \A ok \in BOOLEAN : Msg(Cid(c), of, k, ok) \in Message /\ Msg(Cid(c), c, k, ok) \in Message
  BY <1>1, Messages, Zenon
<1>3. \A ok : Own(c, k, ok).command = k /\ Own(c, k, ok).of = c
               /\ Msg(Cid(c), of, k, ok).command = k
  BY Zenon DEF Own, Msg
<1> QED BY <1>2, <1>3, Zenon DEF Own

\* Every step of a handler does no more.
LEMMA HandlersPost ==
    ASSUME Rules, MailTyped, NEW c \in Handler,
           ForwardStep(c) \/ RportStep(c) \/ RportDispatches(c) \/ StartOther(c) \/ EndOther(c)
    PROVE  UNCHANGED <<hdcdvars, tcp>> /\ Reads(c) /\ Posts(c) /\ Answers(c)
<1>0. /\ Suits(Request[c].op, h[c], listener[c], told[c]) /\ h \in [Handler -> HandlerPc]
      /\ Request[c].op # "rm" => S(c) \in Session
  BY ForwardAssumption, Zenon DEF Rules, Typed, Suited, S
<1>1. CASE \/ StartForward(c) \/ BindFirst(c) \/ RegisterCtx(c) \/ AnnounceForward(c)
           \/ SpawnListener(c) \/ InsertForwardEntry(c) \/ ForwardTimeout(c) \/ StartRport(c)
           \/ RportTimeout(c) \/ AnnounceRport(c) \/ UnregisterRport(c) \/ InsertRportEntry(c)
           \/ StartOther(c)
  BY <1>1, Zenon DEF StartForward, BindFirst, RegisterCtx, AnnounceForward, SpawnListener,
     InsertForwardEntry, ForwardTimeout, StartRport, RportTimeout, AnnounceRport,
     UnregisterRport, InsertRportEntry, StartOther, Reads, Posts, Answers
<1>2. CASE \/ AwaitCheckResult(c) \/ AwaitForwardCheck(c) \/ AwaitForwardSuccess(c)
           \/ AwaitFollowUp(c)
  BY <1>2, Zenon
     DEF AwaitCheckResult, AwaitForwardCheck, AwaitForwardSuccess, AwaitFollowUp, Take,
     Reads, Posts, Answers
<1>3. CASE SendForwardCheck(c) \/ SendFollowUp(c)
  <2>0. S(c) \in Session
    BY <1>0, <1>3 DEF SendForwardCheck, SendFollowUp, At, Suits
  <2>1. PICK m : m = Own(c, "ForwardCheck", TRUE)
    BY Zenon
  <2>2. m \in Message /\ m.command = "ForwardCheck"
    <3>1. m \in Message
      BY <2>1, OwnMessages, Zenon DEF Command
    <3> QED BY <2>1, <3>1, Zenon DEF Own, Msg
  <2>3. down' = down \/ down' = [down EXCEPT ![S(c)] = Append(down[S(c)], m)]
    BY <1>3, <2>1, Zenon DEF SendForwardCheck, SendFollowUp, Send, SendFails
  <2>4. Posts(c)
    BY <2>0, <2>2, <2>3 DEF Posts
  <2> QED BY <1>3, <2>4, Zenon DEF SendForwardCheck, SendFollowUp, Reads, Answers
<1>4. CASE SendForwardInit(c) \/ SendRportInit(c)
  <2>0. S(c) \in Session
    BY <1>0, <1>4 DEF SendForwardInit, SendRportInit, At, Suits
  <2>1. PICK m : m = Own(c, "ForwardInit", TRUE)
    BY Zenon
  <2>2. m \in Message /\ m.of = c
    <3>1. m \in Message
      BY <2>1, OwnMessages, Zenon DEF Command
    <3> QED BY <2>1, <3>1, Zenon DEF Own, Msg
  <2>3. \/ down' = down
        \/ /\ down' = [down EXCEPT ![S(c)] = Append(down[S(c)], m)]
           /\ h'[c] \notin {"off", "start", "done"}
    BY <1>0, <1>4, <2>1, Zenon DEF SendForwardInit, SendRportInit, Send, SendFails, Goto
  <2>4. Posts(c)
    BY <2>0, <2>2, <2>3, Zenon DEF Posts
  <2> QED BY <1>4, <2>4, Zenon DEF SendForwardInit, SendRportInit, Reads, Answers
<1>5. CASE BindAgain(c) \/ SendForwardCheckResult(c)
  <2>0. S(c) \in Session
    BY <1>0, <1>5 DEF BindAgain, SendForwardCheckResult, At, Suits
  <2>1. \/ down' = down
        \/ \E ok \in BOOLEAN :
              down' = [down EXCEPT ![S(c)] = Append(down[S(c)], Own(c, "ForwardCheckResult", ok))]
    BY <1>5, Zenon DEF BindAgain, SendForwardCheckResult, UsbSend, UsbSendFails
  <2>2. \A ok \in BOOLEAN : /\ Own(c, "ForwardCheckResult", ok) \in Message
                            /\ Own(c, "ForwardCheckResult", ok).command # "ForwardInit"
    BY OwnMessages DEF Command
  <2>4. Posts(c)
    BY <2>0, <2>1, <2>2, Zenon DEF Posts
  <2> QED BY <1>5, <2>4, Zenon DEF BindAgain, SendForwardCheckResult, Reads, Answers
<1>6. CASE AwaitSetup(c) \/ RportDispatches(c)
  <2>0. S(c) \in Session
    BY <1>0, <1>6 DEF AwaitSetup, RportDispatches, At, Suits
  <2>1. inbox[c] # <<>> /\ inbox[c] \in Seq(Message)
    BY <1>6, Zenon DEF AwaitSetup, RportDispatches, Take, MailTyped
  <2>2. PICK x : x = Head(inbox[c]).of
    BY Zenon
  <2>3. x \in Handler
    <3>1. Head(inbox[c]) \in Message
      BY <2>1
    <3> QED BY <2>2, <3>1, Zenon DEF Message
  <2>4. down' = down \/ AnswerCheck(c, x)
    BY <1>6, <2>2, Zenon DEF AwaitSetup, RportDispatches
  <2>5. \/ down' = down
        \/ \E ok \in BOOLEAN :
              down' = [down EXCEPT ![S(c)] = Append(down[S(c)],
                                                    Msg(Cid(c), x, "ForwardCheckResult", ok))]
    BY <2>4, Zenon DEF AnswerCheck, Send, SendFails
  <2>6. \A ok \in BOOLEAN : /\ Msg(Cid(c), x, "ForwardCheckResult", ok) \in Message
                            /\ Msg(Cid(c), x, "ForwardCheckResult", ok).command # "ForwardInit"
    BY <2>3, OwnMessages DEF Command
  <2>7. Posts(c)
    BY <2>0, <2>5, <2>6, Zenon DEF Posts
  <2> QED BY <1>6, <2>7, Zenon DEF AwaitSetup, RportDispatches, Take, Reads, Answers
<1>7. CASE EndOther(c)
  <2>0. S(c) \in Session
    BY <1>0, <1>7 DEF EndOther, At, Suits
  <2>1. PICK m : m = Own(c, "KernelChannelClose", TRUE)
    BY Zenon
  <2>2. m \in Message
    BY <2>1, OwnMessages, Zenon DEF Command
  <2>3. Answers(c)
    BY <1>7, <2>0, <2>1, <2>2, Zenon DEF EndOther, Answers
  <2> QED BY <1>7, <2>3, Zenon DEF EndOther, Reads, Posts
<1> QED BY <1>1, <1>2, <1>3, <1>4, <1>5, <1>6, <1>7, Zenon DEF ForwardStep, RportStep

\* Rules that can be reached stay so while handlers set up others.
LEMMA ReachedStays ==
    ASSUME Rules, NEW c \in Handler,
           ForwardStep(c) \/ RportStep(c) \/ StartOther(c) \/ EndOther(c),
           NEW d \in Reversed, Reached(d)
    PROVE  Reached(d)'
<1>0. d \in Handler /\ Request[d].op = "rport" /\ h \in [Handler -> HandlerPc]
  BY Zenon DEF Reversed, Rules, Typed
<1>1. CASE Moved(c)
  <2>1. Listed(d) => Listed(d)'
    BY <1>1, Zenon DEF Listed, Moved
  <2>2. Replaced(d) => Replaced(d)'
    BY <1>1, ZenonT(30) DEF Replaced, Moved, Setup
  <2>3. h[d] \notin {"off", "start", "done"} => h'[d] \notin {"off", "start", "done"}
    BY <1>0, <1>1 DEF Moved
  <2> QED BY <2>1, <2>2, <2>3, Zenon DEF Reached
<1>2. CASE InsertForwardEntry(c) \/ InsertRportEntry(c)
  <2>0. /\ h' = [h EXCEPT ![c] = "done"] /\ told[c] = "ok" /\ c \in Setup /\ h[c] # "done"
        /\ forward_map' = Put(forward_map, Request[c].spec, ForwardEntry(c))
        /\ UNCHANGED <<told, listener>>
    BY <1>2, Zenon
       DEF Rules, Suited, Suits, Setup, InsertForwardEntry, InsertRportEntry, At, Goto, Holding
  <2>1. Replaced(d) => Replaced(d)'
    BY <1>0, <2>0, Zenon DEF Replaced, Setup
  <2>2. d = c => Listed(d)'
    BY <2>0, Zenon DEF Listed, Put, ForwardEntry
  <2>3. d # c /\ h[d] \notin {"off", "start", "done"} => h'[d] \notin {"off", "start", "done"}
    BY <1>0, <2>0, Zenon
  <2>4. ASSUME d # c, Listed(d) PROVE Listed(d)' \/ Replaced(d)'
    <3>1. PICK k \in DOMAIN forward_map : forward_map[k].task = d
      BY <2>4, Zenon DEF Listed
    <3>2. Request[d].spec = k
      BY <3>1, Zenon DEF Rules, Entries, EntryRight
    <3>3. CASE k # Request[c].spec
      BY <2>0, <3>1, <3>3, Zenon DEF Listed, Put
    <3>4. CASE k = Request[c].spec
      BY <1>0, <2>0, <2>4, <3>2, <3>4, Zenon DEF Replaced, Setup
    <3> QED BY <3>3, <3>4, Zenon
  <2> QED BY <2>1, <2>2, <2>3, <2>4, Zenon DEF Reached
<1> QED BY <1>1, <1>2, SetupKeepsRules, Zenon DEF ForwardStep, RportStep, Proceeds

\* What a step has to keep for a reverse rule.
LEMMA StillRight ==
    ASSUME NEW d, ReverseRight(d), Alive(S(d))' => Alive(S(d)), Reached(d) => Reached(d)',
           Current(d)' => Current(d), S(d) \in deaf => S(d) \in deaf',
           Undone(down[S(d)], d) => Undone(down'[S(d)], d) \/ Reached(d)',
           Closes(down[S(d)], d) => Closes(down'[S(d)], d)
    PROVE  ReverseRight(d)'
BY Zenon DEF ReverseRight

\* Handlers do not end sessions.
LEMMA SendersStay ==
    ASSUME Rules, NEW c \in Handler,
           ForwardStep(c) \/ RportStep(c) \/ RportDispatches(c) \/ StartOther(c) \/ EndOther(c)
    PROVE  usb'.session_senders = usb.session_senders
<1>0. UsbTyped(usb)
  BY Zenon DEF Rules, Typed
<1>1. \/ usb' = usb
      \/ \E x : usb' = Register(usb, S(c), x, c)
      \/ usb' = Unregister(usb, S(c), Cid(c))
  BY Zenon DEF ForwardStep, RportStep, RportDispatches, StartOther, EndOther, StartForward,
     BindFirst, RegisterCtx, SendForwardCheck, AwaitCheckResult, SendForwardInit,
     AwaitForwardCheck, BindAgain, SendForwardCheckResult, AwaitForwardSuccess, SendFollowUp,
     AwaitFollowUp, AnnounceForward, SpawnListener, InsertForwardEntry, ForwardTimeout,
     StartRport, SendRportInit, AwaitSetup, RportTimeout, AnnounceRport, UnregisterRport,
     InsertRportEntry
<1>2. ASSUME NEW x, usb' = Register(usb, S(c), x, c)
      PROVE  usb'.session_senders = usb.session_senders
  <2>1. PICK s : s = S(c)
    BY Zenon
  <2>2. Register(usb, s, x, c).session_senders = usb.session_senders
    BY <1>0, RegisterDoes, Zenon
  <2> QED BY <1>2, <2>1, <2>2, Zenon
<1>3. ASSUME usb' = Unregister(usb, S(c), Cid(c))
      PROVE  usb'.session_senders = usb.session_senders
  <2>1. PICK s, x : s = S(c) /\ x = Cid(c)
    BY Zenon
  <2>2. Unregister(usb, s, x).session_senders = usb.session_senders
    BY <1>0, UnregisterDoes, Zenon
  <2> QED BY <1>3, <2>1, <2>2, Zenon
<1> QED BY <1>1, <1>2, <1>3, Zenon

\* Steps of handlers keep reverse rules right.
LEMMA HandlerReverse ==
    ASSUME Rules, Reverse, NEW c \in Handler,
           ForwardStep(c) \/ RportStep(c) \/ RportDispatches(c) \/ StartOther(c) \/ EndOther(c)
    PROVE  Reverse'
<1>0. MailTyped /\ HdcdTyped /\ HdcdOnly
  BY Zenon DEF Reverse, Mail
<1>1. UNCHANGED <<rport, rport_listeners, deaf, tcp>> /\ Reads(c) /\ Posts(c) /\ Answers(c)
  BY <1>0, HandlersPost, Zenon DEF hdcdvars
<1>2. MailTyped'
  <2>1. inbox' \in [Handler -> Seq(Message)]
    <3>1. inbox[c] # <<>> => Tail(inbox[c]) \in Seq(Message)
      BY <1>0, QueueTake, Zenon DEF MailTyped
    <3> QED BY <1>0, <1>1, <3>1, Zenon DEF Reads, MailTyped
  <2>2. down' \in [Session -> Seq(Message)]
    <3>1. ASSUME NEW m \in Message, S(c) \in Session PROVE Append(down[S(c)], m) \in Seq(Message)
      BY <1>0, <3>1, QueueAdd, Zenon DEF MailTyped
    <3> QED BY <1>0, <1>1, <3>1, Zenon DEF Posts, MailTyped
  <2>3. up' \in [Session -> Seq(Message)]
    <3>1. ASSUME NEW m \in Message, S(c) \in Session PROVE Append(up[S(c)], m) \in Seq(Message)
      BY <1>0, <3>1, QueueAdd, Zenon DEF MailTyped
    <3> QED BY <1>0, <1>1, <3>1, Zenon DEF Answers, MailTyped
  <2> QED BY <2>1, <2>2, <2>3, Zenon DEF MailTyped
<1>3. HdcdTyped' /\ HdcdOnly'
  BY <1>0, <1>1, Zenon DEF HdcdTyped, HdcdOnly
<1>4. ASSUME NEW d \in Reversed PROVE ReverseRight(d)'
  <2>0. d \in Handler /\ S(d) \in Session /\ ReverseRight(d) /\ down[S(d)] \in Seq(Message)
    <3>1. d \in Handler /\ S(d) \in Session
      BY <1>4, ForwardAssumption DEF Reversed, S
    <3> QED BY <1>0, <1>4, <3>1, Zenon DEF Reverse, MailTyped
  <2>1. Alive(S(d))' => Alive(S(d))
    BY <1>1, SendersStay, Zenon DEF Alive
  <2>2. Reached(d) => Reached(d)'
    <3>1. CASE RportDispatches(c)
      BY <3>1, Zenon DEF RportDispatches, Reached, Listed, Replaced
    <3> QED BY <1>4, <3>1, ReachedStays, Zenon
  <2>3. (Current(d)' => Current(d)) /\ deaf' = deaf
    BY <1>1, Zenon DEF Current
  <2>4. CASE down'[S(d)] = down[S(d)]
    BY <2>0, <2>1, <2>2, <2>3, <2>4, StillRight, Zenon
  <2>5. CASE down'[S(d)] # down[S(d)]
    <3>1. PICK m \in Message :
             /\ S(c) \in Session /\ down' = [down EXCEPT ![S(c)] = Append(down[S(c)], m)]
             /\ m.command = "ForwardInit" => m.of = c /\ h'[c] \notin {"off", "start", "done"}
      BY <1>1, <2>5, Zenon DEF Posts
    <3>2. S(d) = S(c) /\ down'[S(d)] = Append(down[S(d)], m)
      BY <1>0, <2>0, <2>5, <3>1, Zenon DEF MailTyped
    <3>3. IsInit(m, d) => Reached(d)'
      BY <3>1, Zenon DEF IsInit, Reached
    <3>4. /\ Undone(down[S(d)], d) => Undone(down'[S(d)], d) \/ Reached(d)'
          /\ Closes(down[S(d)], d) => Closes(down'[S(d)], d)
      BY <2>0, <3>2, <3>3, QueueAdd, Zenon
    <3> QED BY <2>0, <2>1, <2>2, <2>3, <3>4, StillRight, Zenon
  <2> QED BY <2>4, <2>5, Zenon
<1> QED BY <1>2, <1>3, <1>4, Zenon DEF Reverse, Mail

-----------------------------------------------------------------------------
\* A removal sends one close for each rule it removes, if the session is there.
LEMMA ClosesSent ==
    ASSUME Rules, MailTyped, NEW keys \in SUBSET DOMAIN forward_map, RemoveKeys(keys)
    PROVE  \A s \in Session : \E r \in Seq(Message) :
              /\ down'[s] = down[s] \o r
              /\ \A i \in DOMAIN r : r[i].command = "KernelChannelClose"
              /\ \A k \in keys :
                    LET d == forward_map[k].task
                    IN S(d) = s /\ Alive(s) => Closes(r, d)
<1> DEFINE gone == {forward_map[k].task : k \in keys}
           closing(s) == {d \in gone : S(d) = s /\ Alive(s)}
<1>1. gone \subseteq Handler
  BY DEF Rules, Entries, EntryRight, Setup
<1>2. PICK q : /\ \A s \in Session : q[s] \in Walks(closing(s))
               /\ down' = [s \in Session |->
                             down[s] \o [i \in DOMAIN q[s] |->
                                            Own(q[s][i], "KernelChannelClose", TRUE)]]
  BY ZenonT(30) DEF RemoveKeys, SendCloses
<1> SUFFICES ASSUME NEW s \in Session
             PROVE  \E r \in Seq(Message) :
              /\ down'[s] = down[s] \o r
              /\ \A i \in DOMAIN r : r[i].command = "KernelChannelClose"
              /\ \A k \in keys :
                    LET d == forward_map[k].task
                    IN S(d) = s /\ Alive(s) => Closes(r, d)
  BY Zenon
<1>3. PICK w : w = q[s]
  BY Zenon
<1>4. PICK r : r = [i \in DOMAIN w |-> Own(w[i], "KernelChannelClose", TRUE)]
  BY Zenon
<1>5. down'[s] = down[s] \o r
  BY <1>2, <1>3, <1>4, Zenon
<1>6. /\ \E n \in Nat : DOMAIN w = 1..n
      /\ \A i \in DOMAIN w : w[i] \in closing(s)
      /\ \A d \in closing(s) : \E i \in DOMAIN w : w[i] = d
  BY <1>2, <1>3, ForwardAssumption, SMTT(20) DEF Walks
<1>7. ASSUME NEW i \in DOMAIN w
      PROVE  r[i] \in Message /\ r[i].command = "KernelChannelClose" /\ IsClose(r[i], w[i])
  <2>1. PICK d \in Handler : d = w[i]
    BY <1>1, <1>6, <1>7, Zenon
  <2>2. PICK m : m = Own(d, "KernelChannelClose", TRUE)
    BY Zenon
  <2>3. r[i] = m
    BY <1>4, <1>7, <2>1, <2>2, Zenon
  <2>4. m \in Message
    BY <2>2, OwnMessages, Zenon DEF Command
  <2>5. IsClose(m, d)
    BY <2>2, Zenon DEF Own, Msg, IsClose
  <2> QED BY <2>1, <2>3, <2>4, <2>5, Zenon DEF IsClose
<1>8. r \in Seq(Message) /\ DOMAIN r = DOMAIN w
  <2>1. PICK n \in Nat : DOMAIN w = 1..n
    BY <1>6, Zenon
  <2>2. DOMAIN r = 1..n
    BY <1>4, <2>1, Zenon
  <2>3. r \in [1..n -> Message]
    <3>1. \A i \in 1..n : r[i] \in Message
      BY <1>7, <2>1, Zenon
    <3>2. r = [i \in 1..n |-> r[i]]
      BY <1>4, <2>1, Zenon
    <3> QED BY <3>1, <3>2, Zenon
  <2>4. r \in Seq(Message)
    BY <2>3
  <2> QED BY <2>1, <2>2, <2>4, Zenon
<1>9. \A d \in closing(s) : Closes(r, d)
  BY <1>6, <1>7, <1>8, Zenon DEF Closes
<1> QED BY <1>5, <1>7, <1>8, <1>9, Zenon

\* Removals leave every listener within reach.
LEMMA RemovalReverse ==
    ASSUME Rules, Reverse, NEW keys \in SUBSET DOMAIN forward_map, RemoveKeys(keys),
           UNCHANGED <<usb, tcp, hdcdvars, up, inbox>>,
           \A d \in Setup : h'[d] = h[d] /\ told'[d] = told[d]
    PROVE  Reverse'
<1>0. MailTyped /\ HdcdTyped /\ HdcdOnly
  BY Zenon DEF Reverse, Mail
<1>1. MailTyped'
  <2>1. \A s \in Session : down'[s] \in Seq(Message)
    <3> SUFFICES ASSUME NEW s \in Session PROVE down'[s] \in Seq(Message)
      BY Zenon
    <3>1. PICK r \in Seq(Message) : down'[s] = down[s] \o r
      BY <1>0, ClosesSent, Zenon
    <3>2. down[s] \in Seq(Message)
      BY <1>0, Zenon DEF MailTyped
    <3> QED BY <3>1, <3>2
  <2>2. down' = [s \in Session |-> down'[s]]
    BY Zenon DEF RemoveKeys, SendCloses
  <2>3. down' \in [Session -> Seq(Message)]
    BY <2>1, <2>2, Zenon
  <2> QED BY <1>0, <2>3, Zenon DEF MailTyped
<1>2. HdcdTyped' /\ HdcdOnly'
  BY <1>0, Zenon DEF HdcdTyped, HdcdOnly, hdcdvars
<1>3. ASSUME NEW c \in Reversed PROVE ReverseRight(c)'
  <2>0. c \in Setup /\ c \in Handler /\ S(c) \in Session
    BY <1>3, ForwardAssumption DEF Reversed, S, Setup
  <2>1. ReverseRight(c) /\ down[S(c)] \in Seq(Message)
    BY <1>0, <1>3, <2>0, Zenon DEF Reverse, MailTyped
  <2>2. PICK r \in Seq(Message) :
           /\ down'[S(c)] = down[S(c)] \o r
           /\ \A i \in DOMAIN r : r[i].command = "KernelChannelClose"
           /\ \A k \in keys :
                 LET d == forward_map[k].task
                 IN S(d) = S(c) /\ Alive(S(c)) => Closes(r, d)
    BY <1>0, <2>0, ClosesSent, ZenonT(30)
  <2>3. /\ Closes(down[S(c)], c) \/ Closes(r, c) => Closes(down'[S(c)], c)
        /\ Undone(down[S(c)], c) \/ Closes(r, c) => Undone(down'[S(c)], c)
    BY <2>1, <2>2, QueueJoin, Zenon
  <2>4. (Alive(S(c))' => Alive(S(c))) /\ (Current(c)' => Current(c)) /\ deaf' = deaf
    BY Zenon DEF Alive, Current, hdcdvars
  <2>5. ASSUME Alive(S(c)), Listed(c) PROVE Listed(c)' \/ Closes(r, c)
    <3>1. PICK k \in DOMAIN forward_map : forward_map[k].task = c
      BY <2>5, Zenon DEF Listed
    <3>2. CASE k \notin keys
      BY <3>1, <3>2, Zenon DEF Listed, RemoveKeys
    <3>3. CASE k \in keys
      BY <2>2, <2>5, <3>1, <3>3, Zenon
    <3> QED BY <3>2, <3>3, Zenon
  <2>6. Replaced(c) => Replaced(c)'
    <3>1. \A e \in Setup : listener[e] = "broken" => listener'[e] = "broken"
      BY Zenon DEF RemoveKeys, AbortListeners, Setup
    <3> QED BY <3>1, Zenon DEF Replaced
  <2>7. Alive(S(c)) => (Reached(c) => Reached(c)' \/ Closes(r, c))
    BY <2>0, <2>5, <2>6, Zenon DEF Reached
  <2> QED BY <2>1, <2>3, <2>4, <2>7, Zenon DEF ReverseRight
<1> QED BY <1>1, <1>2, <1>3, Zenon DEF Reverse, Mail

\* The end of a session takes with it what was on its way.
LEMMA EndReverse ==
    ASSUME Rules, Reverse, NEW s \in Session, SessionEnds(s)
    PROVE  Reverse'
<1>0. /\ MailTyped /\ HdcdTyped /\ HdcdOnly /\ UsbTyped(usb) /\ TcpTyped(tcp)
      /\ UNCHANGED <<forward_map, h, told, inbox, listener, hdcdvars>> /\ EndSession(s)
  BY Zenon DEF Reverse, Mail, Rules, Typed, SessionEnds
<1>1. /\ down' = [down EXCEPT ![s] = <<>>] /\ up' = [up EXCEPT ![s] = <<>>]
      /\ tcp' = EndTcpSession(tcp, s)
      /\ usb' = IF s \in UsbSession THEN EndSessionWithCleanup(usb, s) ELSE usb
  BY <1>0, Zenon DEF EndSession
<1>2. MailTyped'
  <2>1. <<>> \in Seq(Message)
    OBVIOUS
  <2> QED BY <1>0, <1>1, <2>1, Zenon DEF MailTyped
<1>3. HdcdTyped' /\ HdcdOnly'
  BY <1>0, Zenon DEF HdcdTyped, HdcdOnly, hdcdvars
<1>4. /\ tcp'.session_writers = tcp.session_writers \ {s}
      /\ usb'.session_senders = usb.session_senders \ {s}
  <2>1. tcp'.session_writers = tcp.session_writers \ {s}
    BY <1>0, <1>1, EndDoes, Zenon
  <2>2. CASE s \in UsbSession
    BY <1>0, <1>1, <2>1, <2>2, EndDoes, Zenon
  <2>3. CASE s \notin UsbSession
    BY <1>0, <1>1, <2>1, <2>3, Zenon DEF UsbTyped
  <2> QED BY <2>2, <2>3, Zenon
<1>5. ASSUME NEW d \in Reversed PROVE ReverseRight(d)'
  <2>1. CASE S(d) = s
    <3>1. ~Alive(S(d))'
      BY <1>4, <2>1, Zenon DEF Alive
    <3> QED BY <3>1, Zenon DEF ReverseRight
  <2>2. CASE S(d) # s
    <3>1. S(d) \in Session /\ ReverseRight(d)
      BY <1>5, ForwardAssumption DEF Reversed, S, Reverse
    <3>2. down'[S(d)] = down[S(d)] /\ (Alive(S(d))' => Alive(S(d)))
      BY <1>0, <1>1, <1>4, <2>2, <3>1, Zenon DEF Alive, MailTyped
    <3>3. /\ Reached(d) => Reached(d)'
          /\ Current(d)' => Current(d)
          /\ deaf' = deaf
      BY <1>0, Zenon DEF Reached, Listed, Replaced, Current, hdcdvars
    <3> QED BY <3>1, <3>2, <3>3, StillRight, Zenon
  <2> QED BY <2>1, <2>2, Zenon
<1> QED BY <1>2, <1>3, <1>5, Zenon DEF Reverse, Mail

\* So do steps that touch neither what is sent to daemons nor rules.
LEMMA ElsewhereReverse ==
    ASSUME Reverse, MailTyped', HdcdTyped', HdcdOnly',
           UNCHANGED <<usb, tcp, forward_map, h, told, down, deaf>>,
           \A d \in Handler : listener[d] = "broken" => listener'[d] = "broken",
           \A d \in Handler : Current(d)' => Current(d)
    PROVE  Reverse'
<1> SUFFICES ASSUME NEW d \in Reversed PROVE ReverseRight(d)'
  BY Zenon DEF Reverse, Mail
<1>1. d \in Handler /\ ReverseRight(d)
  BY Zenon DEF Reversed, Reverse
<1>2. Reached(d) => Reached(d)'
  BY Zenon DEF Reached, Listed, Replaced, Setup
<1>3. Alive(S(d))' => Alive(S(d))
  BY Zenon DEF Alive
<1> QED BY <1>1, <1>2, <1>3, StillRight, Zenon

\* Messages from daemons reach handlers as they are.
LEMMA RouteReverse ==
    ASSUME Rules, Reverse, NEW s \in Session, RouteResponse(s)
    PROVE  Reverse'
<1>0. MailTyped /\ HdcdTyped /\ HdcdOnly /\ UsbTyped(usb) /\ up[s] # <<>>
  BY Zenon DEF Reverse, Mail, Rules, Typed, RouteResponse
<1>1. Tail(up[s]) \in Seq(Message) /\ Head(up[s]) \in Message
  BY <1>0, QueueTake, Zenon DEF MailTyped
<1>2. up' \in [Session -> Seq(Message)]
  BY <1>0, <1>1, Zenon DEF RouteResponse, MailTyped
<1>3. PICK m \in Message : m = Head(up[s])
  BY <1>1, Zenon
<1>4. inbox' = inbox \/ \E c \in Handler : inbox' = [inbox EXCEPT ![c] = Append(inbox[c], m)]
  BY <1>0, <1>3, Zenon DEF RouteResponse, UsbTyped, Registered
<1>5. \A c \in Handler : Append(inbox[c], m) \in Seq(Message)
  BY <1>0, QueueAdd, Zenon DEF MailTyped
<1>6. inbox' \in [Handler -> Seq(Message)]
  BY <1>0, <1>4, <1>5, Zenon DEF MailTyped
<1>7. /\ UNCHANGED <<usb, tcp, forward_map, h, told, listener, down, rport, rport_listeners, deaf>>
      /\ \A d \in Handler : Current(d)' => Current(d)
  BY Zenon DEF RouteResponse, hdcdvars, Current
<1>8. MailTyped' /\ HdcdTyped' /\ HdcdOnly'
  BY <1>0, <1>2, <1>6, <1>7, Zenon DEF MailTyped, HdcdTyped, HdcdOnly
<1> QED BY <1>7, <1>8, ElsewhereReverse, Zenon

\* The end of a host's listener, and the steps of hdcd's, which take
\* registrations away at most.
LEMMA ListenerReverse ==
    ASSUME Rules, Reverse, NEW c \in Handler,
           ListenerStops(c) \/ ListenerBreaks(c) \/ RunRportListener(c)
    PROVE  Reverse'
<1>0. MailTyped /\ HdcdTyped /\ HdcdOnly /\ listener \in [Handler -> ListenerState]
  BY Zenon DEF Reverse, Mail, Rules, Typed
<1>1. CASE ListenerStops(c) \/ ListenerBreaks(c)
  <2>1. /\ UNCHANGED <<usb, tcp, forward_map, h, told, inbox, down, up, rport_listeners, deaf>>
        /\ \A d \in Handler : Current(d)' => Current(d)
    BY <1>1, Zenon DEF ListenerStops, ListenerBreaks, hdcdvars, Current
  <2>2. \A d \in Handler : listener[d] = "broken" => listener'[d] = "broken"
    BY <1>0, <1>1, Zenon DEF ListenerStops, ListenerBreaks, DropListener
  <2>3. MailTyped' /\ HdcdTyped' /\ HdcdOnly'
    BY <1>0, <2>1, Zenon DEF MailTyped, HdcdTyped, HdcdOnly
  <2> QED BY <2>1, <2>2, <2>3, ElsewhereReverse, Zenon
<1>2. CASE RunRportListener(c)
  <2>1. UNCHANGED <<usb, tcp, forward_map, h, told, inbox, listener, down, deaf>>
    BY <1>2, Zenon DEF RunRportListener
  <2>2. \/ rport_listeners' = rport_listeners
        \/ rport_listeners' = Remove(rport_listeners, <<S(c), Cid(c)>>)
    BY <1>2, Zenon DEF RunRportListener
  <2>3. HdcdTyped' /\ HdcdOnly' /\ \A d \in Handler : Current(d)' => Current(d)
    BY <1>0, <2>2, Zenon DEF Remove, HdcdTyped, HdcdOnly, Current
  <2>4. \/ up' = up
        \/ /\ Alive(S(c))
           /\ \E k \in {"ForwardCheck", "ForwardSuccess"} :
                 up' = [up EXCEPT ![S(c)] = Append(up[S(c)], Own(c, k, TRUE))]
    BY <1>2, Zenon DEF RunRportListener
  <2>5. ASSUME NEW k \in {"ForwardCheck", "ForwardSuccess"}, Alive(S(c)),
               up' = [up EXCEPT ![S(c)] = Append(up[S(c)], Own(c, k, TRUE))]
        PROVE  up' \in [Session -> Seq(Message)]
    <3>1. PICK m : m = Own(c, k, TRUE)
      BY Zenon
    <3>2. k \in Command
      BY <2>5, Zenon DEF Command
    <3>3. m \in Message
      BY <3>1, <3>2, OwnMessages, Zenon
    <3>4. S(c) \in Session
      BY <2>5, Zenon DEF Alive, Rules, Typed, UsbTyped, TcpTyped, Session
    <3>5. Append(up[S(c)], m) \in Seq(Message)
      BY <1>0, <3>3, <3>4, QueueAdd, Zenon DEF MailTyped
    <3> QED BY <1>0, <2>5, <3>1, <3>5, Zenon DEF MailTyped
  <2>6. MailTyped'
    BY <1>0, <2>1, <2>4, <2>5, Zenon DEF MailTyped
  <2> QED BY <2>1, <2>3, <2>6, ElsewhereReverse, Zenon
<1> QED BY <1>1, <1>2, Zenon

-----------------------------------------------------------------------------
\* A daemon takes a message and answers it at most once.
Took(s) ==
    /\ Alive(s) /\ down[s] # <<>> /\ down' = [down EXCEPT ![s] = Tail(down[s])]
    /\ \/ up' = up
       \/ \E m \in Message : up' = [up EXCEPT ![s] = Append(up[s], m)]
    /\ UNCHANGED <<usb, tcp, forward_map, h, told, inbox, listener>>

\* The answers of a device are typed.
LEMMA DeviceTook ==
    ASSUME MailTyped, NEW s \in Session, DeviceTakes(s)
    PROVE  Took(s) /\ UNCHANGED <<rport, rport_listeners, deaf>>
<1>0. down[s] # <<>> /\ down[s] \in Seq(Message)
  BY Zenon DEF DeviceTakes, MailTyped
<1>1. Head(down[s]) \in Message
  BY <1>0, QueueTake, Zenon
<1>2. PICK m \in Message : m = Head(down[s])
  BY <1>1, Zenon
<1>3. m.cid \in Id /\ m.of \in Handler /\ Ctx(m.of) \in Id
  BY Zenon DEF Message, Id
<1>4. ASSUME NEW x \in {m.cid, Ctx(m.of)}, NEW k \in Command, NEW ok \in BOOLEAN
      PROVE  Msg(x, m.of, k, ok) \in Message
  BY <1>3, <1>4, Messages, Zenon
<1>5. \/ up' = up
      \/ \E x \in {m.cid, Ctx(m.of)}, k \in Command, ok \in BOOLEAN :
            up' = [up EXCEPT ![s] = Append(up[s], Msg(x, m.of, k, ok))]
  BY <1>2, Zenon DEF DeviceTakes, Command
<1>6. \/ up' = up
      \/ \E x \in Message : up' = [up EXCEPT ![s] = Append(up[s], x)]
  BY <1>4, <1>5, Zenon
<1> QED BY <1>0, <1>6, Zenon DEF DeviceTakes, Took, hdcdvars

\* So are those of hdcd, whatever it has registered.
LEMMA HdcdTook ==
    ASSUME MailTyped, NEW s \in Session, HdcdTakes(s)
    PROVE  Took(s)
<1>0. down[s] # <<>> /\ down[s] \in Seq(Message)
  BY Zenon DEF HdcdTakes, MailTyped
<1>1. Head(down[s]) \in Message
  BY <1>0, QueueTake, Zenon
<1>2. PICK m \in Message : m = Head(down[s])
  BY <1>1, Zenon
<1>3. m.cid \in Id /\ m.of \in Handler
  BY Zenon DEF Message
<1>4. ASSUME NEW k \in Command PROVE Msg(m.cid, m.of, k, FALSE) \in Message
  BY <1>3, <1>4, Messages, Zenon
<1>5. up' = up \/ \E k \in Command : up' = [up EXCEPT ![s] = Append(up[s], Msg(m.cid, m.of, k, FALSE))]
  BY <1>2, Zenon DEF HdcdTakes, Command
<1>6. \/ up' = up
      \/ \E x \in Message : up' = [up EXCEPT ![s] = Append(up[s], x)]
  BY <1>4, <1>5, Zenon
<1> QED BY <1>0, <1>6, Zenon DEF HdcdTakes, Took

\* What hdcd does with its registrations.
LEMMA HdcdDoes ==
    ASSUME NEW s, HdcdTakes(s), NEW m, m = Head(down[s])
    PROVE  \/ /\ m.command = "ForwardInit" /\ deaf' = deaf
              /\ rport_listeners' = Put(rport_listeners, <<s, m.cid>>, m.of)
           \/ /\ m.command # "KernelChannelClose" /\ deaf' = deaf
              /\ rport_listeners' = rport_listeners
           \/ /\ m.command = "KernelChannelClose" /\ deaf' = deaf
              /\ rport_listeners' = Remove(rport_listeners, <<s, m.cid>>)
           \/ deaf' = deaf \cup {s} /\ rport_listeners' = rport_listeners
BY Zenon DEF HdcdTakes, hdcdvars

\* A daemon that takes a message leaves reverse rules right: hdcd comes by a
\* listener only through a ForwardInit, and when it takes the close of one it
\* has none on that channel, or stops reading the session.
LEMMA DaemonReverse ==
    ASSUME Rules, Reverse, NEW s \in Session, DeviceTakes(s) \/ HdcdTakes(s)
    PROVE  Reverse'
<1>0. MailTyped /\ HdcdTyped /\ HdcdOnly
  BY Zenon DEF Reverse, Mail
<1>1. Took(s)
  BY <1>0, DeviceTook, HdcdTook, Zenon
<1>2. down[s] # <<>> /\ down[s] \in Seq(Message)
  BY <1>0, <1>1, Zenon DEF Took, MailTyped
<1>3. Tail(down[s]) \in Seq(Message) /\ Head(down[s]) \in Message
  BY <1>2, QueueTake, Zenon
<1>4. MailTyped'
  <2>1. \A m \in Message : Append(up[s], m) \in Seq(Message)
    BY <1>0, QueueAdd, Zenon DEF MailTyped
  <2> QED BY <1>0, <1>1, <1>3, <2>1, Zenon DEF Took, MailTyped
<1>5. PICK m \in Message : m = Head(down[s])
  BY <1>3, Zenon
<1>6. m.of \in Handler
  BY Zenon DEF Message
<1>7. HdcdTyped' /\ HdcdOnly'
  <2>1. CASE DeviceTakes(s)
    BY <1>0, <2>1, DeviceTook, Zenon DEF HdcdTyped, HdcdOnly
  <2>2. CASE HdcdTakes(s)
    <3>1. s \in HdcdSession
      BY <2>2, Zenon DEF HdcdTakes
    <3>2. \/ rport_listeners' = rport_listeners
          \/ rport_listeners' = Put(rport_listeners, <<s, m.cid>>, m.of)
          \/ rport_listeners' = Remove(rport_listeners, <<s, m.cid>>)
      BY <1>5, <2>2, HdcdDoes, Zenon
    <3>3. CASE rport_listeners' = Put(rport_listeners, <<s, m.cid>>, m.of)
      <4>1. /\ DOMAIN rport_listeners' = DOMAIN rport_listeners \cup {<<s, m.cid>>}
            /\ rport_listeners'[<<s, m.cid>>] = m.of
            /\ \A p \in DOMAIN rport_listeners :
                  p # <<s, m.cid>> => rport_listeners'[p] = rport_listeners[p]
        BY <3>3, Zenon DEF Put
      <4>2. <<s, m.cid>>[1] = s
        OBVIOUS
      <4> QED BY <1>0, <1>6, <3>1, <4>1, <4>2, Zenon DEF HdcdTyped, HdcdOnly
    <3>4. CASE rport_listeners' = Remove(rport_listeners, <<s, m.cid>>)
      BY <1>0, <3>4, Zenon DEF HdcdTyped, HdcdOnly, Remove
    <3> QED BY <1>0, <3>2, <3>3, <3>4, Zenon DEF HdcdTyped, HdcdOnly
  <2> QED BY <2>1, <2>2, Zenon
<1>8. ASSUME NEW d \in Reversed PROVE ReverseRight(d)'
  <2>0. d \in Handler /\ S(d) \in Session /\ ReverseRight(d)
    BY <1>8, ForwardAssumption DEF Reversed, S, Reverse
  <2>1. (Reached(d) => Reached(d)') /\ (Alive(S(d))' => Alive(S(d)))
    BY <1>1, Zenon DEF Took, Reached, Listed, Replaced, Alive
  <2>2. CASE S(d) # s
    <3>1. down'[S(d)] = down[S(d)]
      BY <1>0, <1>1, <2>0, <2>2, Zenon DEF Took, MailTyped
    <3>2. (Current(d)' => Current(d)) /\ (S(d) \in deaf => S(d) \in deaf')
      <4>1. CASE DeviceTakes(s)
        BY <1>0, <4>1, DeviceTook, Zenon DEF Current
      <4>2. CASE HdcdTakes(s)
        <5>1. <<S(d), Cid(d)>> # <<s, m.cid>>
          BY <2>2
        <5>2. deaf \subseteq deaf'
          BY <1>5, <4>2, HdcdDoes, Zenon
        <5>3. \/ rport_listeners' = rport_listeners
              \/ rport_listeners' = Put(rport_listeners, <<s, m.cid>>, m.of)
              \/ rport_listeners' = Remove(rport_listeners, <<s, m.cid>>)
          BY <1>5, <4>2, HdcdDoes, Zenon
        <5>4. CASE rport_listeners' = rport_listeners
          BY <5>2, <5>4, Zenon DEF Current
        <5>5. CASE rport_listeners' = Put(rport_listeners, <<s, m.cid>>, m.of)
          BY <5>1, <5>2, <5>5, Zenon DEF Current, Put
        <5>6. CASE rport_listeners' = Remove(rport_listeners, <<s, m.cid>>)
          BY <5>1, <5>2, <5>6, Zenon DEF Current, Remove
        <5> QED BY <5>3, <5>4, <5>5, <5>6, Zenon
      <4> QED BY <4>1, <4>2, Zenon
    <3> QED BY <2>0, <2>1, <3>1, <3>2, StillRight, Zenon
  <2>3. CASE S(d) = s
    <3>1. down'[s] = Tail(down[s])
      BY <1>0, <1>1, Zenon DEF Took, MailTyped
    <3>2. Undone(down[s], d) => Undone(down'[s], d)
      BY <1>2, <3>1, QueueTake, Zenon
    <3>3. /\ Closes(down[s], d) /\ ~IsClose(m, d) => Closes(down'[s], d)
          /\ Undone(down[s], d) /\ IsInit(m, d) => Closes(down'[s], d)
      BY <1>2, <1>5, <3>1, QueueTake, Zenon
    <3>4. CASE DeviceTakes(s)
      <4>1. s \notin HdcdSession
        BY <3>4, ForwardAssumption, Zenon DEF DeviceTakes
      <4>2. <<S(d), Cid(d)>>[1] = s
        BY <2>3
      <4>3. ~Current(d)'
        BY <1>7, <4>1, <4>2, Zenon DEF HdcdOnly, Current
      <4> QED BY <2>0, <2>1, <2>3, <3>2, <4>3, Zenon DEF ReverseRight
    <3>5. CASE HdcdTakes(s)
      <4>1. CASE /\ m.command = "ForwardInit" /\ deaf' = deaf
                 /\ rport_listeners' = Put(rport_listeners, <<s, m.cid>>, m.of)
        <5>1. ~IsClose(m, d)
          BY <4>1 DEF IsClose
        <5>2. Current(d)' => Current(d) \/ m.of = d
          BY <4>1, Zenon DEF Current, Put
        <5>3. m.of = d => IsInit(m, d)
          BY <4>1, Zenon DEF IsInit
        <5> QED BY <2>0, <2>1, <2>3, <3>2, <3>3, <4>1, <5>1, <5>2, <5>3, Zenon DEF ReverseRight
      <4>2. CASE /\ m.command # "KernelChannelClose" /\ deaf' = deaf
                 /\ rport_listeners' = rport_listeners
        <5>1. ~IsClose(m, d) /\ (Current(d)' => Current(d))
          BY <4>2, Zenon DEF IsClose, Current
        <5> QED BY <2>0, <2>1, <2>3, <3>2, <3>3, <4>2, <5>1, StillRight, Zenon
      <4>3. CASE /\ m.command = "KernelChannelClose" /\ deaf' = deaf
                 /\ rport_listeners' = Remove(rport_listeners, <<s, m.cid>>)
        <5>1. Current(d)' => Current(d) /\ ~IsClose(m, d)
          BY <2>3, <4>3, Zenon DEF IsClose, Current, Remove
        <5> QED BY <2>0, <2>1, <2>3, <3>2, <3>3, <4>3, <5>1, Zenon DEF ReverseRight
      <4>4. CASE deaf' = deaf \cup {s} /\ rport_listeners' = rport_listeners
        <5>1. S(d) \in deaf'
          BY <2>3, <4>4, Zenon
        <5> QED BY <2>0, <2>1, <2>3, <3>2, <5>1, Zenon DEF ReverseRight
      <4> QED BY <1>5, <3>5, <4>1, <4>2, <4>3, <4>4, HdcdDoes, Zenon
    <3> QED BY <3>4, <3>5, Zenon
  <2> QED BY <2>2, <2>3, Zenon
<1> QED BY <1>4, <1>7, <1>8, Zenon DEF Reverse, Mail

-----------------------------------------------------------------------------
\* There is nothing to reach when the server starts.
LEMMA ReverseInit == Init => Reverse
<1> SUFFICES ASSUME Init PROVE Reverse
  BY Zenon
<1>1. <<>> \in Seq(Message) /\ DOMAIN <<>> = {}
  OBVIOUS
<1>2. MailTyped
  BY <1>1, Zenon DEF Init, MailTyped
<1>3. HdcdTyped /\ HdcdOnly /\ \A c : ~Current(c)
  BY Zenon DEF Init, EmptyMap, HdcdTyped, HdcdOnly, Current
<1>4. ASSUME NEW c \in Reversed PROVE ReverseRight(c)
  <2>1. S(c) \in Session
    BY <1>4, ForwardAssumption DEF Reversed, S
  <2>2. down[S(c)] = <<>>
    BY <2>1, Zenon DEF Init
  <2>3. Undone(down[S(c)], c)
    BY <1>1, <2>2, Zenon DEF Undone
  <2> QED BY <1>3, <2>3, Zenon DEF ReverseRight
<1> QED BY <1>2, <1>3, <1>4, Zenon DEF Reverse, Mail

\* Every step keeps reverse rules right.
LEMMA ReverseStep == Rules /\ Reverse /\ [Next]_vars => Reverse'
<1> SUFFICES ASSUME Rules, Reverse, [Next]_vars PROVE Reverse'
  BY Zenon
<1>1. ASSUME NEW c \in Handler, RemoveForwardEntry(c) PROVE Reverse'
  <2>1. PICK keys \in SUBSET DOMAIN forward_map :
           /\ RemoveKeys(keys)
           /\ told' = [told EXCEPT ![c] = IF keys = {} /\ Request[c].spec # <<>>
                                          THEN "fail" ELSE "ok"]
    BY <1>1, Zenon DEF RemoveForwardEntry
  <2>2. /\ h' = [h EXCEPT ![c] = "done"] /\ c \notin Setup
        /\ UNCHANGED <<usb, tcp, hdcdvars, up, inbox>>
    BY <1>1, Zenon DEF RemoveForwardEntry, Goto, Setup
  <2>3. \A d \in Setup : h'[d] = h[d] /\ told'[d] = told[d]
    BY <2>1, <2>2, Zenon DEF Rules, Typed, Setup
  <2> QED BY <2>1, <2>2, <2>3, RemovalReverse, Zenon
<1>2. ASSUME NEW s \in Session, RemoveRulesOf(s) PROVE Reverse'
  <2>1. PICK keys \in SUBSET DOMAIN forward_map : RemoveKeys(keys)
    BY <1>2, Zenon DEF RemoveRulesOf
  <2>2. UNCHANGED <<usb, tcp, h, told, inbox, up, hdcdvars>>
    BY <1>2, Zenon DEF RemoveRulesOf
  <2> QED BY <2>1, <2>2, RemovalReverse, Zenon
<1>3. CASE UNCHANGED vars
  <2>1. /\ UNCHANGED <<usb, tcp, forward_map, h, told, inbox, listener, down, up, deaf>>
        /\ rport_listeners' = rport_listeners
    BY <1>3, Zenon DEF vars, hdcdvars
  <2>2. MailTyped' /\ HdcdTyped' /\ HdcdOnly' /\ \A d \in Handler : Current(d)' => Current(d)
    BY <2>1, Zenon DEF Reverse, Mail, MailTyped, HdcdTyped, HdcdOnly, Current
  <2> QED BY <2>1, <2>2, ElsewhereReverse, Zenon
<1> QED BY <1>1, <1>2, <1>3, HandlerReverse, ListenerReverse, EndReverse, RouteReverse,
           DaemonReverse, Zenon DEF Next, HandlerStep

\* The two invariants give what the runs check.
LEMMA ReverseIsRight == Rules /\ Reverse => TypeOK /\ ListenersAreListed
<1> SUFFICES ASSUME Rules, Reverse PROVE TypeOK /\ ListenersAreListed
  BY Zenon
<1>1. TypeOK
  BY RulesAreRight, Zenon DEF Reverse, Mail
<1>2. ASSUME NEW c \in Handler, Request[c].op = "rport", Current(c), Alive(S(c)), S(c) \notin deaf
      PROVE  Listed(c) \/ ClosePending(c) \/ Replaced(c) \/ h[c] \notin {"off", "start", "done"}
  <2>1. c \in Reversed /\ S(c) \in Session
    BY <1>2, ForwardAssumption DEF Reversed, S
  <2>2. Reached(c) \/ Closes(down[S(c)], c)
    BY <1>2, <2>1, Zenon DEF Reverse, ReverseRight
  <2>3. DOMAIN down[S(c)] = 1..Len(down[S(c)])
    BY <2>1 DEF Reverse, Mail, MailTyped
  <2>4. Closes(down[S(c)], c) => ClosePending(c)
    BY <2>3, Zenon DEF Closes, ClosePending, IsClose
  <2> QED BY <2>2, <2>4, Zenon DEF Reached
<1>3. ListenersAreListed
  BY <1>2, Zenon DEF ListenersAreListed, Rules, Running
<1> QED BY <1>1, <1>3, Zenon

\* Rules, registrations and tasks have their types at every step (the structs
\* UsbMapInner, TcpMapInner and ForwardEntry of server.rs).
THEOREM ForwardTypes == Spec => []TypeOK
  BY RulesInit, RulesStep, ReverseInit, ReverseStep, ReverseIsRight, PTL DEF Spec

\* Listeners stay within reach of "fport rm": those of the host, and those
\* that hdcd has for reverse rules, however closes and ForwardInits on one
\* channel follow each other (remove_forward_entry of server.rs,
\* handle_rport_init and run_rport_listener of hdcd's forward.rs).
THEOREM ListenersReached == Spec => []ListenersAreListed
  BY RulesInit, RulesStep, ReverseInit, ReverseStep, ReverseIsRight, PTL DEF Spec

=============================================================================
