---------------------------- MODULE ForwardBridge ----------------------------
(***************************************************************************)
(* One connection through a forwarding rule: run_forward_bridge,           *)
(* run_rport_bridge and the dispatchers of server.rs on the host "H", and  *)
(* forward.rs of hdcd on the daemon "D".                                   *)
(*                                                                         *)
(* For fport the host accepts the connection and the daemon connects to    *)
(* the target; for rport it is the other way round.  Each end has a reader *)
(* task (from its application to the session), a writer task (from the     *)
(* queue its dispatcher fills to its application) and a sender for that    *)
(* queue in a map of connections.  The two ends exchange messages over the *)
(* session, a FIFO link each way.  Bytes are numbered in the order an      *)
(* application writes them.                                                *)
(*                                                                         *)
(* hdcd stands for a daemon that handles ForwardActiveSlave as hdcd does:  *)
(* the host sends it over USB sessions only, while hdcd serves TCP.        *)
(***************************************************************************)
EXTENDS Integers, Sequences

CONSTANTS
    Direction,       \* subset of {"fport", "rport"}
    MaxBytes         \* bound on the bytes an application writes

ASSUME BridgeAssumption ==
    Direction \subseteq {"fport", "rport"} /\ MaxBytes \in Nat

End == {"H", "D"}

VARIABLES
    direction,
    alive,           \* the session is up
    app,             \* each application: "none", "open" or "closed"
    written,         \* bytes each application has written
    sock,            \* those its end has not read
    got,             \* the bytes each application has been given
    eof,             \* each application has been given the end of the stream
    pc,              \* the task of each end that sets up and joins the other two
    reader, writer,  \* "off", "run" or "done"
    sender,          \* the sender is in the map of connections
    queue,           \* what it has sent and the writer has not taken
    wire,            \* messages on the way to each end
    rule             \* "there", "removed" on the host, "closed" on the daemon too

vars == <<direction, alive, app, written, sock, got, eof, pc, reader, writer, sender, queue,
          wire, rule>>

Peer(e) == IF e = "H" THEN "D" ELSE "H"
Acceptor == IF direction = "fport" THEN "H" ELSE "D"
Connector == Peer(Acceptor)

\* The daemon's end of an fport has no task of its own: the handler of
\* ForwardActiveSlave leaves a reader and a writer behind.
HdcdSlave(e) == e = "D" /\ direction = "fport"

Activation == 0              \* the empty vector, or RportConnMsg::ActiveMaster
Msg(command, byte) == [command |-> command, byte |-> byte]

Init ==
    /\ direction \in Direction
    /\ alive = TRUE
    /\ app = [e \in End |-> "none"]
    /\ written = [e \in End |-> 0]
    /\ sock = [e \in End |-> <<>>]
    /\ got = [e \in End |-> <<>>]
    /\ eof = [e \in End |-> FALSE]
    /\ pc = [e \in End |-> "idle"]
    /\ reader = [e \in End |-> "off"]
    /\ writer = [e \in End |-> "off"]
    /\ sender = [e \in End |-> FALSE]
    /\ queue = [e \in End |-> <<>>]
    /\ wire = [e \in End |-> <<>>]
    /\ rule = "there"

-----------------------------------------------------------------------------
(* The applications.                                                       *)

AppWrites(e) ==
    /\ app[e] = "open" /\ written[e] < MaxBytes
    /\ written' = [written EXCEPT ![e] = @ + 1]
    /\ sock' = [sock EXCEPT ![e] = Append(@, written[e] + 1)]
    /\ UNCHANGED <<direction, alive, app, got, eof, pc, reader, writer, sender, queue, wire, rule>>

AppCloses(e) ==
    /\ app[e] = "open"
    /\ app' = [app EXCEPT ![e] = "closed"]
    /\ UNCHANGED <<direction, alive, written, sock, got, eof, pc, reader, writer, sender, queue,
                   wire, rule>>

-----------------------------------------------------------------------------
(* Setting up.                                                             *)

Goto(e, l) == pc' = [pc EXCEPT ![e] = l]
SetSender(e, on) == sender' = [sender EXCEPT ![e] = on]
StartTasks(e) ==
    /\ reader' = [reader EXCEPT ![e] = "run"]
    /\ writer' = [writer EXCEPT ![e] = "run"]

Send(e, m) == alive /\ wire' = [wire EXCEPT ![Peer(e)] = Append(@, m)]
SendFails == ~alive /\ UNCHANGED wire
SendOrNot(e, m) == Send(e, m) \/ SendFails

\* The listener accepts a connection and its sender is put in the map.
Accept ==
    /\ pc[Acceptor] = "idle"
    /\ rule = "there" \/ (Acceptor = "D" /\ rule = "removed")
    /\ app' = [app EXCEPT ![Acceptor] = "open"]
    /\ SetSender(Acceptor, TRUE)
    /\ Goto(Acceptor, "ask")
    /\ UNCHANGED <<direction, alive, written, sock, got, eof, reader, writer, queue, wire, rule>>

SendActiveSlave ==
    /\ pc[Acceptor] = "ask"
    /\ \/ Send(Acceptor, Msg("ForwardActiveSlave", 0)) /\ Goto(Acceptor, "wait")
          /\ UNCHANGED <<sender, eof>>
       \/ /\ SendFails /\ Goto(Acceptor, "ended") /\ SetSender(Acceptor, FALSE)
          /\ eof' = [eof EXCEPT ![Acceptor] = TRUE]
    /\ UNCHANGED <<direction, alive, app, written, sock, got, reader, writer, queue, rule>>

\* Until it is activated the accepting end discards data.
AwaitActivation ==
    /\ pc[Acceptor] = "wait" /\ queue[Acceptor] # <<>>
    /\ queue' = [queue EXCEPT ![Acceptor] = Tail(@)]
    /\ \/ Head(queue[Acceptor]) = Activation /\ Goto(Acceptor, "bridge") /\ StartTasks(Acceptor)
       \/ Head(queue[Acceptor]) # Activation /\ UNCHANGED <<pc, reader, writer>>
    /\ UNCHANGED <<direction, alive, app, written, sock, got, eof, sender, wire, rule>>

\* The sender has been removed, or 10 s have passed.  Only hdcd tells its
\* peer.
ActivationFails ==
    /\ pc[Acceptor] = "wait"
    /\ SetSender(Acceptor, FALSE)
    /\ Goto(Acceptor, IF queue[Acceptor] = <<>> /\ ~sender[Acceptor] THEN "ended" ELSE "gave_up")
    /\ eof' = [eof EXCEPT ![Acceptor] = TRUE]
    /\ IF Acceptor = "D" THEN SendOrNot("D", Msg("ForwardFreeContext", 0)) ELSE UNCHANGED wire
    /\ UNCHANGED <<direction, alive, app, written, sock, got, reader, writer, queue, rule>>

ConnectTarget ==
    /\ pc[Connector] = "connect"
    /\ \/ /\ app' = [app EXCEPT ![Connector] = "open"]
          /\ Goto(Connector, "insert") /\ UNCHANGED wire
       \/ /\ SendOrNot(Connector, Msg("ForwardFreeContext", 0))
          /\ Goto(Connector, "ended") /\ UNCHANGED app
    /\ UNCHANGED <<direction, alive, written, sock, got, eof, reader, writer, sender, queue, rule>>

InsertSenderStarts ==
    /\ pc[Connector] = "insert"
    /\ SetSender(Connector, TRUE)
    /\ Goto(Connector, "master")
    /\ StartTasks(Connector)
    /\ UNCHANGED <<direction, alive, app, written, sock, got, eof, queue, wire, rule>>

\* hdcd starts the two tasks before it sends ForwardActiveMaster.
InsertSender ==
    /\ pc[Connector] = "insert"
    /\ SetSender(Connector, TRUE)
    /\ Goto(Connector, "master")
    /\ IF HdcdSlave(Connector) THEN StartTasks(Connector) ELSE UNCHANGED <<reader, writer>>
    /\ UNCHANGED <<direction, alive, app, written, sock, got, eof, queue, wire, rule>>

SendActiveMaster ==
    /\ pc[Connector] = "master"
    /\ \/ /\ Send(Connector, Msg("ForwardActiveMaster", 0)) /\ Goto(Connector, "bridge")
          /\ IF HdcdSlave(Connector) THEN UNCHANGED <<reader, writer>> ELSE StartTasks(Connector)
          /\ UNCHANGED <<sender, eof>>
       \/ /\ SendFails /\ ~HdcdSlave(Connector)
          /\ SetSender(Connector, FALSE) /\ Goto(Connector, "ended")
          /\ eof' = [eof EXCEPT ![Connector] = TRUE] /\ UNCHANGED <<reader, writer>>
       \/ /\ SendFails /\ HdcdSlave(Connector) /\ Goto(Connector, "bridge")
          /\ UNCHANGED <<reader, writer, sender, eof>>
    /\ UNCHANGED <<direction, alive, app, written, sock, got, queue, rule>>

-----------------------------------------------------------------------------
(* The dispatchers and the two tasks of each end.                          *)

\* hdcd connects to the target inside the handler of ForwardActiveSlave.
Busy(e) == HdcdSlave(e) /\ pc[e] \in {"connect", "insert", "master"}

Taken(e) == wire' = [wire EXCEPT ![e] = Tail(@)]

ToWriterBounded(e, item) ==
    queue' = IF sender[e] /\ Len(queue[e]) < 1 THEN [queue EXCEPT ![e] = Append(@, item)] ELSE queue

\* The queue of a connection is unbounded.
ToWriter(e, item) == queue' = IF sender[e] THEN [queue EXCEPT ![e] = Append(@, item)] ELSE queue

\* hdcd's arm KernelChannelClose: an fport's senders are dropped, an rport's
\* listener and dispatcher end.  With neither, the session ends.
ChannelClose(e) ==
    /\ rule' = "closed"
    /\ alive' = (alive /\ (direction = "rport" \/ sender[e]))
    /\ sender' = [sender EXCEPT ![e] = @ /\ direction = "rport"]

\* A message that comes after the dispatcher has ended is ignored.
Dispatch(e) ==
    /\ wire[e] # <<>> /\ ~Busy(e)
    /\ Taken(e)
    /\ LET m == Head(wire[e])
           ended == e = "D" /\ direction = "rport" /\ rule = "closed"
       IN \/ ended /\ UNCHANGED <<alive, pc, sender, queue, rule>>
          \/ /\ ~ended /\ m.command = "ForwardActiveSlave" /\ Goto(e, "connect")
             /\ UNCHANGED <<alive, sender, queue, rule>>
          \/ /\ ~ended /\ m.command = "ForwardActiveMaster" /\ ToWriter(e, Activation)
             /\ UNCHANGED <<alive, pc, sender, rule>>
          \/ /\ ~ended /\ m.command = "ForwardData" /\ ToWriter(e, m.byte)
             /\ UNCHANGED <<alive, pc, sender, rule>>
          \/ /\ ~ended /\ m.command = "ForwardFreeContext" /\ SetSender(e, FALSE)
             /\ UNCHANGED <<alive, pc, queue, rule>>
          \/ /\ ~ended /\ m.command = "KernelChannelClose" /\ ChannelClose(e)
             /\ UNCHANGED <<pc, queue>>
    /\ UNCHANGED <<direction, app, written, sock, got, eof, reader, writer>>

ReadSocketSilent(e) ==
    /\ reader[e] = "run"
    /\ \/ /\ sock[e] # <<>>
          /\ sock' = [sock EXCEPT ![e] = Tail(@)]
          /\ \/ Send(e, Msg("ForwardData", Head(sock[e]))) /\ UNCHANGED reader
             \/ SendFails /\ reader' = [reader EXCEPT ![e] = "done"]
       \/ /\ sock[e] = <<>> /\ app[e] = "closed"
          /\ reader' = [reader EXCEPT ![e] = "done"]
          /\ UNCHANGED <<sock, wire>>
    /\ UNCHANGED <<direction, alive, app, written, got, eof, pc, writer, sender, queue, rule>>

\* An error or the end of the stream ends the task that reads the socket.
\* hdcd's of an fport then sends ForwardFreeContext.
ReadSocket(e) ==
    /\ reader[e] = "run"
    /\ \/ /\ sock[e] # <<>>
          /\ sock' = [sock EXCEPT ![e] = Tail(@)]
          /\ \/ Send(e, Msg("ForwardData", Head(sock[e]))) /\ UNCHANGED reader
             \/ SendFails /\ reader' = [reader EXCEPT ![e] = "done"]
       \/ /\ sock[e] = <<>> /\ app[e] = "closed"
          /\ reader' = [reader EXCEPT ![e] = "done"]
          /\ IF HdcdSlave(e) THEN SendOrNot(e, Msg("ForwardFreeContext", 0)) ELSE UNCHANGED wire
          /\ UNCHANGED sock
    /\ UNCHANGED <<direction, alive, app, written, got, eof, pc, writer, sender, queue, rule>>

\* A write to an application that has closed fails, sooner or later.
WriteSocket(e) ==
    /\ writer[e] = "run" /\ queue[e] # <<>>
    /\ queue' = [queue EXCEPT ![e] = Tail(@)]
    /\ LET item == Head(queue[e])
       IN \/ item = Activation /\ UNCHANGED <<got, writer>>
          \/ /\ item # Activation /\ app[e] = "open"
             /\ got' = [got EXCEPT ![e] = Append(@, item)] /\ UNCHANGED writer
          \/ /\ item # Activation /\ app[e] = "closed" /\ UNCHANGED got
             /\ \/ UNCHANGED writer
                \/ writer' = [writer EXCEPT ![e] = "done"]
    /\ UNCHANGED <<direction, alive, app, written, sock, eof, pc, reader, sender, wire, rule>>

\* With the sender gone and the queue drained, the writer ends and its half
\* of the socket is shut down.
WriterEnds(e) ==
    /\ writer[e] = "run" /\ queue[e] = <<>> /\ ~sender[e]
    /\ writer' = [writer EXCEPT ![e] = "done"]
    /\ eof' = [eof EXCEPT ![e] = TRUE]
    /\ UNCHANGED <<direction, alive, app, written, sock, got, pc, reader, sender, queue, wire, rule>>

JoinBridgeSilent(e) ==
    /\ pc[e] = "bridge" /\ ~HdcdSlave(e)
    /\ reader[e] = "done" /\ writer[e] = "done"
    /\ SetSender(e, FALSE)
    /\ Goto(e, "ended")
    /\ UNCHANGED <<direction, alive, app, written, sock, got, eof, reader, writer, queue, wire, rule>>

\* join!, and only then ForwardFreeContext.
JoinBridge(e) ==
    /\ pc[e] = "bridge" /\ ~HdcdSlave(e)
    /\ reader[e] = "done" /\ writer[e] = "done"
    /\ SetSender(e, FALSE)
    /\ SendOrNot(e, Msg("ForwardFreeContext", 0))
    /\ Goto(e, "ended")
    /\ UNCHANGED <<direction, alive, app, written, sock, got, eof, reader, writer, queue, rule>>

-----------------------------------------------------------------------------
(* The end of the rule and of the session.                                 *)

\* "fport rm": the host's listener is aborted and KernelChannelClose is sent.
\* The connections there are go on.
RemoveRule ==
    /\ rule = "there" /\ rule' = "removed"
    /\ SendOrNot("H", Msg("KernelChannelClose", 0))
    /\ UNCHANGED <<direction, alive, app, written, sock, got, eof, pc, reader, writer, sender, queue>>

\* What a dispatcher has not taken may be lost.
SessionEnds ==
    /\ alive /\ alive' = FALSE
    /\ \E h \in 0..Len(wire["H"]), d \in 0..Len(wire["D"]) :
          wire' = [H |-> SubSeq(wire["H"], 1, h), D |-> SubSeq(wire["D"], 1, d)]
    /\ UNCHANGED <<direction, app, written, sock, got, eof, pc, reader, writer, sender, queue, rule>>

-----------------------------------------------------------------------------
SetUp ==
    \/ SendActiveSlave \/ AwaitActivation \/ ActivationFails
    \/ ConnectTarget \/ InsertSender \/ SendActiveMaster

Bridging(e) ==
    Dispatch(e) \/ ReadSocket(e) \/ WriteSocket(e) \/ WriterEnds(e) \/ JoinBridge(e)

Next ==
    \/ Accept \/ SetUp \/ RemoveRule \/ SessionEnds
    \/ \E e \in End : AppWrites(e) \/ AppCloses(e) \/ Bridging(e)

\* Every task runs when it can.  Nothing makes an application write or close,
\* or the session end.
Fairness ==
    /\ WF_vars(SetUp)
    /\ \A e \in End :
          /\ WF_vars(Dispatch(e)) /\ WF_vars(ReadSocket(e)) /\ WF_vars(WriteSocket(e))
          /\ WF_vars(WriterEnds(e)) /\ WF_vars(JoinBridge(e))

Spec == Init /\ [][Next]_vars /\ Fairness

-----------------------------------------------------------------------------
(* Properties.                                                             *)

Task == {"off", "run", "done"}

\* Every task is at one of its steps, what is queued for an application is a
\* byte or the activation, and no socket is read before its end is a bridge,
\* except by hdcd, which starts reading before it answers (forward.rs:210).
TypeOK ==
    /\ direction \in Direction /\ alive \in BOOLEAN /\ rule \in {"there", "removed", "closed"}
    /\ app \in [End -> {"none", "open", "closed"}]
    /\ written \in [End -> 0..MaxBytes]
    /\ eof \in [End -> BOOLEAN] /\ sender \in [End -> BOOLEAN]
    /\ pc \in [End -> {"idle", "ask", "wait", "connect", "insert", "master", "bridge",
                       "ended", "gave_up"}]
    /\ reader \in [End -> Task] /\ writer \in [End -> Task]
    /\ \A e \in End : \A i \in DOMAIN queue[e] : queue[e][i] \in 0..MaxBytes
    /\ \A e \in End : reader[e] = "run" => pc[e] = "bridge" \/ HdcdSlave(e)

\* The bytes an application is given are a run of those the other wrote,
\* without gaps, repetitions or reordering; through an rport it starts with
\* the first.  (An fport discards what comes before ForwardActiveMaster.)
Contiguous ==
    \A e \in End :
       /\ \A i \in DOMAIN got[e] : got[e][i] \in 1..written[Peer(e)]
       /\ \A i \in 2..Len(got[e]) : got[e][i] = got[e][i - 1] + 1
       /\ direction = "rport" /\ got[e] # <<>> => got[e][1] = 1

\* When the target of an fport closes, the host's application sees the end of
\* the stream, if the session stays up.
CloseReachesClient ==
    direction = "fport" /\ app["D"] = "closed" ~> eof["H"] \/ app["H"] = "closed" \/ ~alive

Freed == \A e \in End : ~sender[e] /\ reader[e] # "run" /\ writer[e] # "run"

\* Both applications have closed a connection that had been activated.
BothClosed ==
    app["H"] = "closed" /\ app["D"] = "closed" /\ pc[Acceptor] = "bridge"

\* Once both applications have closed, both ends of an fport's connection
\* are given up, if the session stays up: neither end keeps a task or an
\* entry in its map.
ClosedIsFreed == direction = "fport" /\ BothClosed ~> Freed \/ ~alive

\* run_rport_bridge says of its two tasks "Bidirectional data bridge (same as
\* fport)": what ClosedIsFreed says of an fport holds of an rport.
SameAsFport ==
    direction = "rport" /\ BothClosed ~> Freed \/ ~alive \/ rule # "there"

=============================================================================
