------------------------------ MODULE Transfer ------------------------------
(***************************************************************************)
(* The server's transfers: file send, file recv, install, flash and erase  *)
(* (handle_server_file_send, _file_recv, _app_install, install_single_hap  *)
(* and _flashd in server.rs) against a daemon.                             *)
(*                                                                         *)
(* One client channel, whose handler runs one transfer after another when  *)
(* the channel is kept alive, and one daemon session.  The handler, the    *)
(* session's reader, the daemon and the client run concurrently; the       *)
(* handler and the reader meet in the receiver registered in usb_map, and  *)
(* the links to and from the daemon are FIFO queues.                       *)
(*                                                                         *)
(* The daemon is either hdcd of this repository (HdcdTasks) or "device",   *)
(* the daemon of a real device, which is not in the repository: what it    *)
(* may answer is read off what the handlers wait for, in any combination,  *)
(* one request at a time.                                                  *)
(*                                                                         *)
(* A file is a number of chunks.  A message on a link is tagged with the   *)
(* transfer and the attempt or package it belongs to; no step reads a tag  *)
(* except to pass it on.                                                   *)
(***************************************************************************)
EXTENDS HdcdTasks, TcpMap, UsbMap

CONSTANTS
    Mix,             \* what the client asks of which daemon: see IsMix
    Haps             \* packages in one install

Sender == {"send", "install", "flash"}

IsMix(m) ==
    /\ m.daemons \subseteq {"device", "hdcd"}
    /\ m.links \subseteq {"usb", "tcp"}
    /\ m.kinds \subseteq Sender \cup {"recv", "erase"}
    /\ m.paths \subseteq {"plain", "dir", "spaced"}   \* "dir" is a directory
    /\ m.sizes \subseteq Nat                          \* of files, in chunks
    /\ m.transfers \in Nat                            \* bound on the transfers of the channel
    /\ m.faulty \subseteq m.kinds                     \* whose data the device may fail to take or give

ASSUME TransferAssumption ==
    /\ \A m \in Mix : IsMix(m)
    /\ Haps \in Nat \ {0}

VARIABLES
    mix,             \* what the client may ask for
    daemon, link,    \* which daemon, over which link
    tcp, usb,        \* tcp_map and usb_map
    client,          \* "open" or "gone"
    h,               \* the channel's handler
    inbox,           \* its receiver
    down, up,        \* messages on the way to the daemon and back
    alive,           \* the session's reader runs
    file_map,        \* hdcd's file tasks
    task,            \* the device's task: its tag and the chunks it has
    \* The history of the transfer at hand, and of those before it.
    stored,          \* its attempts and packages that the daemon has completed
    offered,         \* the size of the file the device sends it
    got,             \* the chunks it has written to its local file
    verdict,         \* how it was decided, and by what
    told,            \* the verdicts it has sent to the client
    failed           \* how many transfers before it have failed

hostvars == <<tcp, usb, h, inbox, got, verdict, told, failed>>
daemonvars == <<file_map, task, stored, offered>>
setting == <<mix, daemon, link>>
vars == <<setting, client, hostvars, down, up, alive, daemonvars>>

S == "session"
C == "channel"
Part == 1..2 \cup 1..Haps     \* the attempts of file send, the packages of install
NoTag == <<0, 0>>
NoTask == [kind |-> "none", tag |-> NoTag, size |-> 0, chunks |-> <<>>]
Undecided == [kind |-> "none", outcome |-> "none", retried |-> FALSE, tag |-> NoTag,
              command |-> "none"]

IdleAfter(n) ==
    [pc |-> "idle", n |-> n, kind |-> "none", path |-> "none", size |-> 0, part |-> 0, i |-> 0,
     retried |-> FALSE, finish_sent |-> FALSE, err |-> FALSE]

Task(command, payload) == TaskMessage(C, command, payload)
Tag == <<h.n, h.part>>

Init ==
    /\ mix \in Mix
    /\ daemon \in mix.daemons
    /\ link \in mix.links
    /\ \E keep_alive \in BOOLEAN :
          tcp = [EmptyTcpMap EXCEPT !.session_writers = IF link = "tcp" THEN {S} ELSE {},
                                    !.channel_writers = {C},
                                    !.keep_alive = IF keep_alive THEN {C} ELSE {}]
    /\ usb = IF link = "usb" THEN StartUsbSession(EmptyUsbMap, S) ELSE EmptyUsbMap
    /\ client = "open"
    /\ h = IdleAfter(0)
    /\ inbox = <<>> /\ down = <<>> /\ up = <<>>
    /\ alive = TRUE
    /\ file_map = EmptyMap
    /\ task = NoTask
    /\ stored = {}
    /\ offered = 0
    /\ got = <<>>
    /\ verdict = Undecided
    /\ told = <<>>
    /\ failed = 0

-----------------------------------------------------------------------------
(* Steps every transfer is made of.                                        *)

\* send_to_session: the TCP writer if the session has one, else the USB
\* sender.  A TCP write may fail; what is sent to a lost link is lost.
CanSend == S \in tcp.session_writers \/ S \in usb.session_senders
Send(m) ==
    /\ CanSend
    /\ down' = IF alive THEN Append(down, [tag |-> Tag, msg |-> m]) ELSE down
SendFails == S \notin usb.session_senders /\ UNCHANGED down

\* send_channel_message
ClientWrite == C \in tcp.channel_writers
ClientWriteFails == C \notin tcp.channel_writers \/ client = "gone"

Goto(pc) == h' = [h EXCEPT !.pc = pc]

Decide(outcome, tag, command) ==
    verdict' = [kind |-> h.kind, outcome |-> outcome, retried |-> h.retried, tag |-> tag,
                command |-> command]

\* An early return with Err: unregister, then the dispatcher reports it.
Fail(tag) ==
    /\ Decide("fail", tag, "none")
    /\ h' = [h EXCEPT !.pc = "unregister", !.err = TRUE]

TellClient(outcome) == told' = Append(told, outcome)

\* Two transfers of one channel never overlap: the handler is one task.  A
\* space matters only in the path of file recv, a directory only in that of
\* file send.
Begin(kind, path, size) ==
    /\ h.pc = "idle" /\ h.n < mix.transfers
    /\ client = "open" /\ C \in tcp.channel_writers
    /\ kind = "send" => path # "spaced"
    /\ kind = "recv" => path # "dir"
    /\ kind \notin {"send", "recv"} => path = "plain"
    /\ h' = [IdleAfter(h.n + 1) EXCEPT !.pc = "check", !.kind = kind, !.path = path,
                 !.size = IF kind \in Sender THEN size ELSE 0, !.part = 1, !.i = 1]
    /\ inbox' = <<>>
    /\ stored' = {} /\ offered' = 0 /\ got' = <<>> /\ verdict' = Undecided /\ told' = <<>>
    /\ failed' = IF verdict.outcome = "fail" THEN failed + 1 ELSE failed
    /\ UNCHANGED <<setting, tcp, usb, client, down, up, alive, file_map, task>>

\* Bad paths, no local file, nothing to install: before the receiver is
\* registered, except for flash.
CheckArguments ==
    /\ h.pc = "check"
    /\ \/ h.kind \in {"send", "recv", "install"} /\ Decide("fail", NoTag, "none")
          /\ Goto("report") /\ UNCHANGED usb
       \/ usb' = Register(usb, S, C, h.n) /\ Goto("open") /\ UNCHANGED verdict
    /\ UNCHANGED <<setting, tcp, client, inbox, down, up, alive, daemonvars, got, told, failed>>

-----------------------------------------------------------------------------
(* What distinguishes the kinds.                                           *)

\* The messages sent before the handler first waits.
OpenSend == <<Task("KernelWakeupSlavetask", <<>>),
              Task("FileCheck", <<h.size, h.path, IF h.retried THEN "name" ELSE "">>)>>
OpenRecv == <<Task("FileInit", IF h.path = "spaced" THEN <<"recv", "re", "mote", "local">>
                               ELSE <<"recv", "remote", "local">>)>>
OpenInstall == <<Task("AppInit", <<"">>), Task("AppCheck", <<h.size, "hap", "">>)>>
OpenFlash == <<Task("FlashdCheck", <<h.size, "image", "">>)>>
OpenErase == <<Task("FlashdErase", <<>>)>>

Opening ==
    CASE h.kind = "send" -> OpenSend
      [] h.kind = "recv" -> OpenRecv
      [] h.kind = "install" -> OpenInstall
      [] h.kind = "flash" -> OpenFlash
      [] h.kind = "erase" -> OpenErase

\* What a message means to a handler that waits for the daemon's go.
DirectoryError(m) == m.command = "KernelEcho" /\ m.payload = <<"directory">>

AwaitSendEager(m) ==
    CASE m.command = "FileBegin" -> "go"
      [] DirectoryError(m) /\ ~h.retried -> "retry"
      [] OTHER -> "fail"

AwaitSend(m) ==
    CASE m.command = "FileBegin" -> "go"
      [] DirectoryError(m) /\ ~h.retried -> "retry"
      [] h.retried /\ m.command \in {"KernelChannelClose", "KernelWakeupSlavetask"} -> "skip"
      [] OTHER -> "fail"

AwaitRecv(m) ==
    CASE m.command = "KernelWakeupSlavetask" -> "skip"
      [] m.command = "FileCheck" -> "go"
      [] OTHER -> "fail"

AwaitInstall(m) ==
    CASE m.command = "KernelWakeupSlavetask" -> "skip"
      [] m.command = "AppBegin" -> "go"
      [] OTHER -> "fail"

\* wait_flashd_response
AwaitFlash(m) ==
    CASE m.command = "KernelWakeupSlavetask" -> "skip"
      [] m.command = "FlashdBegin" -> "go"
      [] OTHER -> "fail"

Await(m) ==
    CASE h.kind = "send" -> AwaitSend(m)
      [] h.kind = "recv" -> AwaitRecv(m)
      [] h.kind = "install" -> AwaitInstall(m)
      [] h.kind = "flash" -> AwaitFlash(m)

\* A chunk, and what follows the last one; install_single_hap sends nothing.
DataSend == Task("FileData", <<h.n, h.i>>)
DataInstall == Task("AppData", <<h.n, h.i>>)
DataFlash == Task("FlashdData", <<h.n, h.i>>)

Data ==
    CASE h.kind = "send" -> DataSend
      [] h.kind = "install" -> DataInstall
      [] h.kind = "flash" -> DataFlash

FinishMessage == Task(IF h.kind = "flash" THEN "FlashdFinish" ELSE "FileFinish", <<1>>)

\* What a message means to a handler that has sent everything.  FileFinish
\* [1] only says that the daemon has written its last chunk.
VerdictSendAny(m) ==
    IF m.command \in {"FileFinish", "KernelChannelClose"} THEN "finish" ELSE "wait"

VerdictSend(m) ==
    CASE m.command = "FileFinish" ->
            IF m.payload = <<>> THEN "finish" ELSE IF m.payload[1] = 0 THEN "finish" ELSE "wait"
      [] m.command = "KernelChannelClose" -> "finish"
      [] OTHER -> "wait"

\* AppFinish is <<mode, result>>
VerdictInstall(m) ==
    CASE m.command = "AppFinish" ->
            IF Len(m.payload) >= 2 /\ m.payload[2] = 0 THEN "finish" ELSE "fail"
      [] m.command = "KernelChannelClose" -> "fail"
      [] OTHER -> "wait"

\* wait_flashd_finish: FlashdFinish is <<0, level>>
VerdictFlash(m) ==
    CASE m.command = "FlashdFinish" ->
            IF Len(m.payload) >= 2 /\ m.payload[2] = "Ok" THEN "finish" ELSE "fail"
      [] m.command = "KernelChannelClose" -> "fail"
      [] OTHER -> "wait"

Verdict(m) ==
    CASE h.kind = "send" -> VerdictSend(m)
      [] h.kind = "install" -> VerdictInstall(m)
      [] h.kind \in {"flash", "erase"} -> VerdictFlash(m)

-----------------------------------------------------------------------------
(* The handlers.                                                           *)

\* The package or image may be unreadable, which install and flash find out
\* once the receiver is registered.
OpenTransfer ==
    /\ h.pc = "open"
    /\ \/ /\ Send(Opening[h.i])
          /\ h' = IF h.i < Len(Opening) THEN [h EXCEPT !.i = @ + 1]
                  ELSE [h EXCEPT !.pc = IF h.kind = "erase" THEN "verdict" ELSE "await", !.i = 1]
          /\ UNCHANGED verdict
       \/ SendFails /\ Fail(NoTag)
       \/ /\ h.kind \in {"install", "flash"} /\ h.i = 1
          /\ Fail(NoTag) /\ UNCHANGED down
    /\ UNCHANGED <<setting, tcp, usb, client, inbox, up, alive, daemonvars, got, told, failed>>

Waiting == h.pc \in {"await", "verdict", "receive"}

\* A failure while file send waits for the verdict is reported in place.
GiveUp ==
    IF h.kind = "send" /\ h.pc = "verdict"
    THEN Decide("fail", NoTag, "none") /\ Goto("reply")
    ELSE Fail(NoTag)

\* 15 s for the go, 30, 60 or 120 s after it.  Most of these run anew for
\* every message: a daemon that keeps talking keeps such a handler waiting.
TimeoutNotInReceive ==
    /\ Waiting /\ h.pc # "receive" /\ GiveUp
    /\ UNCHANGED <<setting, tcp, usb, client, inbox, down, up, alive, daemonvars, got, told, failed>>

Timeout ==
    /\ Waiting /\ GiveUp
    /\ UNCHANGED <<setting, tcp, usb, client, inbox, down, up, alive, daemonvars, got, told, failed>>

\* The sender of the receiver was dropped with the session.
ResponseChannelClosed ==
    /\ Waiting /\ inbox = <<>> /\ ~Registered(usb, S, C) /\ GiveUp
    /\ UNCHANGED <<setting, tcp, usb, client, inbox, down, up, alive, daemonvars, got, told, failed>>

TakeGo ==
    /\ h.pc = "await" /\ inbox # <<>>
    /\ inbox' = Tail(inbox)
    /\ LET t == Head(inbox)
           answer == Await(t.msg)
       IN \/ /\ answer = "go"
             /\ h' = IF h.kind = "recv"
                     THEN [h EXCEPT !.pc = "create", !.size = t.msg.payload[1]]
                     ELSE [h EXCEPT !.pc = "stream"]
             /\ UNCHANGED verdict
          \/ /\ answer = "retry"
             /\ h' = [h EXCEPT !.pc = "open", !.i = 2, !.part = 2, !.retried = TRUE]
             /\ UNCHANGED verdict
          \/ answer = "skip" /\ UNCHANGED <<h, verdict>>
          \/ answer = "fail" /\ Fail(t.tag)
    /\ UNCHANGED <<setting, tcp, usb, client, down, up, alive, daemonvars, got, told, failed>>

\* One chunk at a time until the end of the file, which may be unreadable.
StreamData ==
    /\ h.pc = "stream"
    /\ \/ /\ h.i <= h.size /\ Send(Data)
          /\ h' = [h EXCEPT !.i = @ + 1] /\ UNCHANGED verdict
       \/ /\ h.i > h.size
          /\ IF h.kind = "install" THEN UNCHANGED down ELSE Send(FinishMessage)
          /\ Goto("verdict") /\ UNCHANGED verdict
       \/ (h.i <= h.size \/ h.kind # "install") /\ SendFails /\ Fail(NoTag)
       \/ h.i <= h.size /\ Fail(NoTag) /\ UNCHANGED down
    /\ UNCHANGED <<setting, tcp, usb, client, inbox, up, alive, daemonvars, got, told, failed>>

TakeVerdict ==
    /\ h.pc = "verdict" /\ inbox # <<>>
    /\ inbox' = Tail(inbox)
    /\ LET t == Head(inbox)
           answer == Verdict(t.msg)
       IN \/ answer = "wait" /\ UNCHANGED <<h, verdict>>
          \/ /\ answer = "finish"
             /\ Decide("finish", t.tag, t.msg.command) /\ Goto("reply")
          \/ answer = "fail" /\ Fail(t.tag)
    /\ UNCHANGED <<setting, tcp, usb, client, down, up, alive, daemonvars, got, told, failed>>

\* file recv creates the local file and asks for the data.
CreateLocalFile ==
    /\ h.pc = "create"
    /\ \/ Send(Task("FileBegin", <<>>)) /\ Goto("receive") /\ UNCHANGED verdict
       \/ SendFails /\ Fail(NoTag)
       \/ Fail(NoTag) /\ UNCHANGED down
    /\ UNCHANGED <<setting, tcp, usb, client, inbox, up, alive, daemonvars, got, told, failed>>

\* A message while file recv receives.  A FileData too short for a header is
\* skipped; one whose header does not parse is the matter of Framing.
TakeData ==
    /\ h.pc = "receive" /\ inbox # <<>>
    /\ inbox' = Tail(inbox)
    /\ LET t == Head(inbox)
           m == t.msg
           total == Len(got) + 1
       IN \/ /\ m.command = "FileData" /\ m.payload # <<>>
             /\ \/ /\ got' = Append(got, m.payload)
                   /\ h' = IF ~h.finish_sent /\ total >= h.size
                           THEN [h EXCEPT !.pc = "confirm"] ELSE h
                   /\ UNCHANGED verdict
                \/ Fail(NoTag) /\ UNCHANGED got
          \/ m.command = "FileData" /\ m.payload = <<>> /\ UNCHANGED <<h, verdict, got>>
          \/ /\ m.command = "FileFinish"
             /\ Decide("finish", t.tag, m.command)
             /\ Goto(IF m.payload = <<1>> THEN "acknowledge" ELSE "reply")
             /\ UNCHANGED got
          \/ /\ m.command = "KernelChannelClose"
             /\ Decide("finish", t.tag, m.command) /\ Goto("reply")
             /\ UNCHANGED got
          \/ /\ m.command = "KernelEcho"
             /\ \/ ClientWrite /\ UNCHANGED <<h, verdict>>
                \/ ClientWriteFails /\ Fail(NoTag)
             /\ UNCHANGED got
          \/ /\ m.command \notin {"FileData", "FileFinish", "KernelChannelClose", "KernelEcho"}
             /\ UNCHANGED <<h, verdict, got>>
    /\ UNCHANGED <<setting, tcp, usb, client, down, up, alive, daemonvars, told, failed>>

\* FileFinish [1] once everything has arrived.
ConfirmData ==
    /\ h.pc = "confirm"
    /\ \/ /\ Send(Task("FileFinish", <<1>>))
          /\ h' = [h EXCEPT !.pc = "receive", !.finish_sent = TRUE] /\ UNCHANGED verdict
       \/ SendFails /\ Fail(NoTag)
    /\ UNCHANGED <<setting, tcp, usb, client, inbox, up, alive, daemonvars, got, told, failed>>

\* FileFinish [0], for a daemon that finishes first.
AcknowledgeFinish ==
    /\ h.pc = "acknowledge"
    /\ \/ Send(Task("FileFinish", <<0>>)) /\ Goto("reply") /\ UNCHANGED verdict
       \/ SendFails /\ Fail(NoTag)
    /\ UNCHANGED <<setting, tcp, usb, client, inbox, up, alive, daemonvars, got, told, failed>>

LastPart == h.kind # "install" \/ h.part = Haps

\* The verdict goes to the client and maybe_end_channel follows; a package
\* that is not the last only gets its line.  A flash that cannot write its
\* line has succeeded all the same; file recv flushes its file first.
ReplyToClient ==
    /\ h.pc = "reply"
    /\ \/ /\ ClientWrite /\ LastPart
          /\ TellClient(verdict.outcome)
          /\ tcp' = MaybeEndChannel(tcp, C) /\ Goto("unregister") /\ UNCHANGED verdict
       \/ /\ ClientWrite /\ ~LastPart
          /\ h' = [h EXCEPT !.pc = "open", !.part = @ + 1, !.i = 1]
          /\ UNCHANGED <<tcp, told, verdict>>
       \/ /\ ClientWriteFails /\ h.kind \in {"flash", "erase"}
          /\ tcp' = MaybeEndChannel(tcp, C) /\ Goto("unregister") /\ UNCHANGED <<told, verdict>>
       \/ /\ ClientWriteFails /\ h.kind \notin {"flash", "erase"}
          /\ h' = [h EXCEPT !.pc = "unregister", !.err = TRUE] /\ UNCHANGED <<tcp, told, verdict>>
       \/ h.kind = "recv" /\ Fail(NoTag) /\ UNCHANGED <<tcp, told>>
    /\ UNCHANGED <<setting, usb, client, inbox, down, up, alive, daemonvars, got, failed>>

UnregisterOnSuccess ==
    /\ h.pc = "unregister"
    /\ usb' = IF h.err THEN usb ELSE Unregister(usb, S, C)
    /\ h' = IF h.err THEN [h EXCEPT !.pc = "report"] ELSE IdleAfter(h.n)
    /\ UNCHANGED <<setting, tcp, client, inbox, down, up, alive, daemonvars, got, verdict, told, failed>>

UnregisterReceiver ==
    /\ h.pc = "unregister"
    /\ usb' = Unregister(usb, S, C)
    /\ h' = IF h.err THEN [h EXCEPT !.pc = "report"] ELSE IdleAfter(h.n)
    /\ UNCHANGED <<setting, tcp, client, inbox, down, up, alive, daemonvars, got, verdict, told, failed>>

\* dispatch_task on Err: "[Fail]...", whether or not it can be written, and
\* maybe_end_channel.
ReportError ==
    /\ h.pc = "report"
    /\ \/ ClientWrite /\ TellClient("fail")
       \/ ClientWriteFails /\ UNCHANGED told
    /\ tcp' = MaybeEndChannel(tcp, C)
    /\ h' = IdleAfter(h.n)
    /\ UNCHANGED <<setting, usb, client, inbox, down, up, alive, daemonvars, got, verdict, failed>>

HandlerStep ==
    \/ CheckArguments \/ OpenTransfer \/ Timeout \/ ResponseChannelClosed \/ TakeGo
    \/ StreamData \/ TakeVerdict \/ CreateLocalFile \/ TakeData \/ ConfirmData
    \/ AcknowledgeFinish \/ ReplyToClient \/ UnregisterReceiver \/ ReportError

-----------------------------------------------------------------------------
(* The reader of the session, its end, and the client.                     *)

\* route_response, or else the channel itself: a KernelChannelClose ends it,
\* anything else is written to it.
RouteResponse ==
    /\ alive /\ up # <<>>
    /\ up' = Tail(up)
    /\ IF Registered(usb, S, C)
       THEN inbox' = Append(inbox, Head(up)) /\ UNCHANGED tcp
       ELSE /\ tcp' = IF Head(up).msg.command = "KernelChannelClose"
                      THEN EndChannel(tcp, C) ELSE tcp
            /\ UNCHANGED inbox
    /\ UNCHANGED <<setting, usb, client, h, down, alive, daemonvars, got, verdict, told, failed>>

\* A read error.  The end of a USB session drops the receivers, the end of a
\* TCP session leaves them.
SessionEnds ==
    /\ alive /\ alive' = FALSE
    /\ usb' = IF link = "usb" THEN EndSessionWithCleanup(usb, S) ELSE usb
    /\ tcp' = IF link = "tcp" THEN EndTcpSession(tcp, S) ELSE tcp
    /\ down' = <<>> /\ up' = <<>>
    /\ UNCHANGED <<setting, client, h, inbox, daemonvars, got, verdict, told, failed>>

ClientLeaves ==
    /\ client = "open" /\ client' = "gone"
    /\ UNCHANGED <<setting, hostvars, down, up, alive, daemonvars>>

-----------------------------------------------------------------------------
(* The daemon takes one message at a time.                                 *)

Stored(tag) == IF tag[1] = h.n THEN stored \cup {tag[2]} ELSE stored

\* It sends out, is left with new_task, and has completed the transfer if
\* done.
Answer(out, new_task, done) ==
    /\ up' = up \o [k \in 1..Len(out) |-> [tag |-> Head(down).tag, msg |-> out[k]]]
    /\ task' = new_task
    /\ stored' = IF done THEN Stored(Head(down).tag) ELSE stored
    /\ offered' = IF new_task.kind = "recv" /\ new_task.tag[1] = h.n
                  THEN new_task.size ELSE offered
    /\ UNCHANGED file_map

Failure == EchoClient(C, "failed")
Refusal == <<Failure, ChannelClose(C)>>
Wakeup == Task("KernelWakeupSlavetask", <<>>)
NewTask(kind, size) == [kind |-> kind, tag |-> Head(down).tag, size |-> size, chunks |-> <<>>]

\* Asked to take a file: refuses, or goes ahead.
DeviceCheck(m, kind, go) ==
    LET directory == m.payload[2] = "dir" /\ m.payload[3] = ""
    IN \/ /\ directory
          /\ \/ Answer(<<EchoClient(C, "directory"), ChannelClose(C)>>, NoTask, FALSE)
             \/ Answer(<<EchoClient(C, "directory")>>, NoTask, FALSE)
       \/ ~directory /\ Answer(<<go>>, NewTask(kind, m.payload[1]), FALSE)
       \/ ~directory /\ kind # "send" /\ Answer(<<Wakeup, go>>, NewTask(kind, m.payload[1]), FALSE)
       \/ ~directory /\ Answer(Refusal, NoTask, FALSE)

\* The task has the chunks of its own transfer, all of them and in order.
Whole(t) == t.chunks = [i \in 1..t.size |-> <<t.tag[1], i>>]

\* A chunk for the task at hand.  The last one of a package is followed by
\* the installation; the last one of a file may be confirmed.
DeviceData(m) ==
    \/ task = NoTask /\ Answer(<<>>, task, FALSE)
    \/ LET t == [task EXCEPT !.chunks = Append(@, m.payload)]
           last == Len(t.chunks) = t.size
       IN \/ task # NoTask /\ (last => task.kind # "install") /\ Answer(<<>>, t, FALSE)
          \/ last /\ task.kind = "send" /\ Answer(<<Task("FileFinish", <<1>>)>>, t, FALSE)
          \/ last /\ task.kind = "install" /\ Answer(<<Failure, Task("AppFinish", <<1, 1>>)>>, NoTask, FALSE)
          \/ last /\ task.kind = "install" /\ Answer(<<Task("AppFinish", <<1, 0>>)>>, NoTask, Whole(t))
          \/ task.kind \in mix.faulty /\ Answer(Refusal, NoTask, FALSE)

\* The host has sent or received everything, says the host: the device does
\* not count.
DeviceFinish(m) ==
    \/ task = NoTask /\ Answer(<<>>, task, FALSE)
    \/ /\ task.kind \in {"send", "recv"}
       /\ \/ Answer(<<Task("FileFinish", <<0>>), ChannelClose(C)>>, NoTask, Whole(task))
          \/ Answer(<<Task("FileFinish", <<0>>)>>, NoTask, Whole(task))
    \/ /\ task.kind = "flash"
       /\ \/ Answer(<<Task("FlashdProgress", <<50>>), Task("FlashdFinish", <<0, "Ok">>)>>, NoTask, Whole(task))
          \/ Answer(<<Task("FlashdFinish", <<0, "Fail">>)>>, NoTask, FALSE)

\* Asked to send a file.
DeviceInit(m) ==
    \/ \E size \in mix.sizes :
          Answer(<<Wakeup, Task("FileCheck", <<size, "remote", "">>)>>, NewTask("recv", size), FALSE)
    \/ Answer(Refusal, NoTask, FALSE)

\* The host is ready: all the chunks, after a short one and before a
\* FileFinish of its own perhaps, or the chunks before a failure.
DeviceBegin(m) ==
    LET First(k) == [i \in 1..k |-> Task("FileData", <<task.tag[1], i>>)]
    IN \/ task.kind # "recv" /\ Answer(<<>>, task, FALSE)
       \/ task.kind = "recv" /\ Answer(First(task.size), task, FALSE)
       \/ /\ task.kind = "recv"
          /\ Answer(<<Task("FileData", <<>>)>> \o First(task.size) \o <<Task("FileFinish", <<1>>)>>,
                    task, FALSE)
       \/ /\ task.kind = "recv" /\ "recv" \in mix.faulty
          /\ \E k \in 0..task.size : Answer(First(k) \o Refusal, NoTask, FALSE)

DeviceErase(m) ==
    \/ Answer(<<Task("FlashdFinish", <<0, "Ok">>)>>, task, TRUE)
    \/ Answer(<<Task("FlashdFinish", <<0, "Fail">>)>>, task, FALSE)

DeviceTakes(m) ==
    \/ m.command = "FileCheck" /\ DeviceCheck(m, "send", Task("FileBegin", <<>>))
    \/ m.command = "AppCheck" /\ DeviceCheck(m, "install", Task("AppBegin", <<>>))
    \/ m.command = "FlashdCheck" /\ DeviceCheck(m, "flash", Task("FlashdBegin", <<>>))
    \/ m.command \in {"FileData", "AppData", "FlashdData"} /\ DeviceData(m)
    \/ m.command \in {"FileFinish", "FlashdFinish"} /\ m.payload = <<1>> /\ DeviceFinish(m)
    \/ m.command = "FileInit" /\ DeviceInit(m)
    \/ m.command = "FileBegin" /\ DeviceBegin(m)
    \/ m.command = "FlashdErase" /\ DeviceErase(m)
    \/ /\ \/ m.command \in {"KernelWakeupSlavetask", "AppInit"}
          \/ m.command = "FileFinish" /\ m.payload = <<0>>
       /\ Answer(<<>>, task, FALSE)

\* hdcd (HdcdTasks), which has no failure but those of its file system.
HdcdTakes(m) ==
    \E ok \in BOOLEAN :
       LET e == HdcdDispatch(file_map, m, ok)
       IN /\ ok \/ m.command \in {"FileBegin", "FileData", "AppData"}
          /\ file_map' = e.file_map
          /\ up' = up \o [k \in 1..Len(e.out) |-> [tag |-> Head(down).tag, msg |-> e.out[k]]]
          /\ stored' = IF m.command \in {"FlashdFinish", "FlashdErase"}
                       THEN Stored(Head(down).tag) ELSE stored
          /\ UNCHANGED <<task, offered>>

DaemonTakes ==
    /\ alive /\ down # <<>>
    /\ down' = Tail(down)
    /\ \/ daemon = "device" /\ DeviceTakes(Head(down).msg)
       \/ daemon = "hdcd" /\ HdcdTakes(Head(down).msg)
    /\ UNCHANGED <<setting, client, hostvars, alive>>

-----------------------------------------------------------------------------
Next ==
    \/ \E kind \in mix.kinds, path \in mix.paths, size \in mix.sizes : Begin(kind, path, size)
    \/ HandlerStep
    \/ RouteResponse \/ SessionEnds \/ ClientLeaves
    \/ DaemonTakes

\* The handler is a tokio task and all its waits have deadlines.
Spec == Init /\ [][Next]_vars /\ WF_vars(HandlerStep)

-----------------------------------------------------------------------------
(* Properties.                                                             *)

HandlerPc == {"idle", "check", "open", "await", "stream", "verdict", "create", "receive",
              "confirm", "acknowledge", "reply", "unregister", "report"}

\* Every task is at one of its steps, the handler's counters stay within the
\* file and the packages, and the maps name only this session and this channel
\* (server.rs:2561, 2851).
TypeOK ==
    /\ tcp.session_writers \subseteq {S} /\ tcp.channel_writers \subseteq {C}
    /\ usb.session_senders \subseteq {S}
    /\ DOMAIN usb.response_channels \subseteq {<<S, C>>}
    /\ h.pc \in HandlerPc /\ h.n \in 0..mix.transfers
    /\ h.i \in 0..h.size + 2 /\ h.part \in {0} \cup Part
    /\ DOMAIN file_map \subseteq {C}
    /\ stored \subseteq Part
    /\ verdict.outcome \in {"none", "finish", "fail"} /\ told \in Seq({"finish", "fail"})
    /\ failed \in 0..h.n

\* The attempt or the packages that matter have been completed.
Completed ==
    CASE verdict.kind = "recv" -> got = [i \in 1..offered |-> <<h.n, i>>]
      [] verdict.kind = "install" -> 1..Haps \subseteq stored
      [] verdict.kind \in {"send", "flash", "erase"} -> stored # {}

\* When the server tells a client that a transfer has finished, the daemon
\* has completed that very transfer, or the local file holds all of it in
\* order, whatever late answers of earlier transfers of the channel were
\* routed to its receiver: a late FileCheck with another file's size, say.
\* This takes a channel on which at most one earlier transfer has failed.
\* No answer says which transfer it belongs to: the first one given up may
\* leave its go behind, the second goes ahead on that and may leave its go
\* and its end behind, and the third takes both for its own.
\* Two decisions are left out: file send and file
\* recv also take KernelChannelClose for the end of the transfer, and erase,
\* which waits for no go, takes a late FlashdFinish for its own.
SuccessIsReal ==
    /\ told = <<"finish">>
    /\ verdict.command # "KernelChannelClose"
    /\ verdict.kind = "erase" => verdict.tag[1] = h.n
    /\ failed <= 1
    => Completed

\* What the daemon still says after it has rejected a directory never fails
\* the second attempt of file send under the completed name.  Only a channel
\* whose earlier transfers have failed can have a late answer start the
\* second attempt.
RetryNotSpoiled ==
    /\ verdict.kind = "send" /\ verdict.outcome = "fail"
    /\ failed = 0
    => verdict.tag # <<h.n, 1>> \/ ~verdict.retried

\* A receiver is registered only while its handler runs: between transfers a
\* daemon's message reaches the client and is not swallowed.
RegisteredIsRead == Registered(usb, S, C) => h.pc \notin {"idle", "check", "report"}

\* A transfer ends, whatever the daemon, the link and the client do: the
\* handler is idle again and again.
TransferEnds == []<>(h.pc = "idle")

=============================================================================
