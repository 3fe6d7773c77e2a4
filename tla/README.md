# A verification project for hdc

TLA+ models of the host-side HDC server (`hdc/src/server.rs`), of the daemon
`hdcd` where it answers the server, and of the wire format between them. TLC
checks them on small instances. TLAPS proves theorems about the USB device
monitor, TCP sessions, client channels, transfers, forwarding rules and forwarded
connections, for every value of the constants. PROJECT.json lists every part of the system,
every run, every hazard and the source lines behind each definition. `server.rs`
below is `hdc/src/server.rs`; paths are relative to `src/`.

## The system and its parts

One server process holds sessions with devices and channels with clients.
They are tokio tasks that meet only in shared maps.

| part | source | modelled in |
|---|---|---|
| registry of devices, `ConnectMap` | server.rs | `ConnectMap` |
| writers, associations, keep-alive marks, `TcpMap` | server.rs | `TcpMap` |
| USB queues and receivers, `UsbMap` | server.rs | `UsbMap` |
| USB monitor, adoption, reconnect backoff | server.rs, usb.rs | `UsbMonitor` |
| what the registry promises of a device | (abstract) | `DeviceLifecycle` |
| client channels, dispatch, USB and TCP sessions | server.rs, client.rs | `ServerChannels` |
| TCP sessions: authentication, encryption, heartbeat, discovery | server.rs, hdcd/main.rs, task.rs, shell.rs | `TcpSession` |
| file send and recv, install, flash, erase | server.rs | `Transfer` |
| the daemon's file, app and flashd tasks | hdcd/file.rs, app.rs, flashd.rs, task.rs | `HdcdTasks` |
| fport and rport: rules | server.rs, hdcd/forward.rs | `PortForward` |
| fport and rport: connections | server.rs, hdcd/forward.rs | `ForwardBridge` |
| serialization | hdc-protocol/serializer.rs, config.rs | `Wire` |
| frames over TCP, USB and client channels | transfer/ | `Framing` |

The `MC...` modules hold the instances that TLC checks. The theorems are in the
`...Proofs` modules, in `TransferTypes` and in `ForwardBridgeBytes`.

## How the modules correspond to the code

**ConnectMap, TcpMap, UsbMap** have no state. Each method of the struct takes
its lock once, so each is an operator from the map before to the map after.
Only the fields some decision reads are kept. `take_channel_writer`
(interactive shell) is left out. All other modules but the codec use them, so
that a map means the same everywhere.

**UsbMonitor**: a round of `process_usb_device_changes` is `Enumerate`,
`DiffDevices`, one `ClearBackoff` per arrival, `LockKnown`, one `Skip` or
`Adopt` per device, `EndRound`. The round holds the `known_devices` lock from
`LockKnown` to `EndRound`; that is why `Release` is disabled there. A spawned
task is `SessionFails` or `Authenticated`, `ReadError`, `CleanupDone`, then
`Release` and `Record`, which are two critical sections in the code.
`target reconnect` of a USB key is two steps, `ReconnectLookup` and
`ReconnectRemove`. Time is counted in seconds: `reconnect[s].left` is
`next_attempt` minus now, and `lag` the time since the round read the clock.
`Plug`, `Unplug` and `Tick` are the environment.

**DeviceLifecycle** is the abstract specification: which moves the registry
entry of a USB device may make. `UsbMonitor` implements it by
`status <- [s \in Serial |-> Status(s)]`.

**ServerChannels** composes the three maps with the tasks that use them: a
handler per client channel (`handle_client` and the arms list, wait, keepalive,
target reconnect, track-jpid, jpid, uninstall and the default arm of
`dispatch_task`), the streamer task of track-jpid, and per session the task,
the USB writer task and the reader. A step is what a task does under one lock.
Steps are merged only where the comment at the definition says why
(`ReplyAndEnd`, `MaybeEndChannel`). Of an answer only the channel and whether
it closes the channel are kept. The server draws a random id for each session,
and no two are the same in the model. The daemon of a USB device may assign
another (`Assigned`), even one in use: then the two sessions share a place in
the maps, and `feeds` says which of them a queue leads to. Each track-jpid has
a receiver and a streamer of its own, since a second one replaces the
registration of the first and not its task. `UsbMonitor` shows that a serial
has one session task at a time; `SessionOpens` takes that as its guard.

**TcpSession** is `start_tcp_daemon_session` from the connection to the tasks
it spawns, against `handle_client` of hdcd or against a device that
authenticates in the other ways the code knows. A frame carries the mode it was
written in, plain or encrypted. Each side picks the mode from its own map of
ciphers (`ciphers`, `daemon_ciphers`) when it writes and when it reads. A frame read
in the other mode is noise. Keys and psks are usable or not; RSA and AES
themselves are outside. `Reconnect` and `Discover` are the two commands that
touch the registry entry from a client's channel. In hdcd, `forwards` has the
sessions for which forwarding tasks run. They hold the writer, and with it the
socket: a handler that returns leaves them behind (`"left"`), and the host is
told of the end only when the last is gone. `ShellInit` hands the link to the
shell bridge, which ends without removing the cipher.

**Transfer** is the handler of a client channel that runs one transfer after
another: `handle_server_file_send` and `_recv`, `handle_server_app_install`,
`handle_server_flashd`. The kinds differ in their opening messages, in what a
message means while they wait for the daemon's go (`Await`) and for its verdict
(`Verdict`); the steps are shared. A file is a sequence of numbered chunks. A
message carries a ghost tag, the transfer and the attempt it belongs to, which
no step reads: the properties use it to tell a late answer from a timely one.
The last six variables are history: what became of the transfer at hand, and
how many before it have failed.
The daemon is hdcd, translated in **HdcdTasks**, or that of a device, which is
not in this repository: its answers are the ones the handlers and their comments
name, with refusals and silence at any point. It has completed a transfer when it
confirms it with all the chunks of that transfer in order (`Whole`). The
deadlines of the handlers (`Timeout`) start again with every message. A daemon
that trickles messages for ever is outside the model, which lets it say only
so much. `ReplyToClient` includes the flush of file recv, which may fail.

**PortForward** is the setup of rules: fport with its two flows, the fallback
from the first to the second and the follow-up of a debugger's forward, rport
and its listener on the daemon, removal by `fport rm`, and `RemoveRulesOf`, which a
USB session's task runs after its cleanup. A TCP session's end leaves the rules.
Listeners are tasks that live on after the handler; an aborted one frees its
port when it is next polled (`ListenerStops`), and one whose accept fails ends
while its rule stays listed (`ListenerBreaks`). A command has a channel and a
turn there. The commands of a keep-alive channel follow each other and share its
registration and, in hdcd, its listener, so that each can disturb another. File
transfers and track-jpid appear as commands that register and unregister. Each
`HdcdSession` is with an hdcd of its own.

**ForwardBridge** is one connection through a rule, with both ends symmetric:
the host accepts and the daemon connects for fport, and the reverse for rport.
Each end has a reader, a writer and a sender in a map. The symmetry is that of
the code; where the ends differ (hdcd starts its reader before it answers, hdcd
tells of an end as soon as its reader ends, the host joins both tasks first) the
action says so. For fport hdcd stands for a device's daemon, since the host
bridges fport over USB only.

**Wire** has the serializer as functions from values to sequences of bytes and
back: varints, tags, fields and the five structures. **Framing** is a sender
and a reader of one stream of bytes: `concat_pack` and the TCP head, the USB
head with its dummy heads and soft resets, and the length prefix of client
channels. The reader takes exactly as many bytes as the code asks for. A link
has a sender and a receiver, since the host, hdcd and a device treat `FileData`
differently. What a device does is taken from what the host expects.

## Runs

| run | shows |
|---|---|
| monitor | `TypeOK`, `ExclusiveSession`, `RegistryTellsTruth`, `KnownIsOwned`, `FailureNeverShortensWait`, `ImplementsLifecycle`: one device, three tasks, the real constants 1 s and 30 s |
| liveness | `PluggedIsServed`, `UnpluggedIsForgotten`, `WillingIsConnected` |
| routes | `TypeOK`, `NoOrphanReceiver`: three commands on one channel, two of them streaming at once |
| device | `RightDevice`: two clients, a USB device that comes back under an id of its daemon's choice, a TCP device |
| release | `AssociatedIsClosed`, `TrackEnds`, `UninstallEnds`, `CloseGetsThrough`: a USB and a TCP device that may be lost at any step |
| session | `TypeOK`, `NoNoise`, `ConnectedIsRead`, `ConnectReturns`, `EndedIsForgotten`: two connections to one address, with and without encryption, forwards and shells |
| transfer | `TypeOK`, `SuccessIsReal`, `RetryNotSpoiled`, `RegisteredIsRead`, `TransferEnds`: two transfers in a row, empty files included, and three |
| forward | `TypeOK`, `ListedIsServed`, `ListenersAreListed`, `FailedHoldsNothing`, `SetupEnds`, `LostIsForgotten`: rules being set up and removed at once and in turn on one channel |
| bridge | `TypeOK`, `Contiguous`, `CloseReachesClient`, `ClosedIsFreed`: one connection, the rule removed or the session lost at any step |
| codec | `Intact`, `NoFalseAlarm`, `EverythingArrives`: messages at the boundaries of the encodings, between each pair of ends |
| hang | that a comment is not kept: `NoClientHangs` is violated |
| rport | that a comment is not kept: `SameAsFport` is violated |

**hang**: "Close all TCP client channels still associated with this session so
single-command clients (e.g. hdc shell pwd) don't hang forever" (server.rs:4818).
A request is accepted, the device is lost and its channels are closed, and then
the channel is associated (1669). It is closed by nobody.

**rport**: "Bidirectional data bridge (same as fport)" (server.rs:4200). Each end
of an rport connection joins its two tasks before it sends `ForwardFreeContext`,
and its writer ends only when the other's arrives. After both applications have
closed, each end waits for the other for ever.

**transfer**: `SuccessIsReal` needs its condition `failed <= 1`. The receiver is
registered by channel, and a channel that is kept alive outlives a transfer that
was given up, so late answers of one transfer reach the next. After one failure
this does no harm within the bounds. After two it does. The first transfer is given up before the daemon's go
arrives. The second goes ahead on that go and is given up in turn, so that its own go
and its end are still to come. The third takes both for its own: file send,
install and flash report a success that the daemon has not reached, file recv a
local file with another file's data. TLC finds this for each of the four when
the condition is dropped and three transfers are allowed.

### What the properties leave out

The code does not always do what one would like, and a property that holds says
where it stops.

* `NoOrphanReceiver`: between the receive loop of a task and its
  `unregister_response_channel` an answer still goes into the receiver, and is
  lost. The early return of track-jpid leaves a registration behind, but only
  when its client is gone or its channel closed.
* `RightDevice`: two daemons that assign one id make their sessions
  indistinguishable to the server.
* `NoNoise`: when hdcd's handler of an encrypted session returns it removes the
  cipher (`hdcd/src/main.rs:253`), and forwarding tasks it leaves behind write
  in the clear to a host that decrypts.
* `ConnectedIsRead` says that an entry has its session, not that a session has
  its entry: the reader of an older session with the same address, or discover,
  may take the entry of a live one.
* `EndedIsForgotten` starts when hdcd's end of the socket is closed. While an
  rport of the session holds the writer, a session whose handler has returned is
  still Connected and nobody answers in it. A handshake that fails at a
  write leaves the session's writer in the map (server.rs:1868, 1980).
* `ListedIsServed`: a later command of the same channel and device, or an earlier
  track-jpid, takes the registration of a rule (`Superseded`): its dispatcher
  then hears nothing. A listener whose accept failed stays listed.
* `ListenersAreListed`: rules of the same text share a key (`Replaced`). A
  listener of hdcd whose setup the host has given up, or whose session hdcd no
  longer reads, is out of reach.
* `LostIsForgotten` is about the rules listed when the device is lost.
* `SuccessIsReal`: file send and recv take a `KernelChannelClose` for success,
  erase takes a late `FlashdFinish` for its own, and see above for
  `failed <= 1`. hdcd ends a file send only by a `KernelChannelClose`: nothing is shown
  of those.
* `Intact` compares every payload byte for byte, and the decoded content where
  both ends mean the same by it; see below for `FileData`.

### Disagreements with comments and documents

Seen while modelling. The models behave as the code does; no run states the
comment.

* `hdc/src/parser.rs:111`, "reconnect <key> Reconnect USB device": server.rs:1370
  only removes the registry entry of a USB device; its session goes on unlisted.
* server.rs:4365, "remove from known so it can be re-adopted once its backoff
  expires": a round between the removal and the recording of the outcome
  (4367 and after) does not see that backoff.
* server.rs:4373, "reset backoff on clean disconnect, otherwise advance": a
  session that breaks after authentication also resets it (4383).
* server.rs:4313, "A freshly (re-)plugged device must reconnect immediately":
  the failure of its earlier session may be recorded after the backoff was
  cleared.
* server.rs:204, "Channels marked keep-alive will not be auto-closed": a
  `KernelChannelClose` closes them (4785).
* `docs/HDC_SERVER_SOCKET_PROTOCOL.md:129`, "Connected — Device is online and
  ready for commands": not after the writer task has failed (4717), nor
  before the session's queue is there (4704).
* server.rs:310, "so we can close it when the device disconnects": the end of a
  TCP session closes no channel (2107).
* server.rs:2478, "pre-creates slave task, no response": hdcd answers
  `KernelWakeupSlavetask` with an error (`hdcd/src/task.rs:138`), which file
  send takes for a refusal.
* server.rs:2601, "Wait for the final one": a `KernelChannelClose` before it is
  reported as success (2615).
* server.rs:2744: the header of a `FileData` whose offset is 2 MiB or more
  (below 256 MiB) has an odd length, its padding does not parse, and the chunk
  is written to the file with its header.
* The host sends `FileData` with a 64-byte header (2577-2580), which hdcd writes to
  the file (`hdcd/src/file.rs:336`). hdcd sends it without one (273): the host
  drops chunks below 64 bytes (2738) and cuts 64 bytes off the others, or
  writes them whole, as the bytes happen to parse or not.
* server.rs:4821, "so listeners do not keep accepting connections after
  disconnect": a rule inserted (3805, 4049) after the removal stays, with its
  listener. The rules of a TCP session are never removed by its end.

### Bounds

`Task` bounds the session tasks alive at once; two of one device can be (one
about to record its outcome, one adopted after it), and three let a third
follow. `FailureCap` stops the failure count where the backoff has reached its
maximum, which the assumption checks. `MaxLag` bounds the seconds of one
round. The monitor's runs have one device: the proofs cover any number.
`ListingFails` lets an enumeration miss devices. It is on in the monitor run.
In the liveness run it is off: it assumes that listing the bus works. The
proofs cover both. `Permutations(Task)` is used in the monitor run only, which
has no liveness property.

In `ServerChannels`, `MaxCommands` bounds what one client sends, and a device
has one or two sessions (two let it come back). `Streamer` bounds the streamers
a channel has at a time: two in the routes run, which is enough for one to
replace the registration of another, and one elsewhere, where a second
track-jpid waits for the first to end. In the device run the daemon of the
second session may assign the id of the TCP session; in the others the ids are
the server's.

In `TcpSession`, two sessions share one address, which is enough for one to
overwrite the entry of the other. `MAX_AUTH_ATTEMPTS` is 3 where the code has
10: the attempts differ only in their number. `MaxInFlight` bounds the frames
queued by tasks that may go on for ever (heartbeats, commands). The proofs
cover any number of each. `SessionEnvs` lists the combinations of encryption,
keys, daemon and commands.

In `Transfer`, a file has no chunk or two, so that chunks can be lost or come out of order,
an install has two packages, and two transfers follow each other on one
channel, so that the answers to the first can reach the second. A second mix has
three transfers (send, recv and flash, of one chunk), so that two can precede
the last. `faulty` is the set of kinds during which a device may fail after its go.

In `PortForward` there are nine mixes of two or three commands. Four have each
command on a channel of its own: two forwards from one local port with a removal,
a forward and a reverse rule with hdcd, a reverse rule with a removal of
everything, and a forward and a reverse rule with the same two ends. The last
shows why `ListenersAreListed` has the exception `Replaced`: `forward_map` has
one key for both, and the later entry replaces the earlier. Five have two commands
in turn on a keep-alive channel: two forwards, two reverse rules, a forward before a file
transfer, a forward after track-jpid, and a reverse rule after a file
transfer. In `ForwardBridge` an application writes up to
two bytes, the least that shows a gap or a swap. Connections of a rule do not
share anything but the link.

In `Framing`, two messages follow each other, since the state carried from one
to the next is what a reader can get wrong. The samples are at the boundaries:
absent and present fields, channel ids around 127 and 128, a string whose
length takes two bytes, frames that fill their last packet, chunks below and
beyond 2 MiB. The links are both directions of TCP with hdcd and of USB with a
device, and a client's channel. `MaxPacket` is 32 instead of 512 and more: only divisibility
matters. The models' bytes and integers stay below 2^31.

These instances are finite, so all runs but monitor and liveness allow the
system to stop (`CHECK_DEADLOCK FALSE`).

### Fairness

Monitor: the poll timer makes rounds go on (`WF MonitorStep`, `WF Tick`). A
task outside its read loop goes on by itself, since every wait there has a
timeout; inside the loop it is sure to move only when the device is gone.
`Release` needs strong fairness, because the monitor takes the lock again and
again; tokio's Mutex is handed out in the order of the requests.
`Willing(s)` says that a device asked often enough accepts: an assumption on
devices, not on the code, and the premise of `WillingIsConnected`.

Elsewhere: a tokio task that is not waiting goes on, and a wait with a deadline
ends. That is weak fairness of the handlers (`HandlerStep` of `Transfer`, a
setup of `PortForward` once it has begun, `Connecting` of `TcpSession`), of
readers and of cleanups (`Reading`, `RemoveRulesOf`, the tasks of a bridge, the
reader of `Framing`). In `ServerChannels` a client that reads the end of the
stream closes its socket. Nothing is assumed of devices: they need not answer,
links may stay up or break, and writes may fail. `ForwardBridge` assumes in
addition that both dispatchers read on while the session is up.

## Proofs

### UsbMonitorProofs

For every `Serial`, `Task`, `Reconnectable`, base, maximum and lag that satisfy
`ConstantsAssumption`:

* `TypeCorrect`: `Spec => []TypeOK`. The backoff's bound is the lemma
  `BackoffSchedule`.
* `Exclusive`: `Spec => [](ExclusiveSession /\ KnownIsOwned)`.
  `ExclusiveSession` alone is not inductive: `Adopt` tests `known`, so one has
  to know that `known` is the set of owned serials. `Ownership` says both.
* `KnownExactly`: `Spec => []KnownIsOwned`, the second half on its own.
* `Truthful`: `Spec => []RegistryTellsTruth`, which is inductive given
  `Ownership`: a task that writes an entry is the only one of its device.
* `Refinement`: `Spec => ImplementsLifecycle`. Each action maps to one abstract
  step or a stutter. `Ownership` and `RegistryTellsTruth` exclude the moves the
  abstract specification does not have; `OpenIsListed` says that only a
  reconnectable key can be missing while its device is being opened.
* `NeverShorter`: `Spec => FailureNeverShortensWait`, from the invariant
  `WaitBounded`: what is left of a wait never exceeds the backoff of its
  failure count, and the backoff grows with the count.

### TcpSessionProofs

For every `Session`, `Key`, set of environments, number of attempts and bound
on the frames in flight that satisfy `SessionAssumption`:

* `SessionTypes`: `Spec => []TypeOK`.
* `EntriesAreRead`: `Spec => []ConnectedIsRead`. It is inductive given the
  types: an entry is put before its reader is spawned, and a reader that ends
  removes the entry of its key whoever it names.
* `ModesAgree`: `Spec => []NoNoise`. The inductive invariant `Modes` says of
  each session either that nobody has a cipher and all frames are plain
  (`InTheClear`), or where in the exchange of the psk both sides are and in
  which mode each frame in flight was written (`Agreed`), and of each task
  whether it may write at all (`Senders`). The last is what keeps heartbeats,
  commands and forwarding tasks out of the frames around the switch. Nothing
  is said of a session whose forwarding tasks have outlived its handler.

### ServerChannelsProofs

For every set of devices, sessions, channels and commands and any `MaxCommands`
that satisfy the assumption of `ServerChannels`:

* `ChannelTypes`: `Spec => []TypeOK`. The invariant `Typed` also says which
  steps the arm of a command can be at, without which a handler could reach
  another arm's step.
* `RequestsAreRight`: `Spec => []RightDevice`. `Directed` follows the key
  through its three steps: the entries of `connect_map` hold ids of sessions of
  their own device, a handler between two steps holds an id of the device its
  client named, and a request that is queued or sent is with a session that
  goes by such an id. `Named` says that a sender in the map leads to a session
  that goes by the id it is under, also after two sessions took the same.
* `ReceiversAreRead`: `Spec => []NoOrphanReceiver`. `Attended` says of each
  registration which task has its receiver, from the registration to its
  withdrawal. It takes two more facts: a channel that has not connected has
  nothing registered, and no streamer has the receiver that a handler of
  track-jpid is about to start one with.

### PortForwardProofs

For every set of commands, devices, ports and mixes that satisfy the assumption
of `PortForward`:

* `ForwardTypes`, `RulesAreServed` and `FailureCleansUp`: `Spec => []TypeOK`,
  `[]ListedIsServed` and `[]FailedHoldsNothing`. One invariant, `Rules`, gives
  all three: which listener and which registration a handler holds at each step
  (`Suited`, `HandlersServed`), that no two listeners have one port
  (`PortsApart`), that the commands of a channel run one after another, so that
  only a later one or a track-jpid can take a registration (`InTurn`), and that
  an entry of `forward_map` is the one its handler put there when it was done
  (`Entries`).
* `ListenersReached`: `Spec => []ListenersAreListed`. On the host it is `Running`, a part
  of `Rules`. For hdcd's listeners `Reverse` looks ahead in the
  link: a `ForwardInit` on its way is that of a rule within reach or is followed
  by the close of its channel, and so is the listener that hdcd has.

### ForwardBridgeProofs, ForwardBridgeBytes

For any number of bytes and either direction:

* `BridgeTypes`: `Spec => []TypeOK`.
* `BytesInOrder`: `Spec => []Contiguous`. The inductive invariant is `Bridge`. `Flow` says
  that what an application has been given, what is queued for it and what is on
  the way to it continue each other without a gap, as far as the dispatcher
  still passes bytes on. `Sockets` says that what has not been read is the rest,
  `Phases` and `Messages` in which order the two ends start, and
  `ActivatedFirst` that no byte overtakes the activation of hdcd's waiting end.
  The steps that move bytes are in `ForwardBridgeBytes`, the others in
  `ForwardBridgeProofs`.

### TransferTypes, TransferProofs

For any number of transfers in any order, any sizes of files and packages, and
both daemons:

* `TransferTyping`: `Spec => []TypeOK`. The invariant `Typed` says more than the
  types: which steps a handler of each kind can be at and what it is sure of
  there (`Suits`), and what the queues hold.
* `MessagesAreTyped`: `Spec => []MailTyped`, the part of `Typed` about the queues:
  they hold only messages their sender can write, with the payload that goes
  with the command, late ones of earlier transfers included.
* `ReceiversAreRead`: `Spec => []RegisteredIsRead`, which needs only that an idle
  handler has nothing registered.
* `SecondAttempt`: `Spec => []RetryNotSpoiled`. A daemon that rejects a directory
  answers twice, with an error and with a close, and the handler may have sent its
  second `FileCheck` before the close arrives. The invariant `Retry` follows the answers of
  the first attempt through the link. On a channel whose transfers have not failed
  there is one `FileCheck` on its way or one answer to it, never both
  (`Handshake`); a device says nothing of an attempt before that `FileCheck`, and after
  a rejection nothing but a close (`FirstTry`, `SecondTry`); what is queued is
  of this transfer or of an earlier one (`Dated`). hdcd never rejects a directory, so it
  has no second attempt (`HdcdAccepts`).

### Only model-checked

* Every liveness property: fairness and `ENABLED` are out of the prover's reach.
* `SuccessIsReal` of `Transfer`. It is about late answers to earlier transfers. An
  inductive invariant would have to describe every queue that an
  interrupted transfer of each kind can leave behind for the next. Its bound is
  three transfers.
* The codec (`Intact`, `NoFalseAlarm`): the serializer and its parser are
  recursive over their input, and what they compute for every input takes an
  induction over data.

## Not modelled

* Interactive shell: `run_server_shell_bridge` talks over USB only, to the
  daemon of a device, which is not in this repository. hdcd's `shell.rs` is not
  reached from this host; `TcpSession` has it as far as it uses the link. What
  is left is terminal I/O.
* IDE protocol (`handle_deveco_client`): a pair of loopback sockets around
  `dispatch_task`, whose arms are modelled. Its own behaviour is a cut-off after two idle
  seconds, a matter of real time.
* The steps of the USB handshake: only whether it succeeds. The transfers of
  the USB library, which may be left behind by a timeout, lie under it.
* Cryptography; the effect of socket buffers that fill up.
* Commands that only read and answer: check-device, check-server, version,
  spawn-sub, fport ls. The parser, a pure function with unit tests of its own.
* In hdcd: `handle_daemon_file_send` and `handle_file_recv_init`, which answer
  messages this host does not send; shell and unity commands.
* Hotplug watchers (a hotplug event only starts a round, which `Enumerate` may
  do at any time), process start-up, examples and scripts.
