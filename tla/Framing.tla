------------------------------ MODULE Framing ------------------------------
(***************************************************************************)
(* Messages as a stream of bytes (transfer/tcp.rs and transfer/usb.rs of   *)
(* the host, transfer/tcp.rs of hdcd): a sender packs each message and     *)
(* writes it, and the reader takes the stream apart again with exact       *)
(* reads: read_frame and read_exact_from_usb gather pieces until they have *)
(* all the bytes, or fail when the link has broken.  A link has a medium   *)
(* and a direction.  The media:                                            *)
(*                                                                         *)
(*   tcp      host and daemon: PayloadHead, PayloadProtect, payload        *)
(*   usb      host and daemon: the same behind a UsbHead, with a dummy     *)
(*            head after a payload that fills its last packet              *)
(*   channel  client and server: a 4-byte length and the payload           *)
(*                                                                         *)
(* A message is a task message whose payload is a structure of Wire where  *)
(* the command has one, so that what the receiver works with is the result *)
(* of every conversion between the two ends.  The ends differ in FileData: *)
(* the host puts a header before the data and expects one, hdcd does       *)
(* neither, and a device, which is not in this repository, is taken to     *)
(* send what the host expects.                                             *)
(***************************************************************************)
EXTENDS Wire

CONSTANTS
    Link,            \* links to check: records [medium, from, to]
    Message,         \* what senders send: [channel_id, command, content]
    MaxSent,         \* bound on the messages of a behaviour
    MaxPacket        \* the bulk endpoint's max_packet_size

ASSUME FramingAssumption ==
    /\ Link \subseteq [medium : {"tcp", "usb", "channel"},
                      from : {"host", "hdcd", "device", "client"},
                      to : {"host", "hdcd", "device", "client"}]
    /\ MaxSent \in Nat
    \* a UsbHead is a short packet of its own
    /\ MaxPacket \in Nat /\ MaxPacket > HeadSize(UsbHead)

VARIABLES
    link,
    sent, got,       \* messages written, and messages the reader returned
    stream,          \* bytes written and not yet read
    want,            \* the exact read in progress: what it is for and its size
    broken           \* the link is gone: nothing follows what is in stream

vars == <<link, sent, got, stream, want, broken>>

-----------------------------------------------------------------------------
(* Contents of messages.                                                   *)

KernelHandshake == 1
FileCheck == 3001
FileData == 3003

\* A FileData content is <<header, data>>; a command without a structure has
\* its payload as content.
Encode(from, command, content) ==
    CASE command = KernelHandshake -> Serialize(SessionHandShake, content)
      [] command = FileCheck -> Serialize(TransferConfig, content)
      [] command = FileData ->
            (IF from = "hdcd" THEN <<>> ELSE PadHeader(Serialize(TransferPayload, content[1])))
                \o content[2]
      [] OTHER -> content

\* The bytes that handle_server_file_recv writes to its file.
HostWrites(payload) ==
    IF Len(payload) < 64 THEN <<>>
    ELSE IF Failed(Deserialize(TransferPayload, SubSeq(payload, 1, 64))) THEN payload
    ELSE SubSeq(payload, 65, Len(payload))

\* What an end makes of a payload: a FileData's is the bytes it writes.
Decode(to, command, payload) ==
    CASE command = KernelHandshake -> Deserialize(SessionHandShake, payload)
      [] command = FileCheck -> Deserialize(TransferConfig, payload)
      [] command = FileData -> [value |-> IF to = "host" THEN HostWrites(payload) ELSE payload]
      [] OTHER -> [value |-> payload]

Pack(m) == ConcatPack(TaskMessage(m.channel_id, m.command, Encode(link.from, m.command, m.content)))

-----------------------------------------------------------------------------
(* Writing.                                                                *)

USB_PACKET_FLAG == 85 * 256 + 66     \* "UB"
USB_OPTION_HEADER == 1
USB_OPTION_RESET == 2

BuildUsbHeader(option, size) == SerializeHead(UsbHead, <<USB_PACKET_FLAG, option, 7, size>>)

\* A message is at least a PayloadHead: its frame is never empty.
SendUsbRaw(frame) ==
    BuildUsbHeader(USB_OPTION_HEADER, Len(frame)) \o frame
        \o IF Len(frame) % MaxPacket = 0 THEN BuildUsbHeader(0, 0) ELSE <<>>

SendChannelMessage(payload) == BigEndian(Len(payload), 4) \o payload

Written(m) ==
    CASE link.medium = "tcp" -> Pack(m)
      [] link.medium = "usb" -> SendUsbRaw(Pack(m))
      [] link.medium = "channel" -> SendChannelMessage(m.content)

\* Clients are sent text and send it.
Send(m) ==
    /\ ~broken
    /\ link.medium = "channel" => m.command \notin {KernelHandshake, FileCheck, FileData}
    /\ Len(sent) < MaxSent
    /\ sent' = Append(sent, m)
    /\ stream' = stream \o Written(m)
    /\ UNCHANGED <<link, got, want, broken>>

\* send_usb_soft_reset: what a session starts with.
SendUsbSoftReset ==
    /\ link.medium = "usb" /\ link.from = "host" /\ ~broken
    /\ sent = <<>>
    /\ stream = <<>>
    /\ stream' = BuildUsbHeader(USB_OPTION_RESET, 0)
    /\ UNCHANGED <<link, sent, got, want, broken>>

\* The link breaks; of what was written the first n bytes still arrive.
Break(n) ==
    /\ ~broken
    /\ broken' = TRUE
    /\ stream' = SubSeq(stream, 1, n)
    /\ UNCHANGED <<link, sent, got, want>>

-----------------------------------------------------------------------------
(* Reading.                                                                *)

ReadHead(l) ==
    [of |-> "head", head |-> <<>>,
     size |-> CASE l.medium = "tcp" -> HeadSize(PayloadHead)
                [] l.medium = "usb" -> HeadSize(UsbHead)
                [] l.medium = "channel" -> 4]

Dead == [of |-> "dead", head |-> <<>>, size |-> 0]

\* The read after a head: the body, or the next head after a nop or reset
\* packet, which the session's loop ignores.  No size is above
\* HDC_BUF_MAX_SIZE, which is 2^31 - 1.
AfterHead(l, bytes) ==
    LET payload == UnpackPayloadHead(bytes)
        usb == DeserializeHead(UsbHead, bytes).value
        Body(n) == [of |-> "body", head |-> bytes, size |-> n]
    IN CASE l.medium = "channel" -> Body(FromBigEndian(bytes))
         [] l.medium = "tcp" -> IF Failed(payload) THEN Dead
                                ELSE Body(payload.head_size + payload.data_size)
         [] l.medium = "usb" -> IF usb[4] = 0 THEN ReadHead(l)
                                ELSE IF usb[2] % 2 = 0 THEN Dead ELSE Body(usb[4])

MessageOf(frame) == IF Failed(frame) THEN Error ELSE frame.message

\* The message in a complete frame, or Error.
Unpacked(l, head, body) ==
    CASE l.medium = "tcp" -> UnpackTaskMessage(head \o body)
      [] l.medium = "usb" -> MessageOf(UnpackFrame(body))
      [] l.medium = "channel" -> [payload |-> body]

ReadableStrict == want.of # "dead" /\ Len(stream) > want.size

Readable == want.of # "dead" /\ Len(stream) >= want.size

ReturnMessage(message) ==
    IF Failed(message) THEN want' = Dead /\ got' = got
    ELSE want' = ReadHead(link) /\ got' = Append(got, message)

ReadExact ==
    /\ Readable
    /\ LET bytes == SubSeq(stream, 1, want.size)
       IN IF want.of = "head"
          THEN want' = AfterHead(link, bytes) /\ got' = got
          ELSE ReturnMessage(Unpacked(link, want.head, bytes))
    /\ stream' = SubSeq(stream, want.size + 1, Len(stream))
    /\ UNCHANGED <<link, sent, broken>>

\* The link has broken and there is not enough left: read returns 0.
PeerShutdown ==
    /\ want.of # "dead"
    /\ broken /\ Len(stream) < want.size
    /\ want' = Dead
    /\ stream' = <<>>
    /\ UNCHANGED <<link, sent, got, broken>>

-----------------------------------------------------------------------------
Init ==
    /\ link \in Link
    /\ sent = <<>>
    /\ got = <<>>
    /\ stream = <<>>
    /\ want = ReadHead(link)
    /\ broken = FALSE

Next ==
    \/ \E m \in Message : Send(m)
    \/ SendUsbSoftReset
    \/ \E n \in 0..Len(stream) : Break(n)
    \/ ReadExact
    \/ PeerShutdown

\* The reader's task is scheduled when there is something to read: weak
\* fairness, with Readable for ENABLED ReadExact.
Spec ==
    /\ Init /\ [][Next]_vars
    /\ []<>~Readable \/ []<><<ReadExact>>_vars
    /\ WF_vars(PeerShutdown)

-----------------------------------------------------------------------------
\* The padding of a header is read as fields of two zero bytes each.
OddHeader(m) == Len(Serialize(TransferPayload, m.content[1])) % 2 = 1

\* The receiver makes of the payload what the sender put in.  For a FileData
\* that is so only from a device to the host, with a header of even length:
\* hdcd and the host disagree about the header, and one of odd length, as
\* those of the chunks from 2 MiB on, does not parse.
Understood(m) ==
    m.command = FileData => link.from = "device" /\ link.to = "host" /\ ~OddHeader(m)

Content(m) == IF m.command = FileData THEN m.content[2] ELSE m.content

\* Whatever dummy heads and resets lie between them, the reader returns the
\* messages that were sent, in order, byte for byte, each on its channel and
\* with its command, and of what Understood tells its receiver makes what the
\* sender put in (concat_pack, send_usb_raw and serialize against read_frame,
\* recv_usb_message and deserialize).
Intact ==
    /\ Len(got) <= Len(sent)
    /\ \A i \in DOMAIN got :
          LET g == got[i]  m == sent[i]
          IN /\ g.payload = Encode(link.from, m.command, m.content)
             /\ link.medium # "channel" => g.channel_id = m.channel_id /\ g.command = m.command
             /\ Understood(m) => Decode(link.to, m.command, g.payload) = [value |-> Content(m)]

\* A reader gives up only on a link that has broken, and then on a frame cut
\* short: no message of the protocol is taken for a bad frame.
NoFalseAlarm == want.of = "dead" => broken /\ stream = <<>>

\* Every message arrives unless the link breaks: neither side waits for bytes
\* the other does not send (the lengths in the heads are those of what
\* follows).
EverythingArrives == \A n \in 1..MaxSent : Len(sent) >= n ~> broken \/ Len(got) >= n

=============================================================================
