----------------------------- MODULE MCFraming -----------------------------
(***************************************************************************)
(* Instances of Framing for TLC: messages at the boundaries of the         *)
(* encodings.                                                              *)
(***************************************************************************)
EXTENDS Framing

Bytes(n) == [i \in 1..n |-> (37 * i) % 256]

\* A string, in ASCII: a Rust string is always UTF-8, which from_utf8 accepts.
Text(n) == [i \in 1..n |-> 32 + ((37 * i) % 95)]

Msg(channel, command, content) ==
    [channel_id |-> channel, command |-> command, content |-> content]

\* Handshake and FileCheck: absent fields, every field type, a string whose
\* length takes two bytes.
Handshakes == {Msg(0, 1, <<Text(2), 0, 0, <<>>, <<>>, Text(1)>>),
               Msg(0, 1, <<Text(2), 6, 2^28, Text(1), Text(130), <<>>>>)}

Checks == {Msg(300, 3001, <<2^30, 0, 127, <<>>, Text(1), Text(2), TRUE, 0, FALSE,
                            Text(1), <<>>, <<>>, <<>>>>)}

\* The chunks of a file below 2 MiB, and one beyond.
Chunk(offset, n) == Msg(128, 3003, <<<<offset, 0, n, n>>, Bytes(n)>>)

SmallChunks == {Chunk(0, 2), Chunk(523200, 1)}

LargeChunks == {Chunk(2092800, 1), Chunk(2616000, 1)}

\* Channel ids around the sizes of a varint, an empty payload, and frames
\* that fill a packet of 32 bytes exactly.
Plain == {Msg(0, 9, <<>>), Msg(127, 9, Bytes(15)), Msg(128, 9, Bytes(14))}

Ends(medium, a, b) == {[medium |-> medium, from |-> x[1], to |-> x[2]] : x \in {<<a, b>>, <<b, a>>}}

\* Client channels carry bytes either way alike.
Links == Ends("tcp", "host", "hdcd") \cup Ends("usb", "host", "device")
            \cup {[medium |-> "channel", from |-> "client", to |-> "host"]}

Samples == Handshakes \cup Checks \cup SmallChunks \cup LargeChunks \cup Plain

=============================================================================
