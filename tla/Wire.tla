-------------------------------- MODULE Wire --------------------------------
(***************************************************************************)
(* The bytes of the protocol (serializer.rs): fixed big-endian heads, the  *)
(* protobuf-like encoding of the other structures, and the packing of a    *)
(* task message.  A byte is a number in 0..255 and a string a sequence of  *)
(* bytes.  A structure is a table of its fields, so that one pair of       *)
(* operators stands for the serialize and deserialize methods that the     *)
(* source writes out for each structure.  A value is a function from field *)
(* numbers.  Decoding returns Error where the source returns Err.          *)
(*                                                                         *)
(* Values stay below 2^31, the largest integer TLC computes with; a varint *)
(* of more bits is cut to its width group by group (ReadVarint).           *)
(***************************************************************************)
EXTENDS Integers, Sequences, SequencesExt, FiniteSetsExt

Error == [error |-> TRUE]

Failed(result) == DOMAIN result = {"error"}

-----------------------------------------------------------------------------
(* Varints.                                                                *)

WriteVarint[v \in Nat] ==
    IF v < 128 THEN <<v>> ELSE <<(v % 128) + 128>> \o WriteVarint[v \div 128]

\* The groups from index off to last; next is the index after them.
VarintUpTo(bytes, off, last, width) ==
    LET Group(i) == LET shift == 7 * (i - off)
                    IN (bytes[i] % 2^Min({7, width - shift})) * 2^shift
    IN IF 7 * (last - off) >= width THEN Error
       ELSE [value |-> MapThenSumSet(Group, off..last), next |-> last + 1]

ReadVarint(bytes, off, width) ==
    IF \A i \in off..Len(bytes) : bytes[i] >= 128 THEN Error
    ELSE VarintUpTo(bytes, off, Min({i \in off..Len(bytes) : bytes[i] < 128}), width)

-----------------------------------------------------------------------------
(* Tagged fields.                                                          *)

Wire == [varint |-> 0, fixed64 |-> 1, delimited |-> 2, fixed32 |-> 5]

\* The field types: "always" is a u8 that is written even when it is 0.
FieldType == {"u32", "u64", "bool", "u8", "always", "str"}

Default(type) == CASE type = "str" -> <<>> [] type = "bool" -> FALSE [] OTHER -> 0

MakeTag(field_number, wire_type) == field_number * 8 + wire_type

WriteTag(field_number, wire_type) == WriteVarint[MakeTag(field_number, wire_type)]

WriteFieldRawLength(field_number, type, value) ==
    CASE type # "always" /\ value = Default(type) -> <<>>
      [] type \in {"u32", "u64"} ->
            WriteTag(field_number, Wire.varint) \o WriteVarint[value]
      [] type = "bool" -> WriteTag(field_number, Wire.varint) \o <<1>>
      [] type \in {"u8", "always"} -> WriteTag(field_number, Wire.varint) \o <<value>>
      [] type = "str" -> WriteTag(field_number, Wire.delimited) \o <<Len(value) % 256>> \o value

\* A u8 is pushed as one raw byte, a bool as the byte 1.
WriteField(field_number, type, value) ==
    CASE type # "always" /\ value = Default(type) -> <<>>
      [] type \in {"u32", "u64"} ->
            WriteTag(field_number, Wire.varint) \o WriteVarint[value]
      [] type = "bool" -> WriteTag(field_number, Wire.varint) \o <<1>>
      [] type \in {"u8", "always"} -> WriteTag(field_number, Wire.varint) \o <<value>>
      [] type = "str" ->
            WriteTag(field_number, Wire.delimited) \o WriteVarint[Len(value)] \o value

\* The len.value bytes after a length.
TakeString(bytes, len) ==
    IF Failed(len) THEN Error
    ELSE IF len.next + len.value > Len(bytes) + 1 THEN Error
    ELSE [value |-> SubSeq(bytes, len.next, len.next + len.value - 1),
          next |-> len.next + len.value]

ReadString(bytes, off) == TakeString(bytes, ReadVarint(bytes, off, 32))

\* What is made of a number that was read.
Narrow(type, number) ==
    CASE Failed(number) -> Error
      [] type = "bool" -> [number EXCEPT !.value = @ # 0]
      [] type \in {"u8", "always"} -> [number EXCEPT !.value = @ % 256]
      [] OTHER -> number

ReadField(type, wire_type, bytes, off) ==
    IF wire_type # (IF type = "str" THEN Wire.delimited ELSE Wire.varint) THEN Error
    ELSE IF type = "str" THEN ReadString(bytes, off)
    ELSE Narrow(type, ReadVarint(bytes, off, IF type = "u64" THEN 64 ELSE 32))

\* An unknown field.  The skipped bytes need not be there.
SkipDelimited(len) == IF Failed(len) THEN Error ELSE [len EXCEPT !.next = @ + len.value]

SkipField(wire_type, bytes, off) ==
    CASE wire_type = Wire.varint -> ReadVarint(bytes, off, 64)
      [] wire_type = Wire.fixed64 -> [value |-> 0, next |-> off + 8]
      [] wire_type = Wire.delimited -> SkipDelimited(ReadVarint(bytes, off, 32))
      [] wire_type = Wire.fixed32 -> [value |-> 0, next |-> off + 4]
      [] OTHER -> Error

-----------------------------------------------------------------------------
(* Structures: the types of fields 1, 2, ...                               *)

SessionHandShake == <<"str", "always", "u32", "str", "str", "str">>
PayloadProtect == <<"u32", "u32", "u8", "u8">>
TransferConfig == <<"u64", "u64", "u64", "str", "str", "str", "bool", "u8", "bool",
                    "str", "str", "str", "str">>
FileMode == <<"u64", "u64", "u64", "str", "str">>
TransferPayload == <<"u64", "u8", "u32", "u32">>

Serialize(struct, value) ==
    FlattenSeq([i \in DOMAIN struct |-> WriteField(i, struct[i], value[i])])

\* The loop of deserialize: from off on, with what has been read in value.
RECURSIVE Parse(_, _, _, _)

AfterField(struct, bytes, value, number, field) ==
    IF Failed(field) THEN Error
    ELSE Parse(struct, bytes, field.next,
               IF number \in DOMAIN struct THEN [value EXCEPT ![number] = field.value] ELSE value)

AfterTag(struct, bytes, value, tag) ==
    IF Failed(tag) THEN Error
    ELSE LET number == tag.value \div 8
         IN AfterField(struct, bytes, value, number,
                       IF number \in DOMAIN struct
                       THEN ReadField(struct[number], tag.value % 8, bytes, tag.next)
                       ELSE SkipField(tag.value % 8, bytes, tag.next))

Parse(struct, bytes, off, value) ==
    IF off > Len(bytes) THEN [value |-> value]
    ELSE AfterTag(struct, bytes, value, ReadVarint(bytes, off, 32))

Deserialize(struct, bytes) ==
    Parse(struct, bytes, 1, [i \in DOMAIN struct |-> Default(struct[i])])

-----------------------------------------------------------------------------
(* Fixed heads: the place and the width of each field, in bytes.           *)

\* flag, reserve, protocol_ver, head_size, data_size
PayloadHead == <<<<1, 2>>, <<3, 2>>, <<5, 1>>, <<6, 2>>, <<8, 4>>>>
\* flag, option, session_id, data_size
UsbHead == <<<<1, 2>>, <<3, 1>>, <<4, 4>>, <<8, 4>>>>
\* flag, option, session_id, data_size, package_index, data_checksum, head_checksum
UartHead == <<<<1, 2>>, <<3, 2>>, <<5, 4>>, <<9, 4>>, <<13, 4>>, <<17, 4>>, <<21, 4>>>>

HeadSize(head) == LET last == head[Len(head)] IN last[1] + last[2] - 1

BigEndian(value, width) == [i \in 1..width |-> (value \div 256^(width - i)) % 256]

FromBigEndian(bytes) ==
    MapThenSumSet(LAMBDA i : bytes[i] * 256^(Len(bytes) - i), DOMAIN bytes)

SerializeHead(head, value) ==
    FlattenSeq([i \in DOMAIN head |-> BigEndian(value[i], head[i][2])])

DeserializeHead(head, bytes) ==
    IF Len(bytes) < HeadSize(head) THEN Error
    ELSE [value |-> [i \in DOMAIN head |->
             FromBigEndian(SubSeq(bytes, head[i][1], head[i][1] + head[i][2] - 1))]]

-----------------------------------------------------------------------------
(* Task messages.                                                          *)

PACKET_FLAG == 72 * 256 + 87     \* "HW"
PAYLOAD_VCODE == 9

HdcCommandShort ==
    (0..21 \ {3}) \cup (1000..1012) \cup {1200, 2000, 2001} \cup (2500..2512)
        \cup (3500..3505) \cup (4000..4008) \cup {5000, 6000}

\* The command numbers that try_from knows.
HdcCommand ==
    (0..21 \ {3}) \cup (1000..1012) \cup {1200, 2000, 2001} \cup (2500..2512)
        \cup (3000..3008) \cup (3500..3505) \cup (4000..4008) \cup {5000, 6000}

TaskMessage(channel_id, command, payload) ==
    [channel_id |-> channel_id, command |-> command, payload |-> payload]

ConcatPack(msg) ==
    LET protect == Serialize(PayloadProtect, <<msg.channel_id, msg.command, 0, PAYLOAD_VCODE>>)
    IN SerializeHead(PayloadHead, <<PACKET_FLAG, 0, 1, Len(protect), Len(msg.payload)>>)
          \o protect \o msg.payload

\* What follows the head of a frame: the sizes of its two parts.
PayloadSizes(head) ==
    IF Failed(head) THEN Error
    ELSE IF head.value[1] # PACKET_FLAG THEN Error
    ELSE [head_size |-> head.value[4], data_size |-> head.value[5]]

UnpackPayloadHead(bytes) == PayloadSizes(DeserializeHead(PayloadHead, bytes))

\* A frame whose PayloadProtect has been read, and whose payload is data.
UnpackProtected(protect, data) ==
    IF Failed(protect) THEN Error
    ELSE IF protect.value[2] \notin HdcCommand THEN Error
    ELSE [v_code |-> protect.value[4],
          message |-> TaskMessage(protect.value[1], protect.value[2], data)]

UnpackSized(bytes, head) ==
    LET start == HeadSize(PayloadHead) + head.head_size
    IN IF Failed(head) THEN Error
       ELSE IF start + head.data_size > Len(bytes) THEN Error
       ELSE UnpackProtected(
               Deserialize(PayloadProtect, SubSeq(bytes, HeadSize(PayloadHead) + 1, start)),
               SubSeq(bytes, start + 1, start + head.data_size))

\* The parts of a whole frame, as recv_usb_message takes it apart.
UnpackFrame(bytes) == UnpackSized(bytes, UnpackPayloadHead(bytes))

\* The frame of a TCP session: neither empty nor without its vcode.
Accepted(head, frame) ==
    IF Failed(frame) THEN Error
    ELSE IF head.head_size + head.data_size = 0 \/ frame.v_code # PAYLOAD_VCODE THEN Error
    ELSE frame.message

UnpackTaskMessage(bytes) == Accepted(UnpackPayloadHead(bytes), UnpackFrame(bytes))

-----------------------------------------------------------------------------
(* The payloads of the commands that carry a structure.                    *)

Zeros(n) == [i \in 1..n |-> 0]

\* FileData: the structure in the first 64 bytes, padded with zeros.
PadHeader(header) == header \o Zeros(64 - Len(header))

=============================================================================
