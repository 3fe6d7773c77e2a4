---------------------------- MODULE TransferTypes ----------------------------
(***************************************************************************)
(* Proofs about transfers, for any number of them on a channel, any files  *)
(* and packages, against either daemon: the types, and that a receiver is  *)
(* registered while its handler runs.                                      *)
(***************************************************************************)
EXTENDS Transfer, TLAPS

-----------------------------------------------------------------------------
(* The types of the parts of the state.                                    *)

IsRecord(r, fields) == DOMAIN r = fields /\ r = [f \in fields |-> r[f]]

Command ==
    {"KernelWakeupSlavetask", "KernelEcho", "KernelChannelClose",
     "FileInit", "FileCheck", "FileBegin", "FileData", "FileFinish",
     "AppInit", "AppCheck", "AppBegin", "AppData", "AppFinish", "FlashdCheck",
     "FlashdBegin", "FlashdData", "FlashdProgress", "FlashdFinish", "FlashdErase"}

Word ==
    {"", "recv", "remote", "re", "mote", "local", "hap", "image", "name", "plain", "dir",
     "spaced", "none", "directory", "failed", "unknown", "Ok", "Fail"}

Text == Nat \cup Word

Message == [channel_id : {C}, command : Command, payload : Seq(Text)]

\* What the host sends, and what a daemon answers.
Parsed(k, p) ==
    /\ k = "FileInit" => p \in {<<"recv", "re", "mote", "local">>, <<"recv", "remote", "local">>}
    /\ k = "AppInit" => p = <<"">>
    /\ k \in {"FileCheck", "AppCheck", "FlashdCheck"} => p[1] \in Nat
    /\ k \in {"AppCheck", "FlashdCheck"} => p[2] # "dir"

Request == {m \in Message : Parsed(m.command, m.payload)}
Response == {m \in Message : m.command = "FileCheck" => m.payload[1] \in Nat}

Letter(messages) == [tag : Nat \X Part, msg : messages]

Kinds == Sender \cup {"recv", "erase"}

Handler ==
    [pc : HandlerPc, n : Nat, kind : Kinds \cup {"none"},
     path : {"none", "plain", "dir", "spaced"}, size : Nat, part : {0} \cup Part, i : Nat,
     retried : BOOLEAN, finish_sent : BOOLEAN, err : BOOLEAN]

MapsTyped ==
    /\ IsRecord(usb, {"session_senders", "response_channels"})
    /\ usb.session_senders \subseteq {S}
    /\ DOMAIN usb.response_channels \subseteq {<<S, C>>}
    /\ IsRecord(tcp, {"session_writers", "channel_writers", "channel_sessions", "keep_alive"})
    /\ tcp.session_writers \subseteq {S} /\ tcp.channel_writers \subseteq {C}

\* Where the handler of a kind can be, and with what counters.
Suits(x) ==
    /\ x.pc # "idle" => x.kind \in Kinds /\ x.part \in Part /\ x.n # 0
    /\ x.kind = "install" => x.part \in 1..Haps
    /\ x.kind = "send" => x.part = IF x.retried THEN 2 ELSE 1
    /\ x.kind # "send" => ~x.retried
    /\ x.pc = "check" => ~x.retried /\ x.i = 1
    /\ x.pc = "open" => x.i \in {1, 2} /\ (x.kind \in {"recv", "flash", "erase"} => x.i = 1)
    /\ x.pc = "open" /\ x.retried => x.i = 2
    /\ x.pc = "await" => x.kind # "erase" /\ x.i = 1
    /\ x.pc = "stream" => x.kind \in Sender
    /\ x.pc = "verdict" => x.kind # "recv"
    /\ x.pc \in {"create", "receive", "confirm", "acknowledge"} => x.kind = "recv"
    /\ x.i \in 0..x.size + 2

HandlerTyped ==
    /\ mix \in Mix /\ daemon \in {"device", "hdcd"}
    /\ h \in Handler /\ Suits(h) /\ h.n \in 0..mix.transfers
    /\ failed \in 0..h.n

MailTyped ==
    /\ down \in Seq(Letter(Request))
    /\ up \in Seq(Letter(Response)) /\ inbox \in Seq(Letter(Response))

DeviceTask == [kind : Kinds \cup {"none"}, tag : Nat \X ({0} \cup Part), size : Nat,
               chunks : Seq(Seq(Text))]

DaemonTyped ==
    /\ DOMAIN file_map \subseteq {C}
    /\ task \in DeviceTask
    /\ stored \subseteq Part

HistoryTyped ==
    /\ verdict \in [kind : Kinds \cup {"none"}, outcome : {"none", "finish", "fail"},
                    retried : BOOLEAN, tag : Nat \X ({0} \cup Part),
                    command : Command \cup {"none"}]
    /\ told \in Seq({"finish", "fail"})
    /\ h.pc \in {"acknowledge", "reply"} => verdict.outcome # "none"

Typed == MapsTyped /\ HandlerTyped /\ MailTyped /\ DaemonTyped /\ HistoryTyped

\* A receiver is registered while the handler runs.
Attended == Registered(usb, S, C) => h.pc \notin {"idle", "check", "report"}

-----------------------------------------------------------------------------
(* Queues and messages.                                                    *)

\* What is in a queue.
Elems(q) == {q[i] : i \in DOMAIN q}

\* What is in a queue after a message was put behind it or taken off it, or
\* after others were put behind it.
LEMMA Queues ==
    ASSUME NEW X, NEW q \in Seq(X)
    PROVE  /\ Elems(q) \subseteq X
           /\ \A x \in X : Append(q, x) \in Seq(X) /\ Elems(Append(q, x)) = Elems(q) \cup {x}
           /\ q # <<>> => /\ Head(q) \in X /\ Tail(q) \in Seq(X)
                         /\ Elems(q) = {Head(q)} \cup Elems(Tail(q))
           /\ \A r \in Seq(X) : q \o r \in Seq(X) /\ Elems(q \o r) = Elems(q) \cup Elems(r)
<1>1. Elems(q) \subseteq X
  BY DEF Elems
<1>2. ASSUME NEW x \in X
      PROVE  Append(q, x) \in Seq(X) /\ Elems(Append(q, x)) = Elems(q) \cup {x}
  <2>1. /\ Append(q, x) \in Seq(X)
        /\ \A i \in DOMAIN Append(q, x) : i \in DOMAIN q \/ i = Len(q) + 1
        /\ \A i \in DOMAIN q : i \in DOMAIN Append(q, x) /\ Append(q, x)[i] = q[i]
        /\ Len(q) + 1 \in DOMAIN Append(q, x) /\ Append(q, x)[Len(q) + 1] = x
    OBVIOUS
  <2>2. Elems(Append(q, x)) \subseteq Elems(q) \cup {x}
    BY <2>1, Zenon DEF Elems
  <2>3. Elems(q) \cup {x} \subseteq Elems(Append(q, x))
    BY <2>1, Zenon DEF Elems
  <2> QED BY <2>1, <2>2, <2>3, Zenon
<1>3. ASSUME q # <<>>
      PROVE  Head(q) \in X /\ Tail(q) \in Seq(X) /\ Elems(q) = {Head(q)} \cup Elems(Tail(q))
  <2>1. /\ Head(q) \in X /\ Tail(q) \in Seq(X)
        /\ \A i \in DOMAIN Tail(q) : i + 1 \in DOMAIN q /\ Tail(q)[i] = q[i + 1]
        /\ \A i \in DOMAIN q : i # 1 => i - 1 \in DOMAIN Tail(q) /\ Tail(q)[i - 1] = q[i]
        /\ 1 \in DOMAIN q /\ Head(q) = q[1]
    BY <1>3
  <2>2. ASSUME NEW x PROVE x \in Elems(q) <=> x = Head(q) \/ x \in Elems(Tail(q))
    <3>1. x \in Elems(q) => x = Head(q) \/ x \in Elems(Tail(q))
      BY <2>1 DEF Elems
    <3>2. x = Head(q) \/ x \in Elems(Tail(q)) => x \in Elems(q)
      BY <2>1 DEF Elems
    <3> QED BY <3>1, <3>2, Zenon
  <2> QED BY <2>1, <2>2, Zenon
<1>4. ASSUME NEW r \in Seq(X)
      PROVE  q \o r \in Seq(X) /\ Elems(q \o r) = Elems(q) \cup Elems(r)
  <2>1. /\ q \o r \in Seq(X)
        /\ \A i \in DOMAIN (q \o r) : \/ i \in DOMAIN q /\ (q \o r)[i] = q[i]
                                      \/ i - Len(q) \in DOMAIN r /\ (q \o r)[i] = r[i - Len(q)]
        /\ \A i \in DOMAIN q : i \in DOMAIN (q \o r) /\ (q \o r)[i] = q[i]
        /\ \A i \in DOMAIN r : i + Len(q) \in DOMAIN (q \o r) /\ (q \o r)[i + Len(q)] = r[i]
    OBVIOUS
  <2>2. Elems(q \o r) \subseteq Elems(q) \cup Elems(r)
    BY <2>1, Zenon DEF Elems
  <2>3. /\ \A i \in DOMAIN q : q[i] \in Elems(q \o r)
        /\ \A i \in DOMAIN r : r[i] \in Elems(q \o r)
    BY <2>1, Zenon DEF Elems
  <2>4. Elems(q) \cup Elems(r) \subseteq Elems(q \o r)
    BY <2>3, Zenon DEF Elems
  <2> QED BY <2>1, <2>2, <2>4, Zenon
<1> QED BY <1>1, <1>2, <1>3, <1>4, Zenon

\* Nothing is in an empty queue.
LEMMA NoElems == Elems(<<>>) = {}
BY DEF Elems

\* The messages of the host and of the daemons have their types.
LEMMA Messages ==
    ASSUME NEW k \in Command, NEW p \in Seq(Text)
    PROVE  /\ Task(k, p) \in Message
           /\ Task(k, p).command = k /\ Task(k, p).payload = p /\ Task(k, p).channel_id = C
           /\ k # "FileCheck" => Task(k, p) \in Response
BY Zenon DEF Task, TaskMessage, Message, Response

\* So have the host's requests.
LEMMA Requests ==
    ASSUME NEW k \in Command, NEW p \in Seq(Text), Parsed(k, p)
    PROVE  Task(k, p) \in Request /\ Task(k, p).command = k /\ Task(k, p).payload = p
BY Messages, Zenon DEF Request

\* Short payloads.
LEMMA Payloads ==
    /\ <<>> \in Seq(Text)
    /\ \A a \in Text : <<a>> \in Seq(Text)
    /\ \A a, b \in Text : <<a, b>> \in Seq(Text)
    /\ \A a, b, c \in Text : <<a, b, c>> \in Seq(Text) /\ <<a, b, c>>[1] = a
    /\ \A a, b, c, d \in Text : <<a, b, c, d>> \in Seq(Text)
OBVIOUS

\* What they are made of.
LEMMA Texts ==
    /\ Word \subseteq Text /\ Nat \subseteq Text
    /\ {"", "recv", "remote", "re", "mote", "local"} \subseteq Word
    /\ {"hap", "image", "name", "directory", "failed", "unknown", "Ok", "Fail"} \subseteq Word
    /\ {"none", "plain", "dir", "spaced"} \subseteq Word
BY Zenon DEF Text, Word

Tagged(out, tag) == [k \in 1..Len(out) |-> [tag |-> tag, msg |-> out[k]]]

\* The letters that carry some messages.
LEMMA Posted ==
    ASSUME NEW out \in Seq(Response), NEW tag \in Nat \X Part
    PROVE  /\ Tagged(out, tag) \in Seq(Letter(Response))
           /\ \A t \in Elems(Tagged(out, tag)) : t.tag = tag /\ t.msg \in Elems(out)
           /\ \A i \in DOMAIN Tagged(out, tag) : i \in DOMAIN out /\ Tagged(out, tag)[i].msg = out[i]
<1>1. Len(out) \in Nat /\ DOMAIN out = 1..Len(out) /\ \A i \in DOMAIN out : out[i] \in Response
  OBVIOUS
<1>2. \A i \in 1..Len(out) : [tag |-> tag, msg |-> out[i]] \in Letter(Response)
  BY <1>1, Zenon DEF Letter
<1>3. Tagged(out, tag) \in Seq(Letter(Response))
  BY <1>1, <1>2 DEF Tagged
<1>4. \A i \in DOMAIN Tagged(out, tag) : /\ i \in DOMAIN out
                                         /\ Tagged(out, tag)[i].msg = out[i]
                                         /\ Tagged(out, tag)[i].tag = tag
  BY <1>1, Zenon DEF Tagged
<1> QED BY <1>3, <1>4, Zenon DEF Elems

-----------------------------------------------------------------------------
(* The steps of the handler keep the types.                                *)

\* The first part of the invariant that the runs check.
LEMMA TypedIsTypeOK == Typed => TypeOK
BY TransferAssumption, Zenon DEF Typed, MapsTyped, HandlerTyped, MailTyped, DaemonTyped, HistoryTyped,
   Handler, Suits, TypeOK

\* The initial state.
LEMMA TypedInit == Init => Typed /\ Attended
<1> SUFFICES ASSUME Init PROVE Typed /\ Attended
  BY Zenon
<1>1. mix \in Mix /\ IsMix(mix) /\ daemon \in {"device", "hdcd"} /\ mix.transfers \in Nat
  BY TransferAssumption, Zenon DEF Init, IsMix
<1>2. MapsTyped /\ Attended
  BY Zenon DEF Init, MapsTyped, Attended, IsRecord, EmptyTcpMap, EmptyUsbMap, StartUsbSession, EmptyMap,
     Registered, S, C
<1>3. HandlerTyped
  BY <1>1 DEF Init, HandlerTyped, Handler, IdleAfter, Suits, HandlerPc
<1>4. MailTyped
  BY DEF Init, MailTyped
<1>5. DaemonTyped
  BY DEF Init, DaemonTyped, DeviceTask, NoTask, NoTag, EmptyMap
<1>6. HistoryTyped
  BY DEF Init, HistoryTyped, Undecided, NoTag, IdleAfter
<1> QED BY <1>2, <1>3, <1>4, <1>5, <1>6, Zenon DEF Typed

\* A failure is decided, and the handler goes on to unregister.
LEMMA FailTyped ==
    ASSUME HandlerTyped, HistoryTyped, h.pc # "idle", NEW tag \in Nat \X ({0} \cup Part),
           Fail(tag), UNCHANGED <<setting, told, failed>>
    PROVE  HandlerTyped' /\ HistoryTyped'
<1>1. h' = [h EXCEPT !.pc = "unregister", !.err = TRUE] /\ mix' = mix /\ daemon' = daemon
  BY Zenon DEF Fail, setting
<1>2. HandlerTyped'
  BY <1>1, Zenon DEF HandlerTyped, Handler, Suits, HandlerPc
<1>3. HistoryTyped'
  BY <1>1, Zenon DEF HandlerTyped, Handler, HistoryTyped, Fail, Decide
<1> QED BY <1>2, <1>3, Zenon

\* What is sent is a request with the handler's tag.
LEMMA SendTyped ==
    ASSUME HandlerTyped, MailTyped, h.pc # "idle", NEW m \in Request, Send(m)
    PROVE  /\ [tag |-> Tag, msg |-> m] \in Letter(Request) /\ Tag \in Nat \X Part
           /\ down' \in {down, Append(down, [tag |-> Tag, msg |-> m])}
           /\ down' \in Seq(Letter(Request))
<1>1. Tag \in Nat \X Part
  BY Zenon DEF Tag, HandlerTyped, Handler, Suits
<1>2. [tag |-> Tag, msg |-> m] \in Letter(Request)
  BY <1>1, Zenon DEF Letter
<1>3. down' \in {down, Append(down, [tag |-> Tag, msg |-> m])}
  BY Zenon DEF Send
<1>4. down' \in Seq(Letter(Request))
  BY <1>2, <1>3, Queues, SMTT(20) DEF MailTyped
<1> QED BY <1>1, <1>2, <1>3, <1>4, Zenon

\* No tag is a tag.
LEMMA NoTagTyped == NoTag \in Nat \X ({0} \cup Part) /\ NoTag # <<0, 1>> /\ NoTag[2] = 0
BY DEF NoTag

\* A transfer begins.
LEMMA BeginTyped ==
    ASSUME Typed, NEW kind \in mix.kinds, NEW path \in mix.paths, NEW size \in mix.sizes,
           Begin(kind, path, size)
    PROVE  Typed'
<1>1. /\ mix' = mix /\ daemon' = daemon /\ mix \in Mix /\ IsMix(mix)
      /\ h.n < mix.transfers /\ mix.transfers \in Nat /\ h.n \in Nat
      /\ kind \in Kinds /\ path \in {"plain", "dir", "spaced"} /\ size \in Nat
  BY TransferAssumption, Zenon DEF Begin, setting, Typed, HandlerTyped, Handler, IsMix, Kinds
<1>2. MapsTyped'
  BY Zenon DEF Typed, MapsTyped, Begin
<1>3. h' = [pc |-> "check", n |-> h.n + 1, kind |-> kind, path |-> path,
            size |-> IF kind \in Sender THEN size ELSE 0, part |-> 1, i |-> 1,
            retried |-> FALSE, finish_sent |-> FALSE, err |-> FALSE]
  BY Zenon DEF Begin, IdleAfter
<1>4. HandlerTyped'
  <2>0. 1 \in Part /\ 1 \in 1..Haps /\ (IF kind \in Sender THEN size ELSE 0) \in Nat
    BY <1>1, TransferAssumption DEF Part
  <2>1. h' \in Handler
    BY <1>1, <1>3, <2>0 DEF Handler, HandlerPc
  <2>2. Suits(h')
    <3>1. /\ h'.pc = "check" /\ h'.kind = kind /\ h'.part = 1 /\ h'.i = 1 /\ h'.n = h.n + 1
          /\ h'.retried = FALSE /\ h'.size \in Nat
      BY <1>3, <2>0, Zenon
    <3>2. h'.n # 0 /\ h'.i \in 0..h'.size + 2
      BY <1>1, <3>1
    <3> QED BY <1>1, <2>0, <3>1, <3>2, Zenon DEF Suits
  <2>3. h'.n \in 0..mix.transfers /\ failed' \in 0..h'.n
    <3>1. h'.n = h.n + 1
      BY <1>3, Zenon
    <3>2. failed \in 0..h.n /\ failed' \in {failed, failed + 1}
      BY Zenon DEF Begin, Typed, HandlerTyped
    <3> QED BY <1>1, <3>1, <3>2
  <2> QED BY <1>1, <2>1, <2>2, <2>3, Zenon DEF Typed, HandlerTyped
<1>5. MailTyped'
  BY DEF Typed, MailTyped, Begin
<1>6. DaemonTyped'
  BY Zenon DEF Typed, DaemonTyped, Begin
<1>7. HistoryTyped'
  BY <1>3 DEF HistoryTyped, Begin, Undecided, NoTag
<1> QED BY <1>2, <1>4, <1>5, <1>6, <1>7, Zenon DEF Typed

\* Arguments are checked and the receiver is registered.
LEMMA CheckTyped ==
    ASSUME Typed, CheckArguments
    PROVE  Typed'
<1>1. /\ h.pc = "check" /\ mix' = mix /\ daemon' = daemon /\ failed' = failed
      /\ HandlerTyped /\ HistoryTyped
  BY Zenon DEF CheckArguments, setting, Typed
<1>2. MapsTyped'
  <2>1. CASE UNCHANGED usb
    BY <2>1, Zenon DEF Typed, MapsTyped, CheckArguments
  <2>2. CASE usb' = Register(usb, S, C, h.n)
    BY <2>2, Zenon DEF Typed, MapsTyped, CheckArguments, Register, Put, IsRecord
  <2> QED BY <2>1, <2>2, Zenon DEF CheckArguments
<1>3. HandlerTyped'
  <2>1. h' = [h EXCEPT !.pc = "report"] \/ h' = [h EXCEPT !.pc = "open"]
    BY Zenon DEF CheckArguments, Goto
  <2>2. CASE h' = [h EXCEPT !.pc = "report"]
    BY <1>1, <2>2, Zenon DEF HandlerTyped, Handler, Suits, HandlerPc
  <2>3. CASE h' = [h EXCEPT !.pc = "open"]
    <3>1. h.i = 1 /\ ~h.retried
      BY <1>1, Zenon DEF HandlerTyped, Suits
    <3> QED BY <1>1, <2>3, <3>1, Zenon DEF HandlerTyped, Handler, Suits, HandlerPc
  <2> QED BY <2>1, <2>2, <2>3, Zenon
<1>4. HistoryTyped'
  <2>1. h'.pc \in {"report", "open"} /\ told' = told
    BY <1>1, Zenon DEF CheckArguments, Goto, HandlerTyped, Handler
  <2>2. CASE verdict' = verdict
    BY <1>1, <2>1, <2>2, Zenon DEF HistoryTyped
  <2>3. CASE Decide("fail", NoTag, "none")
    BY <1>1, <2>1, <2>3, NoTagTyped, Zenon DEF HistoryTyped, Decide, HandlerTyped, Handler
  <2> QED BY <2>2, <2>3, Zenon DEF CheckArguments
<1>5. MailTyped' /\ DaemonTyped'
  BY Zenon DEF Typed, MailTyped, DaemonTyped, CheckArguments, daemonvars
<1> QED BY <1>2, <1>3, <1>4, <1>5, Zenon DEF Typed

\* What the handler of a kind sends first.
LEMMA OpeningTyped ==
    ASSUME HandlerTyped, h.pc = "open"
    PROVE  /\ Opening[h.i] \in Request
           /\ Len(Opening) \in {1, 2} /\ (Len(Opening) = 2 <=> h.kind \in {"send", "install"})
           /\ Opening[h.i].command = "FileCheck" => h.kind = "send" /\ h.i = 2
           /\ h.kind = "send" => Opening[h.i].command =
                 IF h.i = 1 THEN "KernelWakeupSlavetask" ELSE "FileCheck"
<1>1. /\ h.size \in Text /\ h.size \in Nat /\ h.path \in Text
      /\ h.i \in {1, 2} /\ h.kind \in Kinds /\ (h.kind \in {"recv", "flash", "erase"} => h.i = 1)
  BY Texts, Zenon DEF HandlerTyped, Handler, Suits
<1>2. CASE h.kind = "send"
  <2>1. PICK w \in Text : Opening = <<Task("KernelWakeupSlavetask", <<>>),
                                     Task("FileCheck", <<h.size, h.path, w>>)>>
    BY <1>2, Texts, Zenon DEF Opening, OpenSend
  <2>2. PICK p : p = <<h.size, h.path, w>>
    BY Zenon
  <2>3. p \in Seq(Text) /\ p[1] \in Nat /\ <<>> \in Seq(Text)
    BY <1>1, <2>2, Payloads, Zenon
  <2>6. /\ "FileCheck" \in Command /\ Parsed("FileCheck", p)
        /\ "KernelWakeupSlavetask" \in Command /\ Parsed("KernelWakeupSlavetask", <<>>)
    BY <2>3, Zenon DEF Parsed, Command
  <2>4. /\ Task("KernelWakeupSlavetask", <<>>) \in Request
        /\ Task("KernelWakeupSlavetask", <<>>).command = "KernelWakeupSlavetask"
    BY <2>3, <2>6, Requests, Zenon
  <2>5. Task("FileCheck", p) \in Request /\ Task("FileCheck", p).command = "FileCheck"
    BY <2>3, <2>6, Requests, Zenon
  <2>7. /\ Len(Opening) = 2 /\ Opening[2] = Task("FileCheck", p)
        /\ Opening[1] = Task("KernelWakeupSlavetask", <<>>)
    BY <2>1, <2>2, Zenon
  <2> QED BY <1>1, <1>2, <2>4, <2>5, <2>7, Zenon
<1>3. CASE h.kind = "recv"
  <2>1. PICK p \in {<<"recv", "re", "mote", "local">>, <<"recv", "remote", "local">>} :
           Opening = <<Task("FileInit", p)>>
    BY <1>3, Zenon DEF Opening, OpenRecv
  <2>2. p \in Seq(Text)
    <3>1. "recv" \in Text /\ "re" \in Text /\ "mote" \in Text /\ "local" \in Text /\ "remote" \in Text
      BY Texts, Zenon
    <3>2. <<"recv", "re", "mote", "local">> \in Seq(Text)
      BY <3>1, Payloads, Zenon
    <3>3. <<"recv", "remote", "local">> \in Seq(Text)
      BY <3>1, Payloads, Zenon
    <3> QED BY <3>2, <3>3, Zenon
  <2>4. "FileInit" \in Command /\ Parsed("FileInit", p)
    BY Zenon DEF Parsed, Command
  <2>3. Task("FileInit", p) \in Request /\ Task("FileInit", p).command = "FileInit"
    BY <2>2, <2>4, Requests, Zenon
  <2>5. Len(Opening) = 1 /\ Opening[1] = Task("FileInit", p)
    BY <2>1, Zenon
  <2> QED BY <1>1, <1>3, <2>3, <2>5
<1>4. CASE h.kind = "install"
  <2>1. PICK p, q : /\ p = <<"">> /\ q = <<h.size, "hap", "">>
                    /\ Opening = <<Task("AppInit", p), Task("AppCheck", q)>>
    BY <1>4, Zenon DEF Opening, OpenInstall
  <2>2. p \in Seq(Text) /\ q \in Seq(Text) /\ q[1] \in Nat /\ q[2] = "hap"
    BY <1>1, <2>1, Payloads, Texts, Zenon
  <2>5. /\ "AppInit" \in Command /\ Parsed("AppInit", p)
        /\ "AppCheck" \in Command /\ Parsed("AppCheck", q)
    BY <2>1, <2>2, Zenon DEF Parsed, Command
  <2>3. Task("AppInit", p) \in Request /\ Task("AppInit", p).command = "AppInit"
    BY <2>2, <2>5, Requests, Zenon
  <2>4. Task("AppCheck", q) \in Request /\ Task("AppCheck", q).command = "AppCheck"
    BY <2>2, <2>5, Requests, Zenon
  <2>6. Len(Opening) = 2 /\ Opening[1] = Task("AppInit", p) /\ Opening[2] = Task("AppCheck", q)
    BY <2>1, Zenon
  <2> QED BY <1>1, <1>4, <2>3, <2>4, <2>6, Zenon
<1>5. CASE h.kind = "flash"
  <2>1. PICK p : p = <<h.size, "image", "">> /\ Opening = <<Task("FlashdCheck", p)>>
    BY <1>5, Zenon DEF Opening, OpenFlash
  <2>2. p \in Seq(Text) /\ p[1] \in Nat /\ p[2] = "image"
    BY <1>1, <2>1, Payloads, Texts, Zenon
  <2>4. "FlashdCheck" \in Command /\ Parsed("FlashdCheck", p)
    BY <2>2, Zenon DEF Parsed, Command
  <2>3. Task("FlashdCheck", p) \in Request /\ Task("FlashdCheck", p).command = "FlashdCheck"
    BY <2>2, <2>4, Requests, Zenon
  <2>5. Len(Opening) = 1 /\ Opening[1] = Task("FlashdCheck", p)
    BY <2>1, Zenon
  <2> QED BY <1>1, <1>5, <2>3, <2>5
<1>6. CASE h.kind = "erase"
  <2>1. PICK p : p = <<>> /\ Opening = <<Task("FlashdErase", p)>>
    BY <1>6, Zenon DEF Opening, OpenErase
  <2>3. "FlashdErase" \in Command /\ Parsed("FlashdErase", p) /\ p \in Seq(Text)
    BY <2>1, Payloads, Zenon DEF Parsed, Command
  <2>2. Task("FlashdErase", p) \in Request /\ Task("FlashdErase", p).command = "FlashdErase"
    BY <2>3, Requests, Zenon
  <2>4. Len(Opening) = 1 /\ Opening[1] = Task("FlashdErase", p)
    BY <2>1, Zenon
  <2> QED BY <1>1, <1>6, <2>2, <2>4
<1> QED BY <1>1, <1>2, <1>3, <1>4, <1>5, <1>6, Zenon DEF Kinds, Sender

\* The steps that give the transfer up.
LEMMA FailedTyped ==
    ASSUME Typed, h.pc # "idle", NEW tag \in Nat \X ({0} \cup Part), Fail(tag),
           UNCHANGED <<setting, tcp, usb, up, daemonvars, told, failed>>,
           down' = down, inbox' \in Seq(Letter(Response))
    PROVE  Typed'
<1>1. HandlerTyped' /\ HistoryTyped'
  <2>1. HandlerTyped /\ HistoryTyped /\ UNCHANGED <<setting, told, failed>>
    BY Zenon DEF Typed
  <2> QED BY <2>1, FailTyped, Zenon
<1>2. MapsTyped' /\ MailTyped' /\ DaemonTyped'
  BY Zenon DEF Typed, MapsTyped, MailTyped, DaemonTyped, daemonvars
<1> QED BY <1>1, <1>2, Zenon DEF Typed

\* The steps that move on without a decision.
LEMMA MovedTyped ==
    ASSUME Typed, UNCHANGED <<setting, tcp, usb, up, daemonvars, verdict, told, failed>>,
           h' \in Handler, Suits(h'), h'.n = h.n,
           h'.pc \notin {"acknowledge", "reply"} \/ h'.pc = h.pc,
           down' \in Seq(Letter(Request)), inbox' \in Seq(Letter(Response))
    PROVE  Typed'
<1>1. HandlerTyped'
  BY Zenon DEF Typed, HandlerTyped, setting
<1>2. MapsTyped' /\ MailTyped' /\ DaemonTyped'
  BY Zenon DEF Typed, MapsTyped, MailTyped, DaemonTyped, daemonvars
<1>3. HistoryTyped'
  BY Zenon DEF Typed, HistoryTyped
<1> QED BY <1>1, <1>2, <1>3, Zenon DEF Typed

\* The opening messages are sent.
LEMMA OpenTyped ==
    ASSUME Typed, OpenTransfer
    PROVE  Typed'
<1>1. /\ h.pc = "open" /\ HandlerTyped /\ MailTyped /\ h \in Handler /\ Suits(h)
      /\ UNCHANGED <<setting, tcp, usb, inbox, up, daemonvars, told, failed>>
      /\ inbox' \in Seq(Letter(Response))
  BY Zenon DEF OpenTransfer, Typed, HandlerTyped, MailTyped
<1>2. CASE /\ Send(Opening[h.i])
           /\ h' = IF h.i < Len(Opening) THEN [h EXCEPT !.i = @ + 1]
                   ELSE [h EXCEPT !.pc = IF h.kind = "erase" THEN "verdict" ELSE "await", !.i = 1]
           /\ UNCHANGED verdict
  <2>1. down' \in Seq(Letter(Request))
    <3>1. Opening[h.i] \in Request
      BY <1>1, OpeningTyped, Zenon
    <3> QED BY <1>1, <1>2, <3>1, SendTyped, Zenon
  <2>2. Len(Opening) \in {1, 2} /\ (Len(Opening) = 2 <=> h.kind \in {"send", "install"})
    BY <1>1, OpeningTyped, Zenon
  <2>3. h' \in Handler /\ Suits(h') /\ h'.n = h.n /\ h'.pc \in {"open", "await", "verdict"}
    <3>1. CASE h.i < Len(Opening)
      <4>1. h.i = 1 /\ h' = [h EXCEPT !.i = 2] /\ h.kind \in {"send", "install"}
        <5>1. h.i \in {1, 2} /\ h' = [h EXCEPT !.i = h.i + 1]
          BY <1>1, <1>2, <3>1, Zenon DEF Suits
        <5>2. PICK a, b \in {1, 2} : a = h.i /\ b = Len(Opening)
          BY <2>2, <5>1, Zenon
        <5>3. a = 1 /\ b = 2
          BY <3>1, <5>2, SMTT(20)
        <5> QED BY <2>2, <5>1, <5>2, <5>3
      <4> QED BY <1>1, <4>1 DEF Handler, Suits
    <3>2. CASE ~(h.i < Len(Opening))
      <4>0. h \in Handler
        BY <1>1, Zenon
      <4>1. PICK pc \in {"await", "verdict"} : h' = [h EXCEPT !.pc = pc, !.i = 1]
        BY <1>2, <3>2, Zenon
      <4>2. /\ h'.pc = pc /\ h'.i = 1 /\ h'.kind = h.kind /\ h'.part = h.part /\ h'.n = h.n
            /\ h'.retried = h.retried /\ h'.size = h.size /\ h.size \in Nat
        BY <4>0, <4>1, Zenon DEF Handler
      <4>3. h' \in Handler
        BY <4>0, <4>1, Zenon DEF Handler, HandlerPc
      <4>5. pc = "verdict" <=> h.kind = "erase"
        BY <1>2, <3>2, <4>2
      <4>4. h'.i \in 0..h'.size + 2
        BY <4>2
      <4> QED BY <1>1, <4>1, <4>2, <4>3, <4>4, <4>5, Zenon DEF Suits
    <3> QED BY <3>1, <3>2, Zenon
  <2> QED BY <1>1, <1>2, <2>1, <2>3, MovedTyped, Zenon
<1>3. CASE Fail(NoTag) /\ down' = down
  BY <1>1, <1>3, NoTagTyped, FailedTyped, Zenon
<1> QED BY <1>2, <1>3, Zenon DEF OpenTransfer, SendFails

\* A deadline passes or the session is gone.
LEMMA GiveUpTyped ==
    ASSUME Typed, Timeout \/ ResponseChannelClosed
    PROVE  Typed'
<1>1. /\ Waiting /\ GiveUp /\ h \in Handler /\ Suits(h) /\ HandlerTyped /\ HistoryTyped
      /\ UNCHANGED <<setting, tcp, usb, inbox, down, up, daemonvars, told, failed>>
      /\ inbox' \in Seq(Letter(Response)) /\ h.pc # "idle"
  BY Zenon DEF Timeout, ResponseChannelClosed, Typed, HandlerTyped, MailTyped, Waiting
<1>2. CASE Fail(NoTag)
  BY <1>1, <1>2, NoTagTyped, FailedTyped, Zenon
<1>3. CASE Decide("fail", NoTag, "none") /\ Goto("reply")
  <2>1. HandlerTyped'
    BY <1>1, <1>3, Zenon DEF Goto, HandlerTyped, Handler, Suits, HandlerPc, setting
  <2>2. HistoryTyped'
    BY <1>1, <1>3, NoTagTyped, Zenon DEF HistoryTyped, Handler, Decide
  <2>3. MapsTyped' /\ MailTyped' /\ DaemonTyped'
    BY <1>1, Zenon DEF Typed, MapsTyped, MailTyped, DaemonTyped, daemonvars
  <2> QED BY <2>1, <2>2, <2>3, Zenon DEF Typed
<1> QED BY <1>1, <1>2, <1>3, Zenon DEF GiveUp

\* A letter taken from the receiver.
LEMMA TakenTyped ==
    ASSUME MailTyped, inbox # <<>>
    PROVE  /\ Tail(inbox) \in Seq(Letter(Response))
           /\ Head(inbox).msg \in Response /\ Head(inbox).tag \in Nat \X Part
           /\ Head(inbox).tag \in Nat \X ({0} \cup Part)
           /\ Head(inbox).msg.command \in Command /\ Head(inbox).msg.payload \in Seq(Text)
           /\ Head(inbox).msg.command = "FileCheck" => Head(inbox).msg.payload[1] \in Nat
<1>1. Head(inbox) \in Letter(Response) /\ Tail(inbox) \in Seq(Letter(Response))
  BY Queues, Zenon DEF MailTyped
<1>2. Head(inbox).msg \in Response /\ Head(inbox).tag \in Nat \X Part
  BY <1>1, Zenon DEF Letter
<1> QED BY <1>1, <1>2, Zenon DEF Response, Message

\* The go is taken.
LEMMA TakeGoTyped ==
    ASSUME Typed, TakeGo
    PROVE  Typed'
<1>1. /\ h.pc = "await" /\ h \in Handler /\ Suits(h) /\ MailTyped /\ inbox # <<>>
      /\ UNCHANGED <<setting, tcp, usb, down, up, daemonvars, told, failed>>
      /\ inbox' = Tail(inbox) /\ down' \in Seq(Letter(Request))
  BY Zenon DEF TakeGo, Typed, HandlerTyped, MailTyped
<1>2. PICK t : t = Head(inbox)
  BY Zenon
<1>3. /\ inbox' \in Seq(Letter(Response)) /\ t.tag \in Nat \X ({0} \cup Part)
      /\ t.msg.command = "FileCheck" => t.msg.payload[1] \in Nat
  BY <1>1, <1>2, TakenTyped, Zenon
<1>4. CASE /\ Await(t.msg) = "go" /\ UNCHANGED verdict
           /\ h' = IF h.kind = "recv" THEN [h EXCEPT !.pc = "create", !.size = t.msg.payload[1]]
                   ELSE [h EXCEPT !.pc = "stream"]
  <2>1. h' \in Handler /\ Suits(h') /\ h'.n = h.n /\ h'.pc \in {"create", "stream"}
    <3>1. CASE h.kind = "recv"
      <4>1. t.msg.payload[1] \in Nat
        BY <1>3, <1>4, <3>1, Zenon DEF Await, AwaitRecv
      <4>2. h' = [h EXCEPT !.pc = "create", !.size = t.msg.payload[1]] /\ h.i \in Nat
        BY <1>1, <1>4, <3>1, Zenon DEF Handler
      <4>3. /\ h'.pc = "create" /\ h'.i = 1 /\ h'.kind = h.kind /\ h'.part = h.part
            /\ h'.n = h.n /\ h'.retried = h.retried /\ h'.size \in Nat
        BY <1>1, <4>1, <4>2, Zenon DEF Handler, Suits
      <4>4. h' \in Handler
        BY <1>1, <4>1, <4>2, Zenon DEF Handler, HandlerPc
      <4>5. h'.i \in 0..h'.size + 2
        BY <4>3
      <4> QED BY <1>1, <3>1, <4>3, <4>4, <4>5, Zenon DEF Suits
    <3>2. CASE h.kind # "recv"
      <4>1. h' = [h EXCEPT !.pc = "stream"] /\ h.kind \in Sender
        BY <1>1, <1>4, <3>2, Zenon DEF Suits, Kinds
      <4> QED BY <1>1, <4>1, Zenon DEF Handler, Suits, HandlerPc, Sender
    <3> QED BY <3>1, <3>2, Zenon
  <2> QED BY <1>1, <1>3, <1>4, <2>1, MovedTyped, Zenon
<1>5. CASE /\ Await(t.msg) = "retry" /\ UNCHANGED verdict
           /\ h' = [h EXCEPT !.pc = "open", !.i = 2, !.part = 2, !.retried = TRUE]
  <2>1. h.kind = "send" /\ ~h.retried
    BY <1>1, <1>5, Zenon DEF Await, AwaitSend, AwaitRecv, AwaitInstall, AwaitFlash, Suits, Kinds, Sender
  <2>2. h' \in Handler /\ Suits(h') /\ h'.n = h.n /\ h'.pc = "open"
    <3>1. /\ h'.pc = "open" /\ h'.i = 2 /\ h'.kind = h.kind /\ h'.part = 2 /\ h'.n = h.n
          /\ h'.retried = TRUE /\ h'.size = h.size /\ h.size \in Nat /\ 2 \in Part
      BY <1>1, <1>5 DEF Handler, Part
    <3>2. h' \in Handler
      BY <1>1, <1>5, <3>1, Zenon DEF Handler, HandlerPc
    <3>3. h'.i \in 0..h'.size + 2
      BY <3>1
    <3> QED BY <1>1, <2>1, <3>1, <3>2, <3>3, Zenon DEF Suits
  <2> QED BY <1>1, <1>3, <1>5, <2>2, MovedTyped, Zenon
<1>6. CASE UNCHANGED <<h, verdict>>
  BY <1>1, <1>3, <1>6, MovedTyped, Zenon
<1>7. CASE Fail(t.tag)
  BY <1>1, <1>3, <1>7, FailedTyped, Zenon
<1> QED BY <1>2, <1>4, <1>5, <1>6, <1>7, Zenon DEF TakeGo

\* The steps that decide and go on to tell the client.
LEMMA DecidedTyped ==
    ASSUME Typed, h.pc # "idle", NEW outcome \in {"finish", "fail"},
           NEW tag \in Nat \X ({0} \cup Part), NEW command \in Command \cup {"none"},
           NEW pc \in {"acknowledge", "reply"}, pc = "acknowledge" => h.kind = "recv",
           Decide(outcome, tag, command), Goto(pc),
           UNCHANGED <<setting, tcp, usb, down, up, daemonvars, told, failed>>,
           inbox' \in Seq(Letter(Response))
    PROVE  Typed'
<1>1. h \in Handler /\ Suits(h) /\ HandlerTyped /\ HistoryTyped
  BY Zenon DEF Typed, HandlerTyped
<1>2. HandlerTyped'
  BY <1>1 DEF Goto, HandlerTyped, Handler, Suits, HandlerPc, setting
<1>3. HistoryTyped'
  BY <1>1, Zenon DEF HistoryTyped, Handler, Decide
<1>4. MapsTyped' /\ MailTyped' /\ DaemonTyped'
  BY Zenon DEF Typed, MapsTyped, MailTyped, DaemonTyped, daemonvars
<1> QED BY <1>2, <1>3, <1>4, Zenon DEF Typed

\* What the handler sends after the opening.
LEMMA StreamMessages ==
    ASSUME h \in Handler
    PROVE  /\ h.kind \in Sender => Data \in Request /\ Data.command \in {"FileData", "AppData", "FlashdData"}
           /\ FinishMessage \in Request /\ FinishMessage.command \in {"FileFinish", "FlashdFinish"}
           /\ Task("FileBegin", <<>>) \in Request /\ Task("FileBegin", <<>>).command = "FileBegin"
           /\ \A k \in Nat : /\ Task("FileFinish", <<k>>) \in Request
                             /\ Task("FileFinish", <<k>>).command = "FileFinish"
<1>1. h.n \in Text /\ h.i \in Text
  BY Texts, Zenon DEF Handler
<1>2. PICK p : p = <<h.n, h.i>>
  BY Zenon
<1>3. p \in Seq(Text)
  BY <1>1, <1>2, Payloads, Zenon
<1>4. ASSUME NEW k \in {"FileData", "AppData", "FlashdData"}
      PROVE  Task(k, p) \in Request /\ Task(k, p).command = k
  <2>1. k \in Command /\ Parsed(k, p)
    BY Zenon DEF Command, Parsed
  <2> QED BY <1>3, <2>1, Requests, Zenon
<1>5. ASSUME h.kind \in Sender
      PROVE  Data \in {Task("FileData", p), Task("AppData", p), Task("FlashdData", p)}
  BY <1>2, <1>5, Zenon DEF Data, DataSend, DataInstall, DataFlash, Sender
<1>6. ASSUME NEW n \in Nat, NEW k \in {"FileFinish", "FlashdFinish"}
      PROVE  Task(k, <<n>>) \in Request /\ Task(k, <<n>>).command = k
  <2>1. PICK q : q = <<n>>
    BY Zenon
  <2>2. k \in Command /\ Parsed(k, q)
    BY Zenon DEF Command, Parsed
  <2>3. q \in Seq(Text)
    BY <2>1, Payloads, Texts, Zenon
  <2> QED BY <2>1, <2>2, <2>3, Requests, Zenon
<1>7. PICK k \in {"FileFinish", "FlashdFinish"} : FinishMessage = Task(k, <<1>>)
  BY Zenon DEF FinishMessage
<1>8. Task("FileBegin", <<>>) \in Request /\ Task("FileBegin", <<>>).command = "FileBegin"
  <2>1. "FileBegin" \in Command /\ Parsed("FileBegin", <<>>) /\ <<>> \in Seq(Text)
    BY Payloads, Zenon DEF Command, Parsed
  <2> QED BY <2>1, Requests, Zenon
<1>9. FinishMessage \in Request /\ FinishMessage.command \in {"FileFinish", "FlashdFinish"}
  BY <1>6, <1>7
<1> QED BY <1>4, <1>5, <1>6, <1>8, <1>9, Zenon

\* A chunk, or the end of the file.
LEMMA StreamTyped ==
    ASSUME Typed, StreamData
    PROVE  Typed'
<1>1. /\ h.pc = "stream" /\ HandlerTyped /\ MailTyped /\ h \in Handler /\ Suits(h)
      /\ UNCHANGED <<setting, tcp, usb, inbox, up, daemonvars, told, failed>>
      /\ inbox' \in Seq(Letter(Response)) /\ h.kind \in Sender
  BY Zenon DEF StreamData, Typed, HandlerTyped, MailTyped, Suits
<1>2. CASE h.i <= h.size /\ Send(Data) /\ h' = [h EXCEPT !.i = @ + 1] /\ UNCHANGED verdict
  <2>1. down' \in Seq(Letter(Request))
    BY <1>1, <1>2, StreamMessages, SendTyped, Zenon
  <2>2. /\ h'.pc = h.pc /\ h'.i = h.i + 1 /\ h'.kind = h.kind /\ h'.part = h.part /\ h'.n = h.n
        /\ h'.retried = h.retried /\ h'.size = h.size /\ h.size \in Nat /\ h.i \in Nat
    BY <1>1, <1>2, Zenon DEF Handler
  <2>3. h' \in Handler
    BY <1>1, <1>2 DEF Handler
  <2>4. h'.i \in 0..h'.size + 2
    BY <1>2, <2>2
  <2>5. Suits(h')
    BY <1>1, <2>2, <2>4, Zenon DEF Suits
  <2> QED BY <1>1, <1>2, <2>1, <2>2, <2>3, <2>5, MovedTyped, Zenon
<1>3. CASE /\ IF h.kind = "install" THEN UNCHANGED down ELSE Send(FinishMessage)
           /\ Goto("verdict") /\ UNCHANGED verdict
  <2>1. down' \in Seq(Letter(Request))
    <3>1. CASE h.kind = "install"
      BY <1>1, <1>3, <3>1, Zenon DEF MailTyped
    <3>2. CASE h.kind # "install"
      BY <1>1, <1>3, <3>2, StreamMessages, SendTyped, Zenon
    <3> QED BY <3>1, <3>2, Zenon
  <2>2. h' \in Handler /\ Suits(h') /\ h'.n = h.n /\ h'.pc = "verdict"
    BY <1>1, <1>3, Zenon DEF Goto, Handler, Suits, HandlerPc, Sender
  <2> QED BY <1>1, <1>3, <2>1, <2>2, MovedTyped, Zenon
<1>4. CASE Fail(NoTag) /\ down' = down
  BY <1>1, <1>4, NoTagTyped, FailedTyped, Zenon
<1> QED BY <1>2, <1>3, <1>4, Zenon DEF StreamData, SendFails

\* The verdict is taken.
LEMMA TakeVerdictTyped ==
    ASSUME Typed, TakeVerdict
    PROVE  Typed'
<1>1. /\ h.pc = "verdict" /\ h \in Handler /\ Suits(h) /\ MailTyped /\ inbox # <<>>
      /\ UNCHANGED <<setting, tcp, usb, down, up, daemonvars, told, failed>>
      /\ inbox' = Tail(inbox) /\ down' \in Seq(Letter(Request))
  BY Zenon DEF TakeVerdict, Typed, HandlerTyped, MailTyped
<1>2. PICK t : t = Head(inbox)
  BY Zenon
<1>3. /\ inbox' \in Seq(Letter(Response)) /\ t.tag \in Nat \X ({0} \cup Part)
      /\ t.msg.command \in Command
  BY <1>1, <1>2, TakenTyped, Zenon
<1>4. CASE UNCHANGED <<h, verdict>>
  BY <1>1, <1>3, <1>4, MovedTyped, Zenon
<1>5. CASE Decide("finish", t.tag, t.msg.command) /\ Goto("reply")
  BY <1>1, <1>3, <1>5, DecidedTyped, Zenon
<1>6. CASE Fail(t.tag)
  BY <1>1, <1>3, <1>6, FailedTyped, Zenon
<1> QED BY <1>2, <1>4, <1>5, <1>6, Zenon DEF TakeVerdict

\* file recv asks for the data, confirms them and acknowledges the end.
LEMMA RecvSendsTyped ==
    ASSUME Typed, CreateLocalFile \/ ConfirmData \/ AcknowledgeFinish
    PROVE  Typed'
<1>1. /\ h.pc \in {"create", "confirm", "acknowledge"} /\ h.kind = "recv"
      /\ HandlerTyped /\ HistoryTyped /\ MailTyped /\ h \in Handler /\ Suits(h)
      /\ UNCHANGED <<setting, tcp, usb, inbox, up, daemonvars, told, failed>>
      /\ inbox' \in Seq(Letter(Response))
  BY Zenon DEF CreateLocalFile, ConfirmData, AcknowledgeFinish, Typed, HandlerTyped, MailTyped, Suits
<1>2. CASE Fail(NoTag) /\ down' = down
  BY <1>1, <1>2, NoTagTyped, FailedTyped, Zenon
<1>3. CASE CreateLocalFile /\ Send(Task("FileBegin", <<>>)) /\ Goto("receive") /\ UNCHANGED verdict
  <2>1. down' \in Seq(Letter(Request))
    BY <1>1, <1>3, StreamMessages, SendTyped, Zenon
  <2>2. h' \in Handler /\ Suits(h') /\ h'.n = h.n /\ h'.pc = "receive"
    BY <1>1, <1>3, Zenon DEF Goto, Handler, Suits, HandlerPc
  <2> QED BY <1>1, <1>3, <2>1, <2>2, MovedTyped, Zenon
<1>4. CASE /\ ConfirmData /\ Send(Task("FileFinish", <<1>>))
           /\ h' = [h EXCEPT !.pc = "receive", !.finish_sent = TRUE] /\ UNCHANGED verdict
  <2>1. down' \in Seq(Letter(Request))
    BY <1>1, <1>4, StreamMessages, SendTyped, Zenon
  <2>2. h' \in Handler /\ Suits(h') /\ h'.n = h.n /\ h'.pc = "receive"
    BY <1>1, <1>4, Zenon DEF Handler, Suits, HandlerPc
  <2> QED BY <1>1, <1>4, <2>1, <2>2, MovedTyped, Zenon
<1>5. CASE AcknowledgeFinish /\ Send(Task("FileFinish", <<0>>)) /\ Goto("reply") /\ UNCHANGED verdict
  <2>1. down' \in Seq(Letter(Request))
    BY <1>1, <1>5, StreamMessages, SendTyped, Zenon
  <2>2. HandlerTyped'
    BY <1>1, <1>5, Zenon DEF Goto, HandlerTyped, Handler, Suits, HandlerPc, setting
  <2>3. HistoryTyped'
    BY <1>1, <1>5, Zenon DEF HistoryTyped, AcknowledgeFinish
  <2>4. MapsTyped' /\ MailTyped' /\ DaemonTyped'
    BY <1>1, <2>1, Zenon DEF Typed, MapsTyped, MailTyped, DaemonTyped, daemonvars
  <2> QED BY <2>2, <2>3, <2>4, Zenon DEF Typed
<1> QED BY <1>2, <1>3, <1>4, <1>5, Zenon DEF CreateLocalFile, ConfirmData, AcknowledgeFinish, SendFails

\* A message is taken while file recv receives.
LEMMA TakeDataTyped ==
    ASSUME Typed, TakeData
    PROVE  Typed'
<1>1. /\ h.pc = "receive" /\ h.kind = "recv" /\ h \in Handler /\ Suits(h) /\ MailTyped
      /\ UNCHANGED <<setting, tcp, usb, down, up, daemonvars, told, failed>>
      /\ inbox # <<>> /\ inbox' = Tail(inbox) /\ down' \in Seq(Letter(Request))
  BY Zenon DEF TakeData, Typed, HandlerTyped, MailTyped, Suits
<1>2. PICK t : t = Head(inbox)
  BY Zenon
<1>3. /\ inbox' \in Seq(Letter(Response)) /\ t.tag \in Nat \X ({0} \cup Part)
      /\ t.msg.command \in Command
  BY <1>1, <1>2, TakenTyped, Zenon
<1>4. CASE UNCHANGED verdict /\ h' \in {h, [h EXCEPT !.pc = "confirm"]}
  <2>1. h' \in Handler /\ Suits(h') /\ h'.n = h.n /\ h'.pc \in {"receive", "confirm"}
    BY <1>1, <1>4, Zenon DEF Handler, Suits, HandlerPc
  <2> QED BY <1>1, <1>3, <1>4, <2>1, MovedTyped, Zenon
<1>5. CASE Fail(NoTag)
  BY <1>1, <1>3, <1>5, NoTagTyped, FailedTyped, Zenon
<1>6. CASE Decide("finish", t.tag, t.msg.command) /\ \E pc \in {"acknowledge", "reply"} : Goto(pc)
  BY <1>1, <1>3, <1>6, DecidedTyped, Zenon
<1> QED BY <1>2, <1>4, <1>5, <1>6, Zenon DEF TakeData

\* maybe_end_channel and the end of a channel or a session.
LEMMA EndsTyped ==
    ASSUME MapsTyped
    PROVE  \A t \in {tcp, MaybeEndChannel(tcp, C), EndChannel(tcp, C), EndTcpSession(tcp, S)} :
              /\ IsRecord(t, {"session_writers", "channel_writers", "channel_sessions", "keep_alive"})
              /\ t.session_writers \subseteq {S} /\ t.channel_writers \subseteq {C}
<1> DEFINE F == {"session_writers", "channel_writers", "channel_sessions", "keep_alive"}
          Good(t) == IsRecord(t, F) /\ t.session_writers \subseteq {S} /\ t.channel_writers \subseteq {C}
<1>1. Good(tcp)
  BY Zenon DEF MapsTyped
<1>2. Good(EndChannel(tcp, C))
  BY <1>1, Zenon DEF IsRecord, EndChannel
<1>3. Good(EndTcpSession(tcp, S))
  BY <1>1, Zenon DEF IsRecord, EndTcpSession
<1>4. MaybeEndChannel(tcp, C) \in {tcp, EndChannel(tcp, C)}
  BY Zenon DEF MaybeEndChannel
<1> QED BY <1>1, <1>2, <1>3, <1>4, Zenon

\* The client is told.
LEMMA ToldTyped ==
    ASSUME Typed, ReplyToClient, verdict' = verdict
    PROVE  Typed'
<1>1. /\ h.pc = "reply" /\ h \in Handler /\ Suits(h) /\ HandlerTyped /\ HistoryTyped
      /\ UNCHANGED <<setting, usb, inbox, down, up, daemonvars, verdict, failed>>
      /\ verdict.outcome \in {"finish", "fail"}
  BY Zenon DEF ReplyToClient, Typed, HandlerTyped, HistoryTyped
<1>2. MapsTyped'
  <2>1. tcp' \in {tcp, MaybeEndChannel(tcp, C)}
    BY Zenon DEF ReplyToClient
  <2>2. MapsTyped
    BY Zenon DEF Typed
  <2> QED BY <1>1, <2>1, <2>2, EndsTyped, Zenon DEF MapsTyped
<1>3. MailTyped' /\ DaemonTyped'
  BY <1>1, Zenon DEF Typed, MailTyped, DaemonTyped, daemonvars
<1>4. told' \in Seq({"finish", "fail"})
  BY <1>1 DEF ReplyToClient, TellClient, HistoryTyped
<1>5. HandlerTyped' /\ h'.pc \in {"unregister", "open"}
  <2>1. CASE h' = [h EXCEPT !.pc = "unregister"] \/ h' = [h EXCEPT !.pc = "unregister", !.err = TRUE]
    BY <1>1, <2>1, ZenonT(30) DEF HandlerTyped, Handler, Suits, HandlerPc, setting
  <2>2. CASE ~LastPart /\ h' = [h EXCEPT !.pc = "open", !.part = @ + 1, !.i = 1]
    <3>1. h.kind = "install" /\ h.part \in 1..Haps /\ h.part # Haps /\ Haps \in Nat /\ ~h.retried
      BY <1>1, <2>2, TransferAssumption, Zenon DEF LastPart, Suits
    <3>2. h.part + 1 \in 1..Haps /\ h.part + 1 \in Part
      BY <3>1 DEF Part
    <3>3. /\ h'.pc = "open" /\ h'.i = 1 /\ h'.kind = h.kind /\ h'.part = h.part + 1 /\ h'.n = h.n
          /\ h'.retried = h.retried /\ h'.size = h.size /\ h.size \in Nat
      BY <1>1, <2>2, Zenon DEF Handler
    <3>4. h' \in Handler
      BY <1>1, <2>2, <3>2, Zenon DEF Handler, HandlerPc
    <3>5. h'.i \in 0..h'.size + 2
      BY <3>3
    <3>6. Suits(h')
      BY <1>1, <3>1, <3>2, <3>3, <3>5, Zenon DEF Suits
    <3> QED BY <1>1, <3>3, <3>4, <3>6, Zenon DEF HandlerTyped, setting
  <2> QED BY <2>1, <2>2, Zenon DEF ReplyToClient, Fail, Goto
<1>6. HistoryTyped'
  BY <1>1, <1>4, <1>5, Zenon DEF HistoryTyped
<1> QED BY <1>2, <1>3, <1>5, <1>6, Zenon DEF Typed

\* Unless the file of file recv cannot be flushed.
LEMMA ReplyTyped ==
    ASSUME Typed, ReplyToClient
    PROVE  Typed'
<1>1. CASE verdict' = verdict
  BY <1>1, ToldTyped, Zenon
<1>2. CASE verdict' # verdict
  <2>1. /\ h.pc = "reply" /\ Fail(NoTag) /\ inbox' = inbox /\ down' = down
        /\ UNCHANGED <<setting, tcp, usb, up, daemonvars, told, failed>>
    BY <1>2, Zenon DEF ReplyToClient
  <2>2. NoTag \in Nat \X ({0} \cup Part) /\ inbox' \in Seq(Letter(Response))
    BY <2>1 DEF NoTag, Typed, MailTyped
  <2> QED BY <2>1, <2>2, FailedTyped, Zenon
<1> QED BY <1>1, <1>2, Zenon

\* The handler is idle again.
LEMMA IdleTyped ==
    ASSUME h \in Handler
    PROVE  /\ IdleAfter(h.n) \in Handler /\ Suits(IdleAfter(h.n))
           /\ IdleAfter(h.n).pc = "idle" /\ IdleAfter(h.n).n = h.n
BY DEF Handler, IdleAfter, HandlerPc, Suits

\* The receiver is unregistered.
LEMMA UnregisterTyped ==
    ASSUME Typed, UnregisterReceiver
    PROVE  Typed'
<1>1. /\ h.pc = "unregister" /\ h \in Handler /\ Suits(h) /\ HandlerTyped /\ HistoryTyped
      /\ UNCHANGED <<setting, tcp, inbox, down, up, daemonvars, verdict, told, failed>>
      /\ usb' = Unregister(usb, S, C)
  BY Zenon DEF UnregisterReceiver, Typed, HandlerTyped
<1>2. MapsTyped'
  BY <1>1, Zenon DEF Typed, MapsTyped, IsRecord, Unregister, Remove
<1>3. MailTyped' /\ DaemonTyped'
  BY <1>1, Zenon DEF Typed, MailTyped, DaemonTyped, daemonvars
<1>4. h' \in Handler /\ Suits(h') /\ h'.n = h.n /\ h'.pc \in {"idle", "report"}
  <2>1. CASE h' = [h EXCEPT !.pc = "report"]
    BY <1>1, <2>1, Zenon DEF Handler, Suits, HandlerPc
  <2>2. CASE h' = IdleAfter(h.n)
    BY <1>1, <2>2, IdleTyped, Zenon
  <2> QED BY <2>1, <2>2, Zenon DEF UnregisterReceiver
<1>5. HandlerTyped' /\ HistoryTyped'
  BY <1>1, <1>4, Zenon DEF HandlerTyped, HistoryTyped, setting
<1> QED BY <1>2, <1>3, <1>5, Zenon DEF Typed

\* The failure is reported.
LEMMA ReportTyped ==
    ASSUME Typed, ReportError
    PROVE  Typed'
<1>1. /\ h.pc = "report" /\ h \in Handler /\ HandlerTyped /\ HistoryTyped /\ MapsTyped
      /\ UNCHANGED <<setting, usb, inbox, down, up, daemonvars, verdict, failed>>
      /\ tcp' = MaybeEndChannel(tcp, C) /\ h' = IdleAfter(h.n)
  BY Zenon DEF ReportError, Typed, HandlerTyped
<1>2. MapsTyped'
  BY <1>1, EndsTyped, Zenon DEF MapsTyped
<1>3. MailTyped' /\ DaemonTyped'
  BY <1>1, Zenon DEF Typed, MailTyped, DaemonTyped, daemonvars
<1>4. told' \in Seq({"finish", "fail"})
  <2>1. told \in Seq({"finish", "fail"}) /\ told' \in {told, Append(told, "fail")}
    BY <1>1, Zenon DEF ReportError, TellClient, HistoryTyped
  <2> QED BY <2>1
<1>5. HandlerTyped' /\ HistoryTyped'
  BY <1>1, <1>4, IdleTyped, Zenon DEF HandlerTyped, HistoryTyped, setting
<1> QED BY <1>2, <1>3, <1>5, Zenon DEF Typed

-----------------------------------------------------------------------------
(* So do the session, the client and the daemons.                          *)

\* A daemon's message is routed.
LEMMA RouteTyped ==
    ASSUME Typed, RouteResponse
    PROVE  Typed'
<1>1. /\ up # <<>> /\ up' = Tail(up) /\ MailTyped /\ MapsTyped
      /\ UNCHANGED <<setting, usb, h, down, daemonvars, verdict, told, failed>>
      /\ inbox' \in {inbox, Append(inbox, Head(up))}
      /\ tcp' \in {tcp, EndChannel(tcp, C)}
  BY Zenon DEF RouteResponse, Typed
<1>2. MailTyped'
  <2>1. Head(up) \in Letter(Response) /\ Tail(up) \in Seq(Letter(Response))
    BY <1>1, Queues, Zenon DEF MailTyped
  <2>2. inbox' \in Seq(Letter(Response))
    <3>1. Append(inbox, Head(up)) \in Seq(Letter(Response))
      BY <1>1, <2>1, Queues, Zenon DEF MailTyped
    <3> QED BY <1>1, <3>1, Zenon DEF MailTyped
  <2> QED BY <1>1, <2>1, <2>2, Zenon DEF MailTyped
<1>3. MapsTyped'
  BY <1>1, EndsTyped, Zenon DEF MapsTyped
<1>4. HandlerTyped' /\ DaemonTyped' /\ HistoryTyped'
  BY <1>1, Zenon DEF Typed, HandlerTyped, DaemonTyped, HistoryTyped, setting, daemonvars
<1> QED BY <1>2, <1>3, <1>4, Zenon DEF Typed

\* The session ends.
LEMMA SessionEndsTyped ==
    ASSUME Typed, SessionEnds
    PROVE  Typed'
<1>1. /\ MapsTyped /\ UNCHANGED <<setting, h, inbox, daemonvars, verdict, told, failed>>
      /\ usb' \in {usb, EndSessionWithCleanup(usb, S)} /\ tcp' \in {tcp, EndTcpSession(tcp, S)}
      /\ down' = <<>> /\ up' = <<>>
  BY Zenon DEF SessionEnds, Typed
<1>2. /\ IsRecord(usb', {"session_senders", "response_channels"})
      /\ usb'.session_senders \subseteq {S} /\ DOMAIN usb'.response_channels \subseteq {<<S, C>>}
  <2>1. CASE usb' = usb
    BY <1>1, <2>1, Zenon DEF MapsTyped
  <2>2. CASE usb' = EndSessionWithCleanup(usb, S)
    <3>1. /\ usb'.session_senders = usb.session_senders \ {S}
          /\ DOMAIN usb'.response_channels \subseteq DOMAIN usb.response_channels
      BY <1>1, <2>2, Zenon DEF MapsTyped, IsRecord, EndSessionWithCleanup
    <3>2. IsRecord(usb', {"session_senders", "response_channels"})
      BY <1>1, <2>2, Zenon DEF MapsTyped, IsRecord, EndSessionWithCleanup
    <3> QED BY <1>1, <3>1, <3>2, Zenon DEF MapsTyped
  <2> QED BY <1>1, <2>1, <2>2, Zenon
<1>3. MapsTyped'
  BY <1>1, <1>2, EndsTyped, Zenon DEF MapsTyped
<1>4. MailTyped'
  BY <1>1 DEF Typed, MailTyped
<1>5. HandlerTyped' /\ DaemonTyped' /\ HistoryTyped'
  BY <1>1, Zenon DEF Typed, HandlerTyped, DaemonTyped, HistoryTyped, setting, daemonvars
<1> QED BY <1>3, <1>4, <1>5, Zenon DEF Typed

\* Nothing of this moves, or only the client.
LEMMA SameTyped ==
    ASSUME Typed, ClientLeaves \/ UNCHANGED vars
    PROVE  Typed'
<1>1. UNCHANGED <<setting, hostvars, down, up, daemonvars>>
  BY Zenon DEF ClientLeaves, vars
<1>2. MapsTyped' /\ MailTyped' /\ DaemonTyped'
  BY <1>1, Zenon DEF Typed, MapsTyped, MailTyped, DaemonTyped, hostvars, daemonvars
<1>3. HandlerTyped' /\ HistoryTyped'
  BY <1>1, Zenon DEF Typed, HandlerTyped, HistoryTyped, hostvars, setting
<1> QED BY <1>2, <1>3, Zenon DEF Typed

\* The answers a daemon gives to anything but FileCheck.
Goes(x) == x.command = "FileBegin" \/ DirectoryError(x)
Plain == {x \in Response : ~Goes(x)}

\* What a daemon answers to a request: to FileCheck a go, a refusal of the
\* directory and perhaps a close, or a refusal; else none of the first two.
Fits(m, out) ==
    /\ out \in Seq(Response)
    /\ m.command # "FileCheck" => \A x \in Elems(out) : ~Goes(x)
    /\ \A i, j \in DOMAIN out : Goes(out[i]) /\ Goes(out[j]) => i = j
    /\ (\E x \in Elems(out) : DirectoryError(x)) =>
          /\ daemon = "device"
          /\ \A x \in Elems(out) : x.command = "KernelChannelClose" \/ DirectoryError(x)
    /\ daemon = "device" /\ m.command = "KernelWakeupSlavetask" => out = <<>>

Answered ==
    /\ DaemonTyped'
    /\ \E out : Fits(Head(down).msg, out) /\ up' = up \o Tagged(out, Head(down).tag)

\* The request at hand.
LEMMA RequestTyped ==
    ASSUME MailTyped, down # <<>>
    PROVE  /\ Tail(down) \in Seq(Letter(Request))
           /\ Head(down) \in Letter(Request)
           /\ Head(down).msg \in Request /\ Head(down).tag \in Nat \X Part
           /\ Head(down).msg.command \in Command /\ Head(down).msg.payload \in Seq(Text)
           /\ Parsed(Head(down).msg.command, Head(down).msg.payload)
           /\ Head(down).msg.channel_id = C
<1>1. Head(down) \in Letter(Request) /\ Tail(down) \in Seq(Letter(Request))
  BY Queues, Zenon DEF MailTyped
<1>2. Head(down).msg \in Request /\ Head(down).tag \in Nat \X Part
  BY <1>1, Zenon DEF Letter
<1> QED BY <1>1, <1>2, Zenon DEF Request, Message

\* Plain answers.
LEMMA PlainTask ==
    ASSUME NEW k \in Command \ {"FileBegin"}, NEW p \in Seq(Text),
           k = "FileCheck" => p[1] \in Nat, k = "KernelEcho" => p # <<"directory">>
    PROVE  Task(k, p) \in Plain
BY Messages, Zenon DEF Plain, Goes, DirectoryError, Response

LEMMA PlainFits ==
    ASSUME NEW m, NEW out \in Seq(Plain),
           daemon = "device" /\ m.command = "KernelWakeupSlavetask" => out = <<>>
    PROVE  Fits(m, out)
<1>1. \A i \in DOMAIN out : out[i] \in Plain
  OBVIOUS
<1>2. out \in Seq(Response)
  BY DEF Plain
<1>3. \A i \in DOMAIN out : ~Goes(out[i]) /\ ~DirectoryError(out[i])
  BY <1>1, Zenon DEF Plain, Goes
<1>4. \A x \in Elems(out) : ~Goes(x) /\ ~DirectoryError(x)
  BY <1>3, Zenon DEF Elems
<1> QED BY <1>2, <1>3, <1>4, Zenon DEF Fits

\* A device's answer.
LEMMA AnswerTyped ==
    ASSUME Typed, down # <<>>, NEW out, Fits(Head(down).msg, out), NEW new_task \in DeviceTask,
           NEW done, Answer(out, new_task, done)
    PROVE  Answered
<1>1. up' = up \o Tagged(out, Head(down).tag) /\ task' = new_task /\ file_map' = file_map
  BY Zenon DEF Answer, Tagged
<1>2. Head(down).tag \in Nat \X Part /\ DaemonTyped
  BY RequestTyped, Zenon DEF Typed
<1>3. stored' \subseteq Part
  <2>1. stored' \in {stored, stored \cup {Head(down).tag[2]}}
    BY Zenon DEF Answer, Stored
  <2>2. Head(down).tag[2] \in Part /\ stored \subseteq Part
    BY <1>2, Zenon DEF DaemonTyped
  <2> QED BY <2>1, <2>2, Zenon
<1> QED BY <1>1, <1>2, <1>3, Zenon DEF Answered, DaemonTyped

LEMMA PlainAnswer ==
    ASSUME Typed, down # <<>>, NEW out \in Seq(Plain), NEW new_task \in DeviceTask,
           Head(down).msg.command # "KernelWakeupSlavetask" \/ out = <<>>,
           NEW done, Answer(out, new_task, done)
    PROVE  Answered
BY PlainFits, AnswerTyped, Zenon

\* The answers of the daemons.
LEMMA PlainMessages ==
    /\ Failure \in Plain /\ ChannelClose(C) \in Plain /\ Wakeup \in Plain
    /\ EchoClient(C, "unknown") \in Plain /\ EchoClient(C, "failed") \in Plain
    /\ \A k \in {"AppBegin", "FlashdBegin", "FileData"} : Task(k, <<>>) \in Plain
    /\ \A n \in Nat : Task("FileFinish", <<n>>) \in Plain /\ Task("FlashdProgress", <<n>>) \in Plain
    /\ \A a, b \in Nat : Task("AppFinish", <<a, b>>) \in Plain /\ Task("FileData", <<a, b>>) \in Plain
    /\ \A w \in {"Ok", "Fail"} : Task("FlashdFinish", <<0, w>>) \in Plain
    /\ \A n \in Nat, w \in Text : Task("FileCheck", <<n, w, "">>) \in Plain
    /\ \A w \in Text : Task("AppCheck", <<w>>) \in Plain
<1>1. "failed" \in Text /\ "unknown" \in Text /\ "" \in Text /\ "Ok" \in Text /\ "Fail" \in Text
  BY Texts, Zenon
<1>2. \A n \in Nat : n \in Text
  BY Texts, Zenon
<1>3. ASSUME NEW w \in {"failed", "unknown"} PROVE EchoClient(C, w) \in Plain
  <2>1. PICK p : p = <<w>>
    BY Zenon
  <2>2. p \in Seq(Text) /\ p # <<"directory">>
    BY <1>1, <2>1, Payloads, Zenon
  <2>3. Task("KernelEcho", p) \in Plain
    BY <2>2, PlainTask, Zenon DEF Command
  <2> QED BY <2>1, <2>3, Zenon DEF EchoClient, Task
<1>4. ASSUME NEW n \in Nat,
             NEW k \in {"FileFinish", "FlashdProgress", "KernelChannelClose"}
      PROVE  Task(k, <<n>>) \in Plain
  BY <1>2, Payloads, PlainTask, Zenon DEF Command
<1>5. ChannelClose(C) \in Plain
  BY <1>4, Zenon DEF ChannelClose, Task
<1>6. ASSUME NEW k \in {"AppBegin", "FlashdBegin", "FileData", "KernelWakeupSlavetask"}
      PROVE  Task(k, <<>>) \in Plain
  BY Payloads, PlainTask, Zenon DEF Command
<1>7. ASSUME NEW a \in Nat, NEW b \in Nat, NEW k \in {"AppFinish", "FileData"}
      PROVE  Task(k, <<a, b>>) \in Plain
  <2>1. <<a, b>> \in Seq(Text)
    BY <1>2, Payloads, Zenon
  <2> QED BY <2>1, PlainTask, Zenon DEF Command
<1>8. ASSUME NEW w \in {"Ok", "Fail"} PROVE Task("FlashdFinish", <<0, w>>) \in Plain
  <2>1. <<0, w>> \in Seq(Text)
    BY <1>1, <1>2, Payloads, Zenon
  <2> QED BY <2>1, PlainTask, Zenon DEF Command
<1>9. ASSUME NEW n \in Nat, NEW w \in Text PROVE Task("FileCheck", <<n, w, "">>) \in Plain
  <2>1. PICK p : p = <<n, w, "">>
    BY Zenon
  <2>2. p \in Seq(Text) /\ p[1] \in Nat
    BY <1>1, <1>2, <2>1, Payloads, Zenon
  <2> QED BY <2>1, <2>2, PlainTask, Zenon DEF Command
<1>10. ASSUME NEW w \in Text PROVE Task("AppCheck", <<w>>) \in Plain
  BY Payloads, PlainTask, Zenon DEF Command
<1>11. Failure \in Plain /\ Wakeup \in Plain
  BY <1>3, <1>6, Zenon DEF Failure, Wakeup
<1> QED BY <1>3, <1>4, <1>5, <1>6, <1>7, <1>8, <1>9, <1>10, <1>11, Zenon

\* The tasks a device is left with.
LEMMA TasksTyped ==
    ASSUME Typed, down # <<>>
    PROVE  /\ NoTask \in DeviceTask /\ task \in DeviceTask
           /\ \A kind \in Kinds, size \in Nat : NewTask(kind, size) \in DeviceTask
           /\ [task EXCEPT !.chunks = Append(@, Head(down).msg.payload)] \in DeviceTask
<1>1. /\ task \in DeviceTask /\ Head(down).tag \in Nat \X ({0} \cup Part)
      /\ Head(down).msg.payload \in Seq(Text)
  BY RequestTyped, Zenon DEF Typed, DaemonTyped
<1>2. NoTask \in DeviceTask
  BY NoTagTyped DEF NoTask, DeviceTask
<1>3. \A kind \in Kinds, size \in Nat : NewTask(kind, size) \in DeviceTask
  BY <1>1 DEF NewTask, DeviceTask
<1>4. Append(task.chunks, Head(down).msg.payload) \in Seq(Seq(Text))
  BY <1>1 DEF DeviceTask
<1>5. [task EXCEPT !.chunks = Append(@, Head(down).msg.payload)] \in DeviceTask
  BY <1>1, <1>4, Zenon DEF DeviceTask
<1> QED BY <1>1, <1>2, <1>3, <1>5, Zenon

\* Sequences of plain answers.
LEMMA PlainSeqs ==
    /\ <<>> \in Seq(Plain)
    /\ \A x \in Plain : <<x>> \in Seq(Plain)
    /\ \A x, y \in Plain : <<x, y>> \in Seq(Plain)
    /\ \A p, q \in Seq(Plain) : p \o q \in Seq(Plain)
    /\ Refusal \in Seq(Plain)
<1>1. \A x, y \in Plain : <<x, y>> \in Seq(Plain)
  OBVIOUS
<1>2. Refusal \in Seq(Plain)
  BY <1>1, PlainMessages, Zenon DEF Refusal
<1> QED BY <1>1, <1>2

\* A device that is asked to take a file.
LEMMA CheckAnswered ==
    ASSUME Typed, down # <<>>, NEW kind \in Sender, NEW go,
           DeviceCheck(Head(down).msg, kind, go),
           \/ kind = "send" /\ Head(down).msg.command = "FileCheck" /\ go = Task("FileBegin", <<>>)
           \/ /\ kind # "send" /\ go \in Plain
              /\ Head(down).msg.command \in {"AppCheck", "FlashdCheck"}
    PROVE  daemon = "device" => Answered
<1> SUFFICES ASSUME daemon = "device" PROVE Answered
  BY Zenon
<1> DEFINE m == Head(down).msg
<1>1. m.payload[1] \in Nat /\ (kind # "send" => m.payload[2] # "dir") /\ kind \in Kinds
  BY RequestTyped, Zenon DEF Typed, Parsed, Kinds
<1>2. NoTask \in DeviceTask /\ NewTask(kind, m.payload[1]) \in DeviceTask
  BY <1>1, TasksTyped, Zenon
<1>3. ASSUME /\ m.payload[2] = "dir"
             /\ \/ Answer(<<EchoClient(C, "directory"), ChannelClose(C)>>, NoTask, FALSE)
                \/ Answer(<<EchoClient(C, "directory")>>, NoTask, FALSE)
      PROVE  Answered
  <2>1. PICK e, c : /\ e = EchoClient(C, "directory") /\ c = ChannelClose(C)
                    /\ e \in Response /\ c \in Response
                    /\ DirectoryError(e) /\ c.command = "KernelChannelClose" /\ ~Goes(c)
    <3>1. <<"directory">> \in Seq(Text)
      BY Payloads, Texts, Zenon
    <3>2. EchoClient(C, "directory") = Task("KernelEcho", <<"directory">>)
      BY Zenon DEF EchoClient, Task
    <3>3. EchoClient(C, "directory") \in Response /\ DirectoryError(EchoClient(C, "directory"))
      <4>1. PICK p : p = <<"directory">>
        BY Zenon
      <4>3. "KernelEcho" \in Command /\ p \in Seq(Text)
        BY <3>1, <4>1, Zenon DEF Command
      <4>2. /\ Task("KernelEcho", p) \in Response /\ Task("KernelEcho", p).command = "KernelEcho"
            /\ Task("KernelEcho", p).payload = p
        BY <4>3, Messages, Zenon
      <4> QED BY <3>2, <4>1, <4>2, Zenon DEF DirectoryError
    <3>4. ChannelClose(C) \in Plain /\ ChannelClose(C).command = "KernelChannelClose"
      BY PlainMessages, Zenon DEF ChannelClose, TaskMessage
    <3> QED BY <3>3, <3>4, Zenon DEF Plain
  <2>2. m.command = "FileCheck"
    BY <1>1, <1>3, Zenon
  <2>3. Fits(m, <<e, c>>)
    <3>1. PICK out : out = <<e, c>>
      BY Zenon
    <3>2. out \in Seq(Response) /\ DOMAIN out = {1, 2} /\ out[1] = e /\ out[2] = c
      BY <2>1, <3>1
    <3>3. Elems(out) = {e, c}
      BY <3>2, Zenon DEF Elems
    <3> QED BY <2>1, <2>2, <3>1, <3>2, <3>3 DEF Fits
  <2>4. Fits(m, <<e>>)
    <3>1. PICK out : out = <<e>>
      BY Zenon
    <3>2. out \in Seq(Response) /\ DOMAIN out = {1} /\ out[1] = e
      BY <2>1, <3>1
    <3>3. Elems(out) = {e}
      BY <3>2, Zenon DEF Elems
    <3> QED BY <2>1, <2>2, <3>1, <3>2, <3>3, Zenon DEF Fits
  <2> QED BY <1>2, <1>3, <2>1, <2>3, <2>4, AnswerTyped, Zenon
<1>4. CASE Answer(<<go>>, NewTask(kind, m.payload[1]), FALSE)
  <2>1. CASE kind # "send"
    BY <1>2, <1>4, <2>1, PlainSeqs, PlainAnswer, Zenon
  <2>2. CASE kind = "send"
    <3>1. go \in Response /\ m.command = "FileCheck" /\ ~DirectoryError(go)
      <4>1. go = Task("FileBegin", <<>>) /\ m.command = "FileCheck" /\ "FileBegin" \in Command
        BY <2>2, Zenon DEF Command
      <4>2. go \in Response /\ go.command = "FileBegin"
        BY <4>1, Payloads, Messages, Zenon
      <4> QED BY <4>1, <4>2, Zenon DEF DirectoryError
    <3>2. PICK out : out = <<go>>
      BY Zenon
    <3>3. out \in Seq(Response) /\ DOMAIN out = {1} /\ out[1] = go
      BY <3>1, <3>2
    <3>4. Elems(out) = {go}
      BY <3>3, Zenon DEF Elems
    <3>5. Fits(m, <<go>>)
      BY <3>1, <3>2, <3>3, <3>4, Zenon DEF Fits
    <3> QED BY <1>2, <1>4, <3>5, AnswerTyped, Zenon
  <2> QED BY <2>1, <2>2, Zenon
<1>5. CASE kind # "send" /\ Answer(<<Wakeup, go>>, NewTask(kind, m.payload[1]), FALSE)
  BY <1>2, <1>5, PlainMessages, PlainSeqs, PlainAnswer, Zenon
<1>6. CASE Answer(Refusal, NoTask, FALSE)
  BY <1>2, <1>6, PlainSeqs, PlainAnswer, Zenon
<1> QED BY <1>3, <1>4, <1>5, <1>6, Zenon DEF DeviceCheck

\* A device that gets a chunk or the end of the file, or is asked to erase.
LEMMA TakesAnswered ==
    ASSUME Typed, down # <<>>, Head(down).msg.command # "KernelWakeupSlavetask",
           \/ DeviceData(Head(down).msg)
           \/ DeviceFinish(Head(down).msg)
           \/ DeviceErase(Head(down).msg)
    PROVE  Answered
<1> DEFINE m == Head(down).msg
           t == [task EXCEPT !.chunks = Append(@, m.payload)]
           Fine(out) == out \in Seq(Plain)
<1>1. NoTask \in DeviceTask /\ task \in DeviceTask /\ t \in DeviceTask
  BY TasksTyped, Zenon
<1>2. /\ Fine(<<>>) /\ Fine(<<Task("FileFinish", <<1>>)>>) /\ Fine(Refusal)
      /\ Fine(<<Failure, Task("AppFinish", <<1, 1>>)>>) /\ Fine(<<Task("AppFinish", <<1, 0>>)>>)
      /\ Fine(<<Task("FileFinish", <<0>>), ChannelClose(C)>>) /\ Fine(<<Task("FileFinish", <<0>>)>>)
      /\ Fine(<<Task("FlashdProgress", <<50>>), Task("FlashdFinish", <<0, "Ok">>)>>)
      /\ Fine(<<Task("FlashdFinish", <<0, "Ok">>)>>) /\ Fine(<<Task("FlashdFinish", <<0, "Fail">>)>>)
  BY PlainMessages, PlainSeqs, Zenon
<1>3. \E out \in Seq(Plain), new_task \in {NoTask, task, t}, done \in BOOLEAN :
         Answer(out, new_task, done)
  <2>0. Whole(t) \in BOOLEAN /\ Whole(task) \in BOOLEAN
    BY Zenon DEF Whole
  <2>1. CASE DeviceData(m)
    BY <1>2, <2>0, <2>1, Zenon DEF DeviceData
  <2>2. CASE DeviceFinish(m)
    BY <1>2, <2>0, <2>2, Zenon DEF DeviceFinish
  <2>3. CASE DeviceErase(m)
    BY <1>2, <2>3, Zenon DEF DeviceErase
  <2> QED BY <2>1, <2>2, <2>3, Zenon
<1> QED BY <1>1, <1>3, PlainAnswer, Zenon

\* A device that is asked to send a file.
LEMMA InitAnswered ==
    ASSUME Typed, down # <<>>, Head(down).msg.command = "FileInit", DeviceInit(Head(down).msg)
    PROVE  Answered
<1>1. CASE \E size \in mix.sizes :
              Answer(<<Wakeup, Task("FileCheck", <<size, "remote", "">>)>>, NewTask("recv", size), FALSE)
  <2>1. PICK size \in mix.sizes :
           Answer(<<Wakeup, Task("FileCheck", <<size, "remote", "">>)>>, NewTask("recv", size), FALSE)
    BY <1>1, Zenon
  <2>2. size \in Nat /\ "recv" \in Kinds /\ "remote" \in Text
    BY Texts, TransferAssumption, Zenon DEF Typed, HandlerTyped, IsMix, Kinds
  <2>3. NewTask("recv", size) \in DeviceTask
    BY <2>2, TasksTyped, Zenon
  <2>4. <<Wakeup, Task("FileCheck", <<size, "remote", "">>)>> \in Seq(Plain)
    BY <2>2, PlainMessages, PlainSeqs, Zenon
  <2> QED BY <2>1, <2>3, <2>4, PlainAnswer, Zenon
<1>2. CASE Answer(Refusal, NoTask, FALSE)
  BY <1>2, TasksTyped, PlainSeqs, PlainAnswer, Zenon
<1> QED BY <1>1, <1>2, Zenon DEF DeviceInit

\* A device that is to send its chunks.
LEMMA BeginAnswered ==
    ASSUME Typed, down # <<>>, Head(down).msg.command = "FileBegin", DeviceBegin(Head(down).msg)
    PROVE  Answered
<1> DEFINE Chunks(k) == [i \in 1..k |-> Task("FileData", <<task.tag[1], i>>)]
<1>1. task \in DeviceTask /\ NoTask \in DeviceTask /\ task.tag[1] \in Nat /\ task.size \in Nat
  BY TasksTyped, Zenon DEF DeviceTask
<1>2. ASSUME NEW k \in Nat PROVE Chunks(k) \in Seq(Plain)
  <2>1. \A i \in 1..k : Task("FileData", <<task.tag[1], i>>) \in Plain
    <3>1. \A a, b \in Nat : Task("FileData", <<a, b>>) \in Plain
      BY PlainMessages, Zenon
    <3>2. \A i \in 1..k : i \in Nat
      OBVIOUS
    <3> QED BY <1>1, <3>1, <3>2, Zenon
  <2>2. Chunks(k) \in [1..k -> Plain]
    BY <2>1, Zenon
  <2>3. [1..k -> Plain] \subseteq Seq(Plain)
    OBVIOUS
  <2> QED BY <2>2, <2>3, Zenon
<1>3. CASE Answer(<<>>, task, FALSE)
  BY <1>1, <1>3, PlainSeqs, PlainAnswer, Zenon
<1>4. CASE Answer(Chunks(task.size), task, FALSE)
  BY <1>1, <1>2, <1>4, PlainAnswer, Zenon
<1>5. CASE Answer(<<Task("FileData", <<>>)>> \o Chunks(task.size) \o <<Task("FileFinish", <<1>>)>>,
                  task, FALSE)
  <2>1. /\ <<Task("FileData", <<>>)>> \in Seq(Plain) /\ <<Task("FileFinish", <<1>>)>> \in Seq(Plain)
        /\ Chunks(task.size) \in Seq(Plain)
    BY <1>1, <1>2, PlainMessages, PlainSeqs, Zenon
  <2>2. <<Task("FileData", <<>>)>> \o Chunks(task.size) \o <<Task("FileFinish", <<1>>)>> \in Seq(Plain)
    BY <2>1, PlainSeqs, Zenon
  <2> QED BY <1>1, <1>5, <2>2, PlainAnswer, Zenon
<1>6. CASE \E k \in 0..task.size : Answer(Chunks(k) \o Refusal, NoTask, FALSE)
  <2>1. PICK k \in 0..task.size : Answer(Chunks(k) \o Refusal, NoTask, FALSE)
    BY <1>6, Zenon
  <2>2. Chunks(k) \in Seq(Plain) /\ Refusal \in Seq(Plain)
    BY <1>1, <1>2, PlainSeqs, SMTT(20)
  <2>3. Chunks(k) \o Refusal \in Seq(Plain)
    BY <2>2, PlainSeqs, Zenon
  <2> QED BY <1>1, <2>1, <2>3, PlainAnswer, Zenon
<1> QED BY <1>3, <1>4, <1>5, <1>6, Zenon DEF DeviceBegin

\* A device takes a request.
LEMMA DeviceAnswered ==
    ASSUME Typed, down # <<>>, daemon = "device", DeviceTakes(Head(down).msg)
    PROVE  Answered
<1> DEFINE m == Head(down).msg
<1>1. CASE m.command = "FileCheck" /\ DeviceCheck(m, "send", Task("FileBegin", <<>>))
  BY <1>1, CheckAnswered, Zenon DEF Sender
<1>2. CASE m.command = "AppCheck" /\ DeviceCheck(m, "install", Task("AppBegin", <<>>))
  BY <1>2, CheckAnswered, PlainMessages, Zenon DEF Sender
<1>3. CASE m.command = "FlashdCheck" /\ DeviceCheck(m, "flash", Task("FlashdBegin", <<>>))
  BY <1>3, CheckAnswered, PlainMessages, Zenon DEF Sender
<1>4. CASE m.command \in {"FileData", "AppData", "FlashdData"} /\ DeviceData(m)
  BY <1>4, TakesAnswered, Zenon
<1>5. CASE m.command \in {"FileFinish", "FlashdFinish"} /\ DeviceFinish(m)
  BY <1>5, TakesAnswered, Zenon
<1>6. CASE m.command = "FileInit" /\ DeviceInit(m)
  BY <1>6, InitAnswered, Zenon
<1>7. CASE m.command = "FileBegin" /\ DeviceBegin(m)
  BY <1>7, BeginAnswered, Zenon
<1>8. CASE m.command = "FlashdErase" /\ DeviceErase(m)
  BY <1>8, TakesAnswered, Zenon
<1>9. CASE Answer(<<>>, task, FALSE)
  BY <1>9, TasksTyped, PlainSeqs, PlainAnswer, Zenon
<1> QED BY <1>1, <1>2, <1>3, <1>4, <1>5, <1>6, <1>7, <1>8, <1>9, Zenon DEF DeviceTakes

\* hdcd handles a request.
LEMMA HdcdFits ==
    ASSUME Typed, down # <<>>, daemon = "hdcd", NEW ok \in BOOLEAN,
           NEW m, m = Head(down).msg, NEW e, e = HdcdDispatch(file_map, m, ok)
    PROVE  DOMAIN e.file_map \subseteq {C} /\ Fits(m, e.out)
<1>1. /\ m.channel_id = C /\ m.payload \in Seq(Text) /\ Parsed(m.command, m.payload)
      /\ m.command \in Command /\ DOMAIN file_map \subseteq {C}
  BY RequestTyped, Zenon DEF Typed, DaemonTyped
<1> DEFINE Good(f, out) == e = Effect(f, out) /\ DOMAIN f \subseteq {C} /\ out \in Seq(Plain)
<1>2. ASSUME NEW f, NEW out, Good(f, out)
      PROVE  DOMAIN e.file_map \subseteq {C} /\ Fits(m, e.out)
  <2>1. e.file_map = f /\ e.out = out
    BY <1>2 DEF Effect
  <2> QED BY <1>2, <2>1, PlainFits, Zenon
<1>3. ASSUME NEW w \in {"unknown", "failed"}, e = Refuse(file_map, m, w)
      PROVE  Good(file_map, <<EchoClient(C, w)>>)
  BY <1>1, <1>3, PlainMessages, PlainSeqs, Zenon DEF Refuse
<1>4. CASE m.command = "FileInit"
  <2>1. e = HandleFileInit(file_map, m)
    BY <1>4, Zenon DEF HdcdDispatch, HandleFileTask
  <2>2. CASE ParseFilePaths(m.payload) = <<>>
    BY <1>2, <1>3, <2>1, <2>2, Zenon DEF HandleFileInit
  <2>3. CASE ParseFilePaths(m.payload) # <<>>
    <3>1. PICK f, w : /\ f = Put(file_map, C, FileTransferState(w))
                      /\ w = ParseFilePaths(m.payload)[2]
                      /\ e = Effect(f, <<TaskMessage(C, "FileCheck", <<0, w, "">>)>>)
      BY <1>1, <2>1, <2>3, Zenon DEF HandleFileInit
    <3>2. w \in Text
      <4>1. m.payload \in {<<"recv", "re", "mote", "local">>, <<"recv", "remote", "local">>}
        BY <1>1, <1>4, Zenon DEF Parsed
      <4>2. CASE m.payload = <<"recv", "re", "mote", "local">>
        <5>1. PICK p : p = m.payload
          BY Zenon
        <5>2. Len(p) = 4 /\ p[3] = "mote" /\ p[4] = "local"
          BY <4>2, <5>1
        <5>3. ParseFilePaths(p) = <<p[3], p[4]>>
          BY <5>2 DEF ParseFilePaths
        <5>4. w = "local"
          <6>1. ParseFilePaths(p)[2] = p[4]
            BY <5>3
          <6>2. w = ParseFilePaths(p)[2]
            BY <3>1, <5>1, Zenon
          <6> QED BY <5>2, <6>1, <6>2, Zenon
        <5> QED BY <5>4, Texts, Zenon
      <4>3. CASE m.payload = <<"recv", "remote", "local">>
        <5>1. PICK p : p = m.payload
          BY Zenon
        <5>2. Len(p) = 3
          BY <4>3, <5>1, Zenon
        <5>3. ParseFilePaths(p) = <<>>
          BY <5>2 DEF ParseFilePaths
        <5> QED BY <2>3, <5>1, <5>3, Zenon
      <4> QED BY <4>1, <4>2, <4>3, Zenon
    <3>3. DOMAIN f \subseteq {C}
      BY <1>1, <3>1, Zenon DEF Put
    <3>4. <<TaskMessage(C, "FileCheck", <<0, w, "">>)>> \in Seq(Plain)
      BY <3>2, PlainMessages, PlainSeqs, Zenon DEF Task
    <3> QED BY <1>2, <3>1, <3>3, <3>4, Zenon
  <2> QED BY <2>2, <2>3, Zenon
<1>5. CASE m.command = "FileCheck"
  <2>1. e = HandleFileCheck(file_map, m)
    BY <1>5, Zenon DEF HdcdDispatch, HandleFileTask
  <2>2. DOMAIN e.file_map \subseteq {C} /\ e.out = <<Task("FileBegin", <<>>)>>
    BY <1>1, <2>1 DEF HandleFileCheck, Effect, Task
  <2>3. PICK go : go = Task("FileBegin", <<>>)
    BY Zenon
  <2>4. go \in Response /\ go.command = "FileBegin" /\ ~DirectoryError(go)
    <3>1. "FileBegin" \in Command
      BY Zenon DEF Command
    <3>2. go \in Response /\ go.command = "FileBegin"
      BY <2>3, <3>1, Payloads, Messages, Zenon
    <3> QED BY <3>2, Zenon DEF DirectoryError
  <2>5. e.out \in Seq(Response) /\ DOMAIN e.out = {1} /\ e.out[1] = go
    <3>1. <<go>> \in Seq(Response) /\ DOMAIN <<go>> = {1} /\ <<go>>[1] = go
      BY <2>4
    <3>2. e.out = <<go>>
      BY <2>2, <2>3, Zenon
    <3> QED BY <3>1, <3>2, Zenon
  <2>6. Elems(e.out) = {go}
    BY <2>5, Zenon DEF Elems
  <2> QED BY <1>5, <2>2, <2>4, <2>5, <2>6, Zenon DEF Fits
<1>6. CASE m.command = "FileBegin"
  <2>1. e = HandleFileBegin(file_map, m, ok)
    BY <1>6, Zenon DEF HdcdDispatch, HandleFileTask
  <2>2. CASE C \in DOMAIN file_map /\ ok
    <3>1. PICK f : /\ f = [file_map EXCEPT ![C].file = "open", ![C].content = <<>>]
                   /\ e = Effect(f, <<>>)
      BY <1>1, <2>1, <2>2, Zenon DEF HandleFileBegin
    <3>2. DOMAIN f \subseteq {C}
      BY <1>1, <3>1, Zenon
    <3> QED BY <1>2, <3>1, <3>2, PlainSeqs, Zenon
  <2>3. CASE ~(C \in DOMAIN file_map /\ ok)
    BY <1>1, <1>2, <1>3, <2>1, <2>3, Zenon DEF HandleFileBegin
  <2> QED BY <2>2, <2>3, Zenon
<1>7. CASE m.command \in {"FileData", "AppData"}
  <2>1. e = HandleFileData(file_map, m, ok)
    BY <1>7, Zenon DEF HdcdDispatch, HandleFileTask, HandleAppTask
  <2>2. CASE /\ C \in DOMAIN file_map /\ ok /\ file_map[C].file # "none"
    <3>1. PICK f : /\ f = [file_map EXCEPT ![C].content = Append(@, m.payload)]
                   /\ e = Effect(f, <<>>)
      BY <1>1, <2>1, <2>2, Zenon DEF HandleFileData
    <3>2. DOMAIN f \subseteq {C}
      BY <1>1, <3>1, Zenon
    <3> QED BY <1>2, <3>1, <3>2, PlainSeqs, Zenon
  <2>3. CASE C \in DOMAIN file_map /\ file_map[C].file = "none"
    BY <1>1, <1>2, <2>1, <2>3, PlainSeqs, Zenon DEF HandleFileData
  <2>4. CASE C \notin DOMAIN file_map \/ (~ok /\ file_map[C].file # "none")
    BY <1>1, <1>2, <1>3, <2>1, <2>4, Zenon DEF HandleFileData
  <2> QED BY <2>2, <2>3, <2>4, Zenon
<1>8. CASE m.command = "FileFinish"
  <2>1. e = HandleFileFinish(file_map, m)
    BY <1>8, Zenon DEF HdcdDispatch, HandleFileTask
  <2>2. CASE C \in DOMAIN file_map
    <3>1. PICK f : f = Remove(file_map, C) /\ e = Effect(f, <<ChannelClose(C)>>)
      BY <1>1, <2>1, <2>2, Zenon DEF HandleFileFinish
    <3>2. DOMAIN f \subseteq {C}
      BY <1>1, <3>1, Zenon DEF Remove
    <3> QED BY <1>2, <3>1, <3>2, PlainMessages, PlainSeqs, Zenon
  <2>3. CASE C \notin DOMAIN file_map
    BY <1>1, <1>2, <1>3, <2>1, <2>3, Zenon DEF HandleFileFinish
  <2> QED BY <2>2, <2>3, Zenon
<1>9. CASE m.command = "AppInit"
  <2>1. e = HandleAppInit(file_map, m)
    BY <1>9, Zenon DEF HdcdDispatch, HandleAppTask
  <2>2. m.payload = <<"">>
    BY <1>1, <1>9, Zenon DEF Parsed
  <2>3. ParseAppPath(m.payload) = <<>>
    <3>1. PICK p : p = m.payload
      BY Zenon
    <3>2. Len(p) = 1
      BY <2>2, <3>1, Zenon
    <3>3. ParseAppPath(p) = <<>>
      BY <3>2 DEF ParseAppPath
    <3> QED BY <3>1, <3>3, Zenon
  <2> QED BY <1>2, <1>3, <2>1, <2>3, Zenon DEF HandleAppInit
<1>10. CASE m.command = "AppCheck"
  <2>1. e = Effect(file_map, <<Task("AppBegin", <<>>)>>)
    BY <1>1, <1>10, Zenon DEF HdcdDispatch, HandleAppTask, HandleAppCheck, Task
  <2> QED BY <1>1, <1>2, <2>1, PlainMessages, PlainSeqs, Zenon
<1>11. CASE m.command \in {"FlashdCheck", "FlashdData", "FlashdFinish", "FlashdErase"}
  <2>1. e = HandleFlashdTask(file_map, m)
    BY <1>11, Zenon DEF HdcdDispatch
  <2>2. PICK out \in {<<Task("FlashdBegin", <<>>)>>, <<>>, <<Task("FlashdFinish", <<0, "Ok">>)>>} :
           e = Effect(file_map, out)
    BY <1>1, <1>11, <2>1, Zenon DEF HandleFlashdTask, FlashdStubCompleted, Task
  <2>3. out \in Seq(Plain)
    BY PlainMessages, PlainSeqs, Zenon
  <2> QED BY <1>1, <1>2, <2>2, <2>3, Zenon
<1>12. CASE m.command \notin {"FileInit", "FileCheck", "FileBegin", "FileData", "FileFinish",
                             "AppInit", "AppCheck", "AppData",
                             "FlashdCheck", "FlashdData", "FlashdFinish", "FlashdErase"}
  <2>1. e = Refuse(file_map, m, "unknown")
    BY <1>12, Zenon DEF HdcdDispatch
  <2> QED BY <1>2, <1>3, <2>1, Zenon
<1> QED BY <1>4, <1>5, <1>6, <1>7, <1>8, <1>9, <1>10, <1>11, <1>12, Zenon

\* A daemon takes a request.
LEMMA DaemonAnswered ==
    ASSUME Typed, DaemonTakes
    PROVE  Answered
<1>1. down # <<>>
  BY Zenon DEF DaemonTakes
<1>2. CASE daemon = "device" /\ DeviceTakes(Head(down).msg)
  BY <1>1, <1>2, DeviceAnswered, Zenon
<1>3. CASE daemon = "hdcd" /\ HdcdTakes(Head(down).msg)
  <2>1. PICK ok \in BOOLEAN : \E e :
           /\ e = HdcdDispatch(file_map, Head(down).msg, ok)
           /\ file_map' = e.file_map /\ up' = up \o Tagged(e.out, Head(down).tag)
           /\ stored' \in {stored, Stored(Head(down).tag)} /\ task' = task
    BY <1>3, Zenon DEF HdcdTakes, Tagged
  <2>0. PICK e :
           /\ e = HdcdDispatch(file_map, Head(down).msg, ok)
           /\ file_map' = e.file_map /\ up' = up \o Tagged(e.out, Head(down).tag)
           /\ stored' \in {stored, Stored(Head(down).tag)} /\ task' = task
    BY <2>1, Zenon
  <2>2. DOMAIN e.file_map \subseteq {C} /\ Fits(Head(down).msg, e.out)
    BY <1>1, <1>3, <2>0, HdcdFits, Zenon
  <2>3. Head(down).tag \in Nat \X Part /\ DaemonTyped
    BY <1>1, RequestTyped, Zenon DEF Typed
  <2>4. stored' \subseteq Part
    <3>1. Head(down).tag[2] \in Part /\ stored \subseteq Part
      BY <2>3, Zenon DEF DaemonTyped
    <3> QED BY <2>0, <3>1, Zenon DEF Stored
  <2> QED BY <2>0, <2>2, <2>3, <2>4, Zenon DEF Answered, DaemonTyped
<1> QED BY <1>2, <1>3, Zenon DEF DaemonTakes

LEMMA DaemonTypedStep ==
    ASSUME Typed, DaemonTakes
    PROVE  Typed'
<1>1. /\ Answered /\ MailTyped /\ down # <<>> /\ down' = Tail(down)
      /\ UNCHANGED <<setting, hostvars>>
  BY DaemonAnswered, Zenon DEF Typed, DaemonTakes
<1>2. PICK out : Fits(Head(down).msg, out) /\ up' = up \o Tagged(out, Head(down).tag)
  BY <1>1, Zenon DEF Answered
<1>3. up' \in Seq(Letter(Response))
  <2>1. out \in Seq(Response) /\ Head(down).tag \in Nat \X Part
    BY <1>1, <1>2, RequestTyped, Zenon DEF Fits
  <2>2. Tagged(out, Head(down).tag) \in Seq(Letter(Response))
    BY <2>1, Posted, Zenon
  <2> QED BY <1>1, <1>2, <2>2, Queues, Zenon DEF MailTyped
<1>4. MailTyped'
  BY <1>1, <1>3, RequestTyped, Zenon DEF MailTyped, hostvars
<1>5. MapsTyped' /\ HandlerTyped' /\ HistoryTyped'
  BY <1>1, Zenon DEF Typed, MapsTyped, HandlerTyped, HistoryTyped, hostvars, setting
<1> QED BY <1>1, <1>4, <1>5, Zenon DEF Typed, Answered

\* Every step keeps the types.
LEMMA TypedStep == Typed /\ [Next]_vars => Typed'
<1> SUFFICES ASSUME Typed, [Next]_vars PROVE Typed'
  BY Zenon
<1>1. CASE \E kind \in mix.kinds, path \in mix.paths, size \in mix.sizes : Begin(kind, path, size)
  BY <1>1, BeginTyped, Zenon
<1>2. CASE HandlerStep
  BY Zenon, <1>2, CheckTyped, OpenTyped, GiveUpTyped, TakeGoTyped, StreamTyped, TakeVerdictTyped,
     RecvSendsTyped, TakeDataTyped, ReplyTyped, UnregisterTyped, ReportTyped DEF HandlerStep
<1>3. CASE RouteResponse
  BY <1>3, RouteTyped, Zenon
<1>4. CASE SessionEnds
  BY <1>4, SessionEndsTyped, Zenon
<1>5. CASE ClientLeaves \/ UNCHANGED vars
  BY <1>5, SameTyped, Zenon
<1>6. CASE DaemonTakes
  BY <1>6, DaemonTypedStep, Zenon
<1> QED BY <1>1, <1>2, <1>3, <1>4, <1>5, <1>6, Zenon DEF Next

\* Types are as the run checks them, for any number of transfers, packages
\* and chunks: the handler's counters stay within the file and the packages,
\* and the maps name only this session and this channel (server.rs:2561-2590,
\* 2851-2886).
THEOREM TransferTyping == Spec => []TypeOK
<1>1. Init => Typed
  BY TypedInit, Zenon
<1> QED BY <1>1, TypedStep, TypedIsTypeOK, PTL DEF Spec

\* Every message on the links and in the handler's receiver is one its sender
\* can have written, late ones of earlier transfers included: a FileCheck has
\* the size that handle_server_file_recv reads from it (server.rs:2704).
THEOREM MessagesAreTyped == Spec => []MailTyped
<1>1. Init => Typed
  BY TypedInit, Zenon
<1>2. Typed => MailTyped
  BY Zenon DEF Typed
<1> QED BY <1>1, <1>2, TypedStep, PTL DEF Spec

-----------------------------------------------------------------------------
(* A receiver is registered while its handler runs.                        *)

\* Every step keeps it so.
LEMMA AttendedStep == Typed /\ Attended /\ [Next]_vars => Attended'
<1> SUFFICES ASSUME Typed, Attended, [Next]_vars PROVE Attended'
  BY Zenon
<1> DEFINE Away == {"idle", "check", "report"}
<1>1. h \in Handler
  BY Zenon DEF Typed, HandlerTyped
<1>2. ASSUME h'.pc \notin Away PROVE Attended'
  BY <1>2, Zenon DEF Attended
<1>3. ASSUME usb' = usb, h.pc \in Away PROVE Attended'
  BY <1>3, Zenon DEF Attended
<1>4. ASSUME usb' = usb, h' = h PROVE Attended'
  BY <1>4, Zenon DEF Attended
<1>5. CASE \E kind \in mix.kinds, path \in mix.paths, size \in mix.sizes : Begin(kind, path, size)
  BY <1>3, <1>5, Zenon DEF Begin
<1>6. CASE CheckArguments
  BY <1>1, <1>2, <1>3, <1>6, Zenon DEF CheckArguments, Goto, Handler
<1>7. CASE OpenTransfer
  <2>1. h'.pc \notin Away
    BY <1>1, <1>7, Zenon DEF OpenTransfer, Fail, Handler
  <2> QED BY <1>2, <2>1, Zenon
<1>8. CASE Timeout \/ ResponseChannelClosed
  <2>1. h'.pc \notin Away
    BY <1>1, <1>8, Zenon DEF Timeout, ResponseChannelClosed, GiveUp, Goto, Fail, Handler
  <2> QED BY <1>2, <2>1, Zenon
<1>9. CASE TakeGo
  <2>1. h'.pc \notin Away
    BY <1>1, <1>9, Zenon DEF TakeGo, Fail, Handler
  <2> QED BY <1>2, <2>1, Zenon
<1>10. CASE StreamData
  <2>1. h'.pc \notin Away
    BY <1>1, <1>10, Zenon DEF StreamData, Goto, Fail, Handler
  <2> QED BY <1>2, <2>1, Zenon
<1>11. CASE TakeVerdict
  <2>1. h'.pc \notin Away
    BY <1>1, <1>11, Zenon DEF TakeVerdict, Goto, Fail, Handler
  <2> QED BY <1>2, <2>1, Zenon
<1>12. CASE CreateLocalFile \/ ConfirmData \/ AcknowledgeFinish
  <2>1. h'.pc \notin Away
    BY <1>1, <1>12, Zenon DEF CreateLocalFile, ConfirmData, AcknowledgeFinish, Goto, Fail, Handler
  <2> QED BY <1>2, <2>1, Zenon
<1>13. CASE TakeData
  <2>1. h'.pc \notin Away
    BY <1>1, <1>13, Zenon DEF TakeData, Goto, Fail, Handler
  <2> QED BY <1>2, <2>1, Zenon
<1>14. CASE ReplyToClient
  <2>1. h'.pc \notin Away
    BY <1>1, <1>14, Zenon DEF ReplyToClient, Goto, Fail, Handler
  <2> QED BY <1>2, <2>1, Zenon
<1>15. CASE UnregisterReceiver
  BY <1>15, Zenon DEF UnregisterReceiver, Unregister, Remove, Attended, Registered, Typed, MapsTyped, IsRecord
<1>16. CASE ReportError
  BY <1>3, <1>16, Zenon DEF ReportError
<1>17. CASE RouteResponse
  BY <1>4, <1>17, Zenon DEF RouteResponse
<1>18. CASE SessionEnds
  <2>1. usb' \in {usb, EndSessionWithCleanup(usb, S)} /\ h' = h
    BY <1>18, Zenon DEF SessionEnds
  <2>2. CASE usb' = EndSessionWithCleanup(usb, S)
    <3>1. DOMAIN usb'.response_channels \subseteq DOMAIN usb.response_channels
      BY <2>2, Zenon DEF EndSessionWithCleanup, Typed, MapsTyped, IsRecord
    <3> QED BY <2>1, <3>1, Zenon DEF Attended, Registered
  <2> QED BY <1>4, <2>1, <2>2, Zenon
<1>19. CASE ClientLeaves \/ UNCHANGED vars
  BY <1>4, <1>19, Zenon DEF ClientLeaves, vars, hostvars
<1>20. CASE DaemonTakes
  BY <1>4, <1>20, Zenon DEF DaemonTakes, hostvars
<1> QED BY SMTT(20), <1>5, <1>6, <1>7, <1>8, <1>9, <1>10, <1>11, <1>12, <1>13, <1>14, <1>15,
           <1>16, <1>17,
           <1>18, <1>19, <1>20 DEF Next, HandlerStep

\* Between the transfers of a channel no receiver is registered, so that a
\* daemon's message then reaches the client and is not swallowed
\* (unregister_response_channel on the way out, server.rs:2641, 2809, 2886, 3215).
THEOREM ReceiversAreRead == Spec => []RegisteredIsRead
<1>1. Init => Typed /\ Attended
  BY TypedInit, Zenon
<1>2. Typed /\ Attended /\ [Next]_vars => Typed' /\ Attended'
  BY TypedStep, AttendedStep, Zenon
<1>3. Attended => RegisteredIsRead
  BY Zenon DEF Attended, RegisteredIsRead
<1> QED BY <1>1, <1>2, <1>3, PTL DEF Spec

=============================================================================
