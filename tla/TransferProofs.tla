--------------------------- MODULE TransferProofs ---------------------------
(***************************************************************************)
(* Proofs about transfers, for any number of them on a channel, any files  *)
(* and packages, against either daemon: no late answer fails the second    *)
(* attempt of file send.                                                   *)
(***************************************************************************)
EXTENDS TransferTypes

-----------------------------------------------------------------------------
(* The invariant.                                                          *)

\* The answers to FileCheck that let file send go on.
Reply(t) == t.msg.command = "FileBegin" \/ DirectoryError(t.msg)
Lone(q) == \A i, j \in DOMAIN q : Reply(q[i]) /\ Reply(q[j]) => i = j
Absent(q) == \A t \in Elems(q) : ~Reply(t)
Asks(t) == t.msg.command = "FileCheck"
Unasked == \A t \in Elems(down) : ~Asks(t)

\* No FileCheck is on its way or has been answered without the handler's
\* having read it.
Quiet == Unasked /\ Absent(up) /\ Absent(inbox)

\* One FileCheck is on its way, behind everything else, or has been answered
\* by one reply.
OnItsWay ==
    /\ Absent(up) /\ Absent(inbox)
    /\ \A i \in DOMAIN down : Asks(down[i]) => i = Len(down) /\ down[i].tag = Tag

HasReply ==
    /\ down = <<>>
    /\ Lone(up) /\ Lone(inbox) /\ (Absent(up) \/ Absent(inbox))
    /\ \A t \in Elems(up) \cup Elems(inbox) : Reply(t) => t.tag = Tag

\* No transfer of the channel has failed so far.
Hopeful == failed = 0 /\ verdict.outcome # "fail"

Handshake ==
    Hopeful => IF h.kind = "send" /\ h.pc = "await" THEN OnItsWay \/ HasReply ELSE Quiet

\* What is on the links is of this transfer or of an earlier one.
Dated ==
    \A t \in Elems(down) \cup Elems(up) \cup Elems(inbox) :
       /\ t.tag[1] <= h.n
       /\ h.pc = "check" => t.tag[1] < h.n
       /\ h.pc = "open" /\ h.kind = "send" /\ h.i = 1 => t.tag[1] < h.n

\* Of the first attempt.
First == <<h.n, 1>>
Rejected(q) == \E t \in Elems(q) : DirectoryError(t.msg)
Over(q) ==
    \A t \in Elems(q) :
       t.tag = First => t.msg.command = "KernelChannelClose" \/ DirectoryError(t.msg)
Free(q) == \A t \in Elems(q) : t.tag # First

\* What a device says of the first attempt follows its FileCheck.  When it
\* has rejected a directory it has nothing more to say but a close.
FirstTry ==
    Hopeful /\ h.kind = "send" /\ ~h.retried /\ daemon = "device" =>
       /\ h.pc \in {"check", "open", "await"} =>
             \A t \in Elems(down) :
                t.tag = First => t.msg.command = "KernelWakeupSlavetask" \/ Asks(t)
       /\ h.pc \in {"check", "open"} => Free(up) /\ Free(inbox)
       /\ h.pc = "await" /\ ~Unasked => Free(up) /\ Free(inbox)
       /\ h.pc = "await" /\ (Rejected(up) \/ Rejected(inbox)) => Over(up) /\ Over(inbox)

SecondTry ==
    Hopeful /\ h.kind = "send" /\ h.retried /\ h.pc \in {"open", "await"} =>
       Free(down) /\ Over(up) /\ Over(inbox)

\* hdcd does not reject directories.
HdcdAccepts == daemon = "hdcd" => ~h.retried /\ ~Rejected(up) /\ ~Rejected(inbox)

\* A transfer that has failed only tells and unregisters.
Running ==
    verdict.outcome = "fail" => \/ h.pc \in {"idle", "unregister", "report"}
                               \/ (h.pc = "reply" /\ h.kind = "send")

Retry ==
    Handshake /\ Dated /\ FirstTry /\ SecondTry /\ HdcdAccepts /\ Running /\ RetryNotSpoiled

\* One message is alone in a queue that had none of its kind.
LEMMA Lonely ==
    ASSUME NEW X, NEW q \in Seq(X)
    PROVE  /\ Absent(q) => Lone(q)
           /\ \A x \in X : (Lone(q) /\ ~Reply(x)) \/ Absent(q) => Lone(Append(q, x))
           /\ q # <<>> /\ Lone(q) => Lone(Tail(q)) /\ (Reply(Head(q)) => Absent(Tail(q)))
           /\ \A r \in Seq(X) : Absent(q) /\ Lone(r) => Lone(q \o r)
<1>1. Absent(q) => Lone(q)
  BY Zenon DEF Absent, Lone, Elems
<1>2. ASSUME NEW x \in X, (Lone(q) /\ ~Reply(x)) \/ Absent(q)
      PROVE  Lone(Append(q, x))
  <2>1. /\ \A i \in DOMAIN Append(q, x) : i \in DOMAIN q \/ i = Len(q) + 1
        /\ \A i \in DOMAIN q : Append(q, x)[i] = q[i]
        /\ Append(q, x)[Len(q) + 1] = x
    OBVIOUS
  <2>2. CASE Lone(q) /\ ~Reply(x)
    BY <2>1, <2>2, Zenon DEF Lone
  <2>3. CASE Absent(q)
    <3>1. \A i \in DOMAIN q : ~Reply(q[i])
      BY <2>3, Zenon DEF Absent, Elems
    <3> QED BY <2>1, <3>1, Zenon DEF Lone
  <2> QED BY <1>2, <2>2, <2>3, Zenon
<1>3. ASSUME q # <<>>, Lone(q)
      PROVE  Lone(Tail(q)) /\ (Reply(Head(q)) => Absent(Tail(q)))
  <2>1. /\ \A i \in DOMAIN Tail(q) : i \in Nat /\ i + 1 \in DOMAIN q /\ Tail(q)[i] = q[i + 1]
        /\ \A i \in DOMAIN Tail(q) : i + 1 # 1
        /\ \A i, j \in DOMAIN Tail(q) : i + 1 = j + 1 => i = j
        /\ 1 \in DOMAIN q /\ Head(q) = q[1]
    BY <1>3
  <2>2. Lone(Tail(q))
    BY <1>3, <2>1, Zenon DEF Lone
  <2>3. Reply(Head(q)) => \A i \in DOMAIN Tail(q) : ~Reply(Tail(q)[i])
    BY <1>3, <2>1, Zenon DEF Lone
  <2>4. Reply(Head(q)) => Absent(Tail(q))
    BY <2>3, Zenon DEF Absent, Elems
  <2> QED BY <2>2, <2>4, Zenon
<1>4. ASSUME NEW r \in Seq(X), Absent(q), Lone(r)
      PROVE  Lone(q \o r)
  <2>1. \A i \in DOMAIN (q \o r) : \/ i \in DOMAIN q /\ (q \o r)[i] = q[i]
                                   \/ i - Len(q) \in DOMAIN r /\ (q \o r)[i] = r[i - Len(q)]
    OBVIOUS
  <2>2. \A i, j \in DOMAIN (q \o r) : i - Len(q) = j - Len(q) => i = j
    OBVIOUS
  <2>3. \A i \in DOMAIN q : ~Reply(q[i])
    BY <1>4, Zenon DEF Absent, Elems
  <2> QED BY <1>4, <2>1, <2>2, <2>3, Zenon DEF Lone
<1> QED BY <1>1, <1>2, <1>3, <1>4, Zenon

-----------------------------------------------------------------------------
(* A late answer does not spoil the second attempt: the handler.           *)

\* The initial state.
LEMMA RetryInit == Init => Retry
<1> SUFFICES ASSUME Init PROVE Retry
  BY Zenon
<1>1. /\ down = <<>> /\ up = <<>> /\ inbox = <<>> /\ h.pc = "idle" /\ h.kind = "none"
      /\ h.retried = FALSE /\ verdict.outcome = "none"
  BY Zenon DEF Init, IdleAfter, Undecided
<1>2. Elems(down) = {} /\ Elems(up) = {} /\ Elems(inbox) = {}
  BY <1>1, NoElems, Zenon
<1>3. Handshake /\ Dated
  BY <1>1, <1>2, Zenon DEF Handshake, Quiet, Unasked, Absent, Dated
<1>4. FirstTry /\ SecondTry /\ HdcdAccepts
  BY <1>1, <1>2, Zenon DEF FirstTry, SecondTry, HdcdAccepts, Rejected
<1>5. Running /\ RetryNotSpoiled
  BY <1>1, Zenon DEF Running, RetryNotSpoiled
<1> QED BY <1>3, <1>4, <1>5, Zenon DEF Retry

\* The parts of the types that these proofs use.
LEMMA Basics ==
    ASSUME Typed
    PROVE  /\ h \in Handler /\ h.n \in Nat /\ failed \in Nat /\ Suits(h) /\ daemon \in {"device", "hdcd"}
           /\ down \in Seq(Letter(Request))
           /\ up \in Seq(Letter(Response)) /\ inbox \in Seq(Letter(Response))
           /\ inbox # <<>> => Elems(Tail(inbox)) \subseteq Elems(inbox) /\ Head(inbox) \in Elems(inbox)
           /\ \A t \in Elems(down) \cup Elems(up) \cup Elems(inbox) : t.tag \in Nat \X Part
<1>1. /\ h \in Handler /\ h.n \in Nat /\ failed \in Nat /\ Suits(h) /\ daemon \in {"device", "hdcd"}
      /\ down \in Seq(Letter(Request))
      /\ up \in Seq(Letter(Response)) /\ inbox \in Seq(Letter(Response))
  BY DEF Typed, HandlerTyped, Handler, MailTyped
<1>2. inbox # <<>> => Elems(Tail(inbox)) \subseteq Elems(inbox) /\ Head(inbox) \in Elems(inbox)
  <2>1. inbox # <<>> => Elems(inbox) = {Head(inbox)} \cup Elems(Tail(inbox))
    BY <1>1, Queues, Zenon
  <2> QED BY <2>1, Zenon
<1>3. /\ \A t \in Letter(Request) : t.tag \in Nat \X Part
      /\ \A t \in Letter(Response) : t.tag \in Nat \X Part
  BY Zenon DEF Letter
<1>4. /\ Elems(down) \subseteq Letter(Request) /\ Elems(up) \subseteq Letter(Response)
      /\ Elems(inbox) \subseteq Letter(Response)
  BY <1>1, Queues, Zenon
<1> QED BY <1>1, <1>2, <1>3, <1>4, Zenon

\* The handler moves on, other than to the handshake of file send and, unless
\* it gives the transfer up, other than from there.  It may take a message
\* and send one that is no FileCheck.
LEMMA Moves ==
    ASSUME Typed, Retry, daemon' = daemon, h'.n = h.n, up' = up,
           Elems(inbox') \subseteq Elems(inbox),
           \A t \in Elems(down') : t \in Elems(down) \/ (~Asks(t) /\ t.tag[1] = h.n),
           h'.pc # "check", h'.kind = "send" => h'.pc \notin {"open", "await"},
           Hopeful' => Hopeful /\ (h.kind = "send" => h.pc # "await"),
           h'.retried => h.retried,
           Running', RetryNotSpoiled'
    PROVE  Retry'
<1>1. Handshake'
  <2> SUFFICES ASSUME Hopeful' PROVE Quiet'
    BY Zenon DEF Handshake
  <2>1. Quiet
    BY Zenon DEF Retry, Handshake
  <2> QED BY <2>1, Zenon DEF Quiet, Unasked, Absent
<1>2. Dated'
  <2>1. \A t \in Elems(down) \cup Elems(up) \cup Elems(inbox) : t.tag[1] <= h.n
    BY Zenon DEF Retry, Dated
  <2>2. h.n <= h.n
    BY Basics
  <2> QED BY <2>1, <2>2, Zenon DEF Dated
<1>3. FirstTry' /\ SecondTry'
  BY Zenon DEF FirstTry, SecondTry
<1>4. HdcdAccepts'
  BY Zenon DEF Retry, HdcdAccepts, Rejected
<1> QED BY <1>1, <1>2, <1>3, <1>4, Zenon DEF Retry

\* The transfer is given up.
LEMMA FailRetry ==
    ASSUME Typed, Retry, h.pc # "idle", NEW tag, Fail(tag),
           h.kind = "send" /\ h.retried /\ failed = 0 => tag # First,
           UNCHANGED <<daemon, up, failed>>,
           Elems(inbox') \subseteq Elems(inbox), down' = down
    PROVE  Retry'
<1>1. h' = [h EXCEPT !.pc = "unregister", !.err = TRUE] /\ h \in Handler
  BY Basics, Zenon DEF Fail
<1>2. h'.n = h.n /\ h'.pc = "unregister" /\ h'.kind = h.kind /\ h'.retried = h.retried
  BY <1>1, Zenon DEF Handler
<1>3. /\ verdict'.outcome = "fail" /\ verdict'.kind = h.kind /\ verdict'.tag = tag
      /\ verdict'.retried = h.retried
  BY Zenon DEF Fail, Decide
<1>4. ~Hopeful' /\ Running'
  BY <1>2, <1>3, Zenon DEF Hopeful, Running
<1>5. RetryNotSpoiled'
  BY <1>2, <1>3, Zenon DEF RetryNotSpoiled, First
<1> QED BY <1>1, <1>2, <1>4, <1>5, Moves, Zenon

\* Steps without a decision, away from the handshake of file send.
LEMMA MovedRetry ==
    ASSUME Typed, Retry, UNCHANGED <<daemon, up, verdict, failed>>, h'.n = h.n,
           h'.retried => h.retried, h.pc \notin {"idle", "reply", "unregister", "report"},
           h.kind = "send" => h.pc # "await",
           h'.pc # "check", h'.kind = "send" => h'.pc \notin {"open", "await"},
           Elems(inbox') \subseteq Elems(inbox),
           \A t \in Elems(down') : t \in Elems(down) \/ (~Asks(t) /\ t.tag[1] = h.n)
    PROVE  Retry'
<1>1. verdict.outcome # "fail"
  BY Zenon DEF Retry, Running
<1>2. Running' /\ RetryNotSpoiled' /\ (Hopeful' => Hopeful)
  BY <1>1, Zenon DEF Running, RetryNotSpoiled, Hopeful
<1> QED BY <1>2, Moves, Zenon

\* A transfer ends well.
LEMMA DecidedRetry ==
    ASSUME Typed, Retry, NEW tag, NEW command, Decide("finish", tag, command),
           NEW pc \in {"acknowledge", "reply"}, Goto(pc),
           h.pc \in {"verdict", "receive"},
           UNCHANGED <<daemon, down, up, failed>>, Elems(inbox') \subseteq Elems(inbox)
    PROVE  Retry'
<1>1. h'.n = h.n /\ h'.pc = pc /\ h'.retried = h.retried
  BY Basics, Zenon DEF Goto, Handler
<1>2. verdict'.outcome = "finish" /\ verdict.outcome # "fail"
  BY Zenon DEF Decide, Retry, Running
<1>3. Running' /\ RetryNotSpoiled' /\ (Hopeful' => Hopeful)
  BY <1>2, Zenon DEF Running, RetryNotSpoiled, Hopeful
<1> QED BY <1>1, <1>3, Moves, Zenon

\* What is on the way to the daemon after a message was sent.
LEMMA SentElems ==
    ASSUME Typed, h.pc # "idle", NEW m \in Request, Send(m), m.command # "FileCheck"
    PROVE  \A t \in Elems(down') : t \in Elems(down) \/ (~Asks(t) /\ t.tag[1] = h.n)
<1>1. PICK x : x = [tag |-> Tag, msg |-> m]
  BY Zenon
<1>2. x \in Letter(Request) /\ down' \in {down, Append(down, x)} /\ down \in Seq(Letter(Request))
  BY <1>1, SendTyped, Zenon DEF Typed, MailTyped
<1>3. ~Asks(x) /\ x.tag[1] = h.n
  BY <1>1, Zenon DEF Asks, Tag
<1>4. Elems(Append(down, x)) = Elems(down) \cup {x}
  BY <1>2, Queues
<1> QED BY <1>2, <1>3, <1>4, Zenon

\* A transfer begins.
LEMMA BeginRetry ==
    ASSUME Typed, Retry, NEW kind \in mix.kinds, NEW path \in mix.paths, NEW size \in mix.sizes,
           Begin(kind, path, size)
    PROVE  Retry'
<1>1. /\ h'.pc = "check" /\ h'.n = h.n + 1 /\ h'.retried = FALSE /\ h'.kind = kind
      /\ h.pc = "idle" /\ daemon' = daemon /\ down' = down /\ up' = up /\ inbox' = <<>>
      /\ verdict'.outcome = "none" /\ h.n \in Nat /\ failed \in Nat
  BY Basics, Zenon DEF Begin, IdleAfter, setting, Undecided
<1>2. Hopeful' => Hopeful
  BY <1>1 DEF Begin, Hopeful
<1>3. Elems(inbox') = {}
  BY <1>1, NoElems, Zenon
<1>4. Handshake'
  <2> SUFFICES ASSUME Hopeful' PROVE Quiet'
    BY <1>1, Zenon DEF Handshake
  <2>1. Quiet
    BY <1>1, <1>2, Zenon DEF Retry, Handshake
  <2> QED BY <1>1, <1>3, <2>1, Zenon DEF Quiet, Unasked, Absent
<1>5. \A t \in Elems(down) \cup Elems(up) : t.tag[1] < h'.n /\ t.tag[1] <= h'.n
  <2>1. \A t \in Elems(down) \cup Elems(up) : t.tag[1] <= h.n /\ t.tag[1] \in Nat
    BY Basics, Zenon DEF Retry, Dated
  <2> QED BY <1>1, <2>1
<1>6. Dated'
  BY <1>1, <1>3, <1>5, Zenon DEF Dated
<1>7. FirstTry'
  <2>1. \A t \in Elems(down) \cup Elems(up) : t.tag # <<h'.n, 1>>
    BY <1>1, <1>5
  <2> QED BY <1>1, <1>3, <2>1, Zenon DEF FirstTry, Free, First
<1>8. SecondTry'
  BY <1>1, Zenon DEF SecondTry
<1>9. HdcdAccepts'
  BY <1>1, <1>3, Zenon DEF HdcdAccepts, Rejected, Retry
<1>10. Running' /\ RetryNotSpoiled'
  BY <1>1, Zenon DEF Running, RetryNotSpoiled
<1> QED BY <1>4, <1>6, <1>7, <1>8, <1>9, <1>10, Zenon DEF Retry

\* Arguments are checked.
LEMMA CheckRetry ==
    ASSUME Typed, Retry, CheckArguments
    PROVE  Retry'
<1>1. /\ h.pc = "check" /\ ~h.retried /\ daemon' = daemon /\ down' = down /\ up' = up
      /\ inbox' = inbox /\ failed' = failed /\ h \in Handler /\ verdict.outcome # "fail"
  BY Basics, Zenon DEF CheckArguments, setting, Suits, Retry, Running
<1>2. CASE Decide("fail", NoTag, "none") /\ Goto("report")
  <2>1. h'.n = h.n /\ h'.pc = "report" /\ h'.kind = h.kind /\ h'.retried = h.retried
    BY <1>1, <1>2, Zenon DEF Goto, Handler
  <2>2. verdict'.outcome = "fail" /\ verdict'.retried = h.retried
    BY <1>2, Zenon DEF Decide
  <2>3. ~Hopeful' /\ Running' /\ RetryNotSpoiled'
    BY <1>1, <2>1, <2>2, Zenon DEF Hopeful, Running, RetryNotSpoiled
  <2> QED BY <1>1, <2>1, <2>3, Moves, Zenon
<1>3. CASE Goto("open") /\ UNCHANGED verdict
  <2>1. h'.n = h.n /\ h'.pc = "open" /\ h'.kind = h.kind /\ h'.retried = h.retried
    BY <1>1, <1>3, Zenon DEF Goto, Handler
  <2>2. Hopeful' = Hopeful
    BY <1>1, <1>3, Zenon DEF Hopeful
  <2>3. Handshake'
    BY <1>1, <2>1, <2>2, Zenon DEF Retry, Handshake, Quiet, Unasked, Absent
  <2>4. Dated'
    BY <1>1, <2>1, Zenon DEF Retry, Dated
  <2>5. FirstTry'
    BY <1>1, <2>1, <2>2, Zenon DEF Retry, FirstTry, Free, First
  <2>6. SecondTry' /\ HdcdAccepts'
    BY <1>1, <2>1, Zenon DEF Retry, SecondTry, HdcdAccepts, Rejected
  <2>7. Running' /\ RetryNotSpoiled'
    BY <1>1, <1>3, Zenon DEF Running, RetryNotSpoiled
  <2> QED BY <2>3, <2>4, <2>5, <2>6, <2>7, Zenon DEF Retry
<1> QED BY <1>2, <1>3, Zenon DEF CheckArguments

\* The opening messages are sent, FileCheck the last of them.
LEMMA OpenRetry ==
    ASSUME Typed, Retry, OpenTransfer
    PROVE  Retry'
<1>1. /\ h.pc = "open" /\ daemon' = daemon /\ up' = up /\ inbox' = inbox /\ failed' = failed
      /\ h \in Handler /\ Suits(h) /\ HandlerTyped /\ verdict.outcome # "fail" /\ h.n \in Nat
  BY Basics, Zenon DEF OpenTransfer, setting, Typed, Retry, Running
<1>2. CASE Fail(NoTag) /\ down' = down
  <2>1. NoTag # First
    BY DEF NoTag, First
  <2> QED BY <1>1, <1>2, <2>1, FailRetry, Zenon
<1>3. ASSUME Send(Opening[h.i]), UNCHANGED verdict,
             h' = IF h.i < Len(Opening) THEN [h EXCEPT !.i = @ + 1]
                  ELSE [h EXCEPT !.pc = IF h.kind = "erase" THEN "verdict" ELSE "await", !.i = 1]
      PROVE  Retry'
  <2>1. /\ Opening[h.i] \in Request /\ Len(Opening) \in {1, 2}
        /\ Len(Opening) = 2 <=> h.kind \in {"send", "install"}
        /\ Opening[h.i].command = "FileCheck" => h.kind = "send" /\ h.i = 2
        /\ h.kind = "send" => Opening[h.i].command =
              IF h.i = 1 THEN "KernelWakeupSlavetask" ELSE "FileCheck"
    BY <1>1, OpeningTyped, Zenon
  <2>2. /\ h'.n = h.n /\ h'.kind = h.kind /\ h'.retried = h.retried /\ h'.part = h.part
        /\ h'.pc \in {"open", "await", "verdict"}
    BY <1>1, <1>3, Zenon DEF Handler
  <2>3. CASE h.kind # "send"
    <3>1. \A t \in Elems(down') : t \in Elems(down) \/ (~Asks(t) /\ t.tag[1] = h.n)
      BY <1>1, <1>3, <2>1, <2>3, SentElems, Zenon
    <3> QED BY <1>1, <1>3, <2>2, <2>3, <3>1, MovedRetry, Zenon
  <2>4. CASE h.kind = "send"
    <3>1. h.i \in {1, 2} /\ (h.retried => h.i = 2) /\ h.part = (IF h.retried THEN 2 ELSE 1)
      BY <1>1, <2>4, Zenon DEF Suits
    <3>2. PICK x : x = [tag |-> Tag, msg |-> Opening[h.i]]
      BY Zenon
    <3>3. /\ x \in Letter(Request) /\ down' \in {down, Append(down, x)}
          /\ down \in Seq(Letter(Request))
      BY <1>1, <1>3, <2>1, <3>2, SendTyped, Zenon DEF Typed, MailTyped
    <3>4. Elems(down') \subseteq Elems(down) \cup {x}
      <4>1. Elems(Append(down, x)) = Elems(down) \cup {x}
        BY <3>3, Queues
      <4> QED BY <3>3, <4>1, Zenon
    <3>5. x.tag = Tag /\ x.tag[1] = h.n /\ x.msg = Opening[h.i] /\ Tag' = Tag /\ First' = First
      BY <2>2, <3>2, Zenon DEF Tag, First
    <3>6. Hopeful' = Hopeful /\ Running' /\ RetryNotSpoiled'
      BY <1>1, <1>3, Zenon DEF Hopeful, Running, RetryNotSpoiled
    <3>7. HdcdAccepts'
      BY <1>1, <2>2, Zenon DEF Retry, HdcdAccepts, Rejected
    <3>8. \A t \in Elems(down') \cup Elems(up') \cup Elems(inbox') : t.tag[1] <= h'.n
      <4>1. h.n <= h.n /\ \A t \in Elems(down) \cup Elems(up) \cup Elems(inbox) : t.tag[1] <= h.n
        BY <1>1 DEF Retry, Dated
      <4> QED BY <1>1, <2>2, <3>4, <3>5, <4>1, Zenon
    <3>9. CASE h.i = 1
      <4>1. h'.pc = "open" /\ h'.i = 2 /\ h'.i # 1 /\ ~h.retried
        <5>1. Len(Opening) = 2
          BY <2>1, <2>4, Zenon
        <5>2. h.i < Len(Opening)
          BY <3>9, <5>1
        <5>3. h' = [h EXCEPT !.i = h.i + 1]
          BY <1>3, <5>2, Zenon
        <5> QED BY <1>1, <3>1, <3>9, <5>3 DEF Handler
      <4>2. ~Asks(x) /\ x.msg.command = "KernelWakeupSlavetask"
        BY <2>1, <2>4, <3>5, <3>9, Zenon DEF Asks
      <4>3. Handshake'
        <5>1. Hopeful' => Quiet
          BY <1>1, <3>6, Zenon DEF Retry, Handshake
        <5> QED BY <1>1, <3>4, <4>1, <4>2, <5>1, Zenon DEF Handshake, Quiet, Unasked, Absent
      <4>4. Dated'
        BY <3>8, <4>1, Zenon DEF Dated
      <4>5. FirstTry'
        BY <1>1, <2>2, <3>4, <3>5, <3>6, <4>1, <4>2, Zenon DEF Retry, FirstTry, Free
      <4>6. SecondTry'
        BY <2>2, <4>1 DEF SecondTry
      <4> QED BY <3>6, <3>7, <4>3, <4>4, <4>5, <4>6, Zenon DEF Retry
    <3>10. CASE h.i = 2
      <4>1. h'.pc = "await"
        <5>1. Len(Opening) = 2
          BY <2>1, <2>4, Zenon
        <5>2. ~(h.i < Len(Opening))
          BY <3>10, <5>1
        <5>3. h' = [h EXCEPT !.pc = "await", !.i = 1]
          BY <1>3, <2>4, <5>2, Zenon
        <5> QED BY <1>1, <5>3, Zenon DEF Handler
      <4>2. Asks(x)
        BY <2>1, <2>4, <3>5, <3>10 DEF Asks
      <4>3. Handshake'
        <5> SUFFICES ASSUME Hopeful' PROVE OnItsWay'
          BY <2>2, <2>4, <4>1, Zenon DEF Handshake
        <5>1. Quiet
          BY <1>1, <3>6, Zenon DEF Retry, Handshake
        <5>2. Absent(up') /\ Absent(inbox')
          BY <1>1, <5>1, Zenon DEF Quiet
        <5>3. \A i \in DOMAIN down : ~Asks(down[i])
          BY <5>1, Zenon DEF Quiet, Unasked, Elems
        <5>4. \A i \in DOMAIN down' : Asks(down'[i]) => i = Len(down') /\ down'[i].tag = Tag'
          <6>1. CASE down' = down
            BY <5>3, <6>1, Zenon
          <6>2. CASE down' = Append(down, x)
            <7>1. /\ \A i \in DOMAIN down' : i \in DOMAIN down \/ i = Len(down) + 1
                  /\ \A i \in DOMAIN down : down'[i] = down[i]
                  /\ down'[Len(down) + 1] = x /\ Len(down') = Len(down) + 1
              BY <3>3, <6>2
            <7> QED BY <3>5, <5>3, <7>1, Zenon
          <6> QED BY <3>3, <6>1, <6>2, Zenon
        <5> QED BY <5>2, <5>4, Zenon DEF OnItsWay
      <4>4. Dated'
        BY <3>8, <4>1, Zenon DEF Dated
      <4>5. FirstTry'
        <5>1. ASSUME Hopeful, ~h.retried, daemon = "device"
              PROVE  /\ \A t \in Elems(down') :
                           t.tag = First => t.msg.command = "KernelWakeupSlavetask" \/ Asks(t)
                     /\ Free(up) /\ Free(inbox) /\ ~Rejected(up) /\ ~Rejected(inbox)
          <6>1. \A t \in Elems(down) :
                   t.tag = First => t.msg.command = "KernelWakeupSlavetask" \/ Asks(t)
            BY <1>1, <2>4, <5>1, Zenon DEF Retry, FirstTry
          <6>2. Free(up) /\ Free(inbox)
            BY <1>1, <2>4, <5>1, Zenon DEF Retry, FirstTry
          <6>3. Quiet
            BY <1>1, <5>1, Zenon DEF Retry, Handshake
          <6>4. ~Rejected(up) /\ ~Rejected(inbox)
            BY <6>3, Zenon DEF Quiet, Absent, Reply, Rejected
          <6> QED BY <3>4, <4>2, <6>1, <6>2, <6>4, Zenon
        <5> QED BY <1>1, <2>2, <3>5, <3>6, <4>1, <5>1, Zenon DEF FirstTry, Free, Rejected
      <4>6. SecondTry'
        <5>1. ASSUME Hopeful, h.retried PROVE Free(down') /\ Over(up) /\ Over(inbox)
          <6>1. Free(down) /\ Over(up) /\ Over(inbox)
            BY <1>1, <2>4, <5>1, Zenon DEF Retry, SecondTry
          <6>2. x.tag # First
            BY <3>1, <3>5, <5>1 DEF Tag, First
          <6> QED BY <3>4, <6>1, <6>2, Zenon DEF Free
        <5> QED BY <1>1, <2>2, <3>5, <3>6, <5>1, Zenon DEF SecondTry, Free, Over
      <4> QED BY <3>6, <3>7, <4>3, <4>4, <4>5, <4>6, Zenon DEF Retry
    <3> QED BY <3>1, <3>9, <3>10, Zenon
  <2> QED BY <2>3, <2>4, Zenon
<1> QED BY <1>2, <1>3, Zenon DEF OpenTransfer, SendFails

\* A deadline passes or the session is gone.
LEMMA GiveUpRetry ==
    ASSUME Typed, Retry, Timeout \/ ResponseChannelClosed
    PROVE  Retry'
<1>1. /\ Waiting /\ GiveUp /\ daemon' = daemon /\ down' = down /\ up' = up /\ inbox' = inbox
      /\ failed' = failed /\ h.pc # "idle" /\ h \in Handler /\ NoTag # First
  BY Basics DEF Timeout, ResponseChannelClosed, setting, Waiting, NoTag, First
<1>2. CASE Fail(NoTag)
  BY <1>1, <1>2, FailRetry, Zenon
<1>3. CASE h.kind = "send" /\ Decide("fail", NoTag, "none") /\ Goto("reply")
  <2>1. h'.n = h.n /\ h'.pc = "reply" /\ h'.kind = h.kind /\ h'.retried = h.retried
    BY <1>1, <1>3, Zenon DEF Goto, Handler
  <2>2. verdict'.outcome = "fail" /\ verdict'.tag = NoTag
    BY <1>3, Zenon DEF Decide
  <2>3. ~Hopeful' /\ Running' /\ RetryNotSpoiled'
    BY <1>1, <1>3, <2>1, <2>2, Zenon DEF Hopeful, Running, RetryNotSpoiled, First
  <2> QED BY <1>1, <2>1, <2>3, Moves, Zenon
<1> QED BY <1>1, <1>2, <1>3, Zenon DEF GiveUp

\* The go is taken.  In the handshake of file send the one reply ends the
\* wait; after a directory was rejected only its close may still come.
LEMMA TakeGoRetry ==
    ASSUME Typed, Retry, TakeGo
    PROVE  Retry'
<1>1. /\ h.pc = "await" /\ inbox # <<>> /\ inbox' = Tail(inbox) /\ daemon' = daemon
      /\ down' = down /\ up' = up /\ failed' = failed
      /\ h \in Handler /\ Suits(h) /\ h.kind \in Kinds
      /\ Elems(inbox') \subseteq Elems(inbox) /\ verdict.outcome # "fail"
      /\ inbox \in Seq(Letter(Response)) /\ daemon \in {"device", "hdcd"}
  BY Basics, Zenon DEF TakeGo, setting, Suits, Retry, Running
<1>2. PICK t : t = Head(inbox) /\ t \in Elems(inbox)
  BY <1>1, Basics, Zenon
<1>3. \/ /\ Await(t.msg) = "go" /\ UNCHANGED verdict
         /\ \/ h.kind = "recv" /\ h' = [h EXCEPT !.pc = "create", !.size = t.msg.payload[1]]
            \/ h.kind # "recv" /\ h' = [h EXCEPT !.pc = "stream"]
      \/ /\ Await(t.msg) = "retry" /\ UNCHANGED verdict
         /\ h' = [h EXCEPT !.pc = "open", !.i = 2, !.part = 2, !.retried = TRUE]
      \/ Await(t.msg) = "skip" /\ UNCHANGED <<h, verdict>>
      \/ Await(t.msg) = "fail" /\ Fail(t.tag)
  BY <1>2, Zenon DEF TakeGo
<1>4. CASE h.kind # "send"
  <2>1. CASE Fail(t.tag)
    BY <1>1, <1>4, <2>1, FailRetry, Zenon
  <2>2. CASE UNCHANGED verdict
    <3>1. Await(t.msg) # "retry"
      BY <1>1, <1>4, Zenon DEF Await, AwaitRecv, AwaitInstall, AwaitFlash, Suits, Kinds, Sender
    <3>2. Await(t.msg) # "fail" \/ ~Fail(t.tag)
      BY <1>1, <2>2 DEF Fail, Decide
    <3>3. h'.n = h.n /\ h'.kind = h.kind /\ h'.retried = h.retried /\ h'.pc \in {"create", "stream", "await"}
      BY <1>1, <1>3, <3>1, <3>2, Zenon DEF Handler
    <3> QED BY <1>1, <1>4, <2>2, <3>3, MovedRetry, Zenon
  <2> QED BY <1>3, <2>1, <2>2, Zenon
<1>5. CASE h.kind = "send"
  <2>1. Await(t.msg) = AwaitSend(t.msg)
    BY <1>5, Zenon DEF Await
  <2>2. Hopeful => OnItsWay \/ HasReply
    BY <1>1, <1>5, Zenon DEF Retry, Handshake
  <2>3. ASSUME Hopeful, Reply(t)
        PROVE  Quiet' /\ down = <<>> /\ t.tag = Tag
    <3>1. HasReply
      BY <1>2, <2>2, <2>3, Zenon DEF OnItsWay, Absent
    <3>2. Absent(Tail(inbox)) /\ ~Absent(inbox)
      BY <1>1, <1>2, <2>3, <3>1, Lonely, Zenon DEF HasReply, Absent
    <3>3. Absent(up) /\ down = <<>>
      BY <3>1, <3>2, Zenon DEF HasReply
    <3>4. Unasked
      BY <3>3, NoElems, Zenon DEF Unasked
    <3>5. t.tag = Tag
      BY <1>2, <2>3, <3>1, Zenon DEF HasReply
    <3> QED BY <1>1, <3>2, <3>3, <3>4, <3>5, Zenon DEF Quiet, Unasked
  <2>4. ASSUME Await(t.msg) = "go", UNCHANGED verdict, h' = [h EXCEPT !.pc = "stream"]
        PROVE  Retry'
    <3>1. h'.n = h.n /\ h'.kind = h.kind /\ h'.retried = h.retried /\ h'.pc = "stream"
      BY <1>1, <2>4, Zenon DEF Handler
    <3>2. Reply(t)
      BY <2>1, <2>4, Zenon DEF AwaitSend, Reply
    <3>3. Hopeful' = Hopeful /\ Running' /\ RetryNotSpoiled'
      BY <1>1, <2>4, Zenon DEF Hopeful, Running, RetryNotSpoiled
    <3>4. Handshake'
      BY <2>3, <3>1, <3>2, <3>3, Zenon DEF Handshake
    <3>5. Dated'
      BY <1>1, <3>1, Zenon DEF Retry, Dated
    <3>6. FirstTry' /\ SecondTry'
      BY <3>1, Zenon DEF FirstTry, SecondTry
    <3>7. HdcdAccepts'
      BY <1>1, <3>1, Zenon DEF Retry, HdcdAccepts, Rejected
    <3> QED BY <3>3, <3>4, <3>5, <3>6, <3>7, Zenon DEF Retry
  <2>5. ASSUME Await(t.msg) = "retry", UNCHANGED verdict,
               h' = [h EXCEPT !.pc = "open", !.i = 2, !.part = 2, !.retried = TRUE]
        PROVE  Retry'
    <3>1. h'.n = h.n /\ h'.kind = h.kind /\ h'.retried /\ h'.pc = "open" /\ h'.i = 2
      BY <1>1, <2>5, Zenon DEF Handler
    <3>2. Reply(t) /\ DirectoryError(t.msg) /\ ~h.retried
      BY <2>1, <2>5, Zenon DEF AwaitSend, Reply
    <3>3. Rejected(inbox) /\ daemon = "device"
      <4>1. Rejected(inbox)
        BY <1>2, <3>2, Zenon DEF Rejected
      <4> QED BY <1>1, <4>1, Zenon DEF Retry, HdcdAccepts
    <3>4. Hopeful' = Hopeful /\ Running' /\ RetryNotSpoiled' /\ First' = First
      BY <1>1, <2>5, <3>1, Zenon DEF Hopeful, Running, RetryNotSpoiled, First
    <3>5. Handshake'
      BY <2>3, <3>1, <3>2, <3>4, Zenon DEF Handshake
    <3>6. Dated'
      BY <1>1, <3>1 DEF Retry, Dated
    <3>7. FirstTry'
      BY <3>1, Zenon DEF FirstTry
    <3>8. SecondTry'
      <4> SUFFICES ASSUME Hopeful' PROVE Free(down)' /\ Over(up)' /\ Over(inbox)'
        BY Zenon DEF SecondTry
      <4>1. Over(up) /\ Over(inbox)
        BY <1>1, <1>5, <3>2, <3>3, <3>4, Zenon DEF Retry, FirstTry
      <4>2. Elems(down) = {}
        BY <2>3, <3>2, <3>4, NoElems, Zenon
      <4> QED BY <1>1, <3>4, <4>1, <4>2, Zenon DEF Free, Over
    <3>9. HdcdAccepts'
      BY <1>1, <3>3, Zenon DEF HdcdAccepts
    <3> QED BY <3>4, <3>5, <3>6, <3>7, <3>8, <3>9, Zenon DEF Retry
  <2>6. ASSUME Await(t.msg) = "skip", UNCHANGED <<h, verdict>>
        PROVE  Retry'
    <3>1. ~Reply(t) /\ h.retried
      BY <2>1, <2>6, Zenon DEF AwaitSend, Reply, DirectoryError
    <3>2. Hopeful' = Hopeful /\ Running' /\ RetryNotSpoiled' /\ First' = First /\ Tag' = Tag
      BY <1>1, <2>6, Zenon DEF Hopeful, Running, RetryNotSpoiled, First, Tag
    <3>3. OnItsWay => OnItsWay'
      BY <1>1, <3>2, Zenon DEF OnItsWay, Absent
    <3>4. HasReply => HasReply'
      <4>1. Lone(inbox) => Lone(inbox')
        BY <1>1, Lonely, Zenon
      <4> QED BY <1>1, <3>2, <4>1, Zenon DEF HasReply, Absent
    <3>5. Handshake'
      BY <1>1, <1>5, <2>2, <2>6, <3>2, <3>3, <3>4, Zenon DEF Handshake
    <3>6. Dated'
      BY <1>1, <2>6, Zenon DEF Retry, Dated
    <3>7. FirstTry'
      BY <2>6, <3>1, Zenon DEF FirstTry
    <3>8. SecondTry'
      BY <1>1, <2>6, <3>2, Zenon DEF Retry, SecondTry, Free, Over
    <3>9. HdcdAccepts'
      BY <1>1, <2>6, Zenon DEF Retry, HdcdAccepts, Rejected
    <3> QED BY <3>2, <3>5, <3>6, <3>7, <3>8, <3>9, Zenon DEF Retry
  <2>7. ASSUME Await(t.msg) = "fail", Fail(t.tag)
        PROVE  Retry'
    <3>1. ASSUME h.retried, failed = 0 PROVE t.tag # First
      <4>1. Hopeful
        BY <1>1, <3>1, Zenon DEF Hopeful
      <4>2. Over(inbox)
        BY <1>1, <1>5, <3>1, <4>1, Zenon DEF Retry, SecondTry
      <4>3. t.msg.command # "KernelChannelClose"
        BY <2>1, <2>7, <3>1, Zenon DEF AwaitSend, DirectoryError
      <4>4. DirectoryError(t.msg) => t.tag = Tag
        BY <2>3, <4>1, Zenon DEF Reply
      <4>5. Tag # First
        BY <1>1, <1>5, <3>1 DEF Tag, First, Suits
      <4> QED BY <1>2, <4>2, <4>3, <4>4, <4>5, Zenon DEF Over
    <3> QED BY <1>1, <1>5, <2>7, <3>1, FailRetry, Zenon
  <2> QED BY <1>3, <1>5, <2>4, <2>5, <2>6, <2>7, Zenon
<1> QED BY <1>4, <1>5, Zenon

\* Chunks are sent.
LEMMA StreamRetry ==
    ASSUME Typed, Retry, StreamData
    PROVE  Retry'
<1>1. /\ h.pc = "stream" /\ daemon' = daemon /\ up' = up /\ inbox' = inbox /\ failed' = failed
      /\ h \in Handler /\ h.kind \in Sender /\ NoTag # First
  BY Basics, Zenon DEF StreamData, setting, Suits, NoTag, First
<1>2. CASE Fail(NoTag) /\ down' = down
  BY <1>1, <1>2, FailRetry, Zenon
<1>3. CASE UNCHANGED verdict /\ \/ Send(Data) /\ h' = [h EXCEPT !.i = @ + 1]
                                \/ (Send(FinishMessage) \/ down' = down) /\ Goto("verdict")
  <2>1. h'.n = h.n /\ h'.kind = h.kind /\ h'.retried = h.retried /\ h'.pc \in {"stream", "verdict"}
    BY <1>1, <1>3, Zenon DEF Goto, Handler
  <2>2. \A t \in Elems(down') : t \in Elems(down) \/ (~Asks(t) /\ t.tag[1] = h.n)
    <3>1. CASE Send(Data)
      BY <1>1, <3>1, StreamMessages, SentElems, Zenon
    <3>2. CASE Send(FinishMessage)
      BY <1>1, <3>2, StreamMessages, SentElems, Zenon
    <3>3. CASE down' = down
      BY <3>3, Zenon
    <3> QED BY <1>3, <3>1, <3>2, <3>3, Zenon
  <2> QED BY <1>1, <1>3, <2>1, <2>2, MovedRetry, Zenon
<1> QED BY <1>2, <1>3, Zenon DEF StreamData, SendFails

\* The verdict is taken.  file send fails on none.
LEMMA TakeVerdictRetry ==
    ASSUME Typed, Retry, TakeVerdict
    PROVE  Retry'
<1>1. /\ h.pc = "verdict" /\ daemon' = daemon /\ down' = down /\ up' = up /\ failed' = failed
      /\ h \in Handler /\ Elems(inbox') \subseteq Elems(inbox)
  BY Basics, Zenon DEF TakeVerdict, setting
<1>2. PICK t : t = Head(inbox)
  BY Zenon
<1>3. CASE UNCHANGED <<h, verdict>>
  BY <1>1, <1>3, MovedRetry, Zenon
<1>4. CASE Decide("finish", t.tag, t.msg.command) /\ Goto("reply")
  BY <1>1, <1>4, DecidedRetry, Zenon
<1>5. CASE Verdict(t.msg) = "fail" /\ Fail(t.tag)
  <2>1. h.kind # "send"
    BY <1>5, Zenon DEF Verdict, VerdictSend
  <2> QED BY <1>1, <1>5, <2>1, FailRetry, Zenon
<1> QED BY <1>2, <1>3, <1>4, <1>5, Zenon DEF TakeVerdict

\* file recv asks for the data, confirms them and acknowledges the end.
LEMMA RecvSendsRetry ==
    ASSUME Typed, Retry, CreateLocalFile \/ ConfirmData \/ AcknowledgeFinish
    PROVE  Retry'
<1>1. /\ h.pc \in {"create", "confirm", "acknowledge"} /\ h.kind = "recv" /\ daemon' = daemon
      /\ up' = up /\ inbox' = inbox /\ failed' = failed /\ h \in Handler
  BY Basics, Zenon DEF CreateLocalFile, ConfirmData, AcknowledgeFinish, setting, Suits
<1>2. CASE Fail(NoTag) /\ down' = down
  BY <1>1, <1>2, FailRetry, Zenon
<1>3. CASE /\ UNCHANGED verdict
           /\ \/ Send(Task("FileBegin", <<>>)) /\ Goto("receive")
              \/ /\ Send(Task("FileFinish", <<1>>))
                 /\ h' = [h EXCEPT !.pc = "receive", !.finish_sent = TRUE]
              \/ Send(Task("FileFinish", <<0>>)) /\ Goto("reply")
  <2>1. h'.n = h.n /\ h'.kind = h.kind /\ h'.retried = h.retried /\ h'.pc \in {"receive", "reply"}
    BY <1>1, <1>3, Zenon DEF Goto, Handler
  <2>2. PICK m \in Request : Send(m) /\ m.command \in {"FileBegin", "FileFinish"}
    BY <1>1, <1>3, StreamMessages, Zenon
  <2>3. \A t \in Elems(down') : t \in Elems(down) \/ (~Asks(t) /\ t.tag[1] = h.n)
    BY <1>1, <2>2, SentElems, Zenon
  <2> QED BY <1>1, <1>3, <2>1, <2>3, MovedRetry, Zenon
<1> QED BY <1>2, <1>3, Zenon DEF CreateLocalFile, ConfirmData, AcknowledgeFinish, SendFails

\* A message is taken while file recv receives.
LEMMA TakeDataRetry ==
    ASSUME Typed, Retry, TakeData
    PROVE  Retry'
<1>1. /\ h.pc = "receive" /\ h.kind = "recv" /\ daemon' = daemon /\ down' = down /\ up' = up
      /\ failed' = failed /\ h \in Handler /\ Elems(inbox') \subseteq Elems(inbox)
  BY Basics, Zenon DEF TakeData, setting, Suits
<1>2. PICK t : t = Head(inbox)
  BY Zenon
<1>3. CASE UNCHANGED verdict /\ h' \in {h, [h EXCEPT !.pc = "confirm"]}
  <2>1. h'.n = h.n /\ h'.kind = h.kind /\ h'.retried = h.retried /\ h'.pc \in {"receive", "confirm"}
    BY <1>1, <1>3, Zenon DEF Handler
  <2> QED BY <1>1, <1>3, <2>1, MovedRetry, Zenon
<1>4. CASE Fail(NoTag)
  BY <1>1, <1>4, FailRetry, Zenon
<1>5. CASE Decide("finish", t.tag, t.msg.command) /\ \E pc \in {"acknowledge", "reply"} : Goto(pc)
  BY <1>1, <1>5, DecidedRetry, Zenon
<1> QED BY <1>2, <1>3, <1>4, <1>5, Zenon DEF TakeData

\* The client is told, the receiver unregistered, a failure reported.
LEMMA EndRetry ==
    ASSUME Typed, Retry, ReplyToClient \/ UnregisterReceiver \/ ReportError, verdict' = verdict
    PROVE  Retry'
<1>1. /\ daemon' = daemon /\ down' = down /\ up' = up /\ inbox' = inbox /\ failed' = failed
      /\ verdict' = verdict /\ h \in Handler /\ h.pc \in {"reply", "unregister", "report"}
  BY Basics, Zenon DEF ReplyToClient, UnregisterReceiver, ReportError, setting
<1>2. /\ h'.n = h.n /\ (h'.retried => h.retried)
      /\ \/ h'.pc \in {"unregister", "report", "idle"}
         \/ h.pc = "reply" /\ h'.pc = "open" /\ h.kind = "install" /\ h'.kind = "install"
  <2>1. CASE h' = IdleAfter(h.n)
    BY <2>1, Zenon DEF IdleAfter
  <2>2. CASE \/ h' = [h EXCEPT !.pc = "unregister"]
             \/ h' = [h EXCEPT !.pc = "unregister", !.err = TRUE]
             \/ h' = [h EXCEPT !.pc = "report"]
    BY <1>1, <2>2, Zenon DEF Handler
  <2>3. CASE h.pc = "reply" /\ ~LastPart /\ h' = [h EXCEPT !.pc = "open", !.part = @ + 1, !.i = 1]
    BY <1>1, <2>3, Zenon DEF Handler, LastPart
  <2> QED BY <2>1, <2>2, <2>3, Zenon DEF ReplyToClient, UnregisterReceiver, ReportError, Goto, Fail
<1>3. Running' /\ RetryNotSpoiled' /\ (Hopeful' => Hopeful)
  BY <1>1, <1>2, Zenon DEF Retry, Running, RetryNotSpoiled, Hopeful
<1> QED BY <1>1, <1>2, <1>3, Moves, Zenon

\* A file that cannot be flushed fails the transfer.
LEMMA FlushRetry ==
    ASSUME Typed, Retry, ReplyToClient \/ UnregisterReceiver \/ ReportError, verdict' # verdict
    PROVE  Retry'
<1>1. /\ h.pc = "reply" /\ h.kind = "recv" /\ Fail(NoTag) /\ down' = down
      /\ UNCHANGED <<daemon, up, inbox, failed>>
  BY Zenon DEF ReplyToClient, UnregisterReceiver, ReportError, setting
<1>2. Elems(inbox') \subseteq Elems(inbox)
  BY <1>1, Zenon
<1> QED BY <1>1, <1>2, FailRetry, Zenon

-----------------------------------------------------------------------------
(* The session, the client and the daemons.                                *)

\* The handler does not move, and nothing is added to what is on the links.
LEMMA Fewer ==
    ASSUME Typed, Retry, UNCHANGED <<daemon, h, verdict, failed>>,
           Elems(down') \subseteq Elems(down),
           Elems(up') \cup Elems(inbox') \subseteq Elems(up) \cup Elems(inbox),
           OnItsWay \/ HasReply => OnItsWay' \/ HasReply'
    PROVE  Retry'
<1>1. Hopeful' = Hopeful /\ First' = First /\ Running' /\ RetryNotSpoiled'
  BY Zenon DEF Hopeful, First, Retry, Running, RetryNotSpoiled
<1>2. Handshake'
  <2>1. Quiet => Quiet'
    BY Zenon DEF Quiet, Unasked, Absent
  <2> QED BY <1>1, <2>1, Zenon DEF Retry, Handshake
<1>3. Dated'
  BY Zenon DEF Retry, Dated
<1>4. /\ Free(down) => Free(down')
      /\ Free(up) /\ Free(inbox) => Free(up)' /\ Free(inbox)'
      /\ Over(up) /\ Over(inbox) => Over(up)' /\ Over(inbox)'
      /\ Rejected(up') \/ Rejected(inbox') => Rejected(up) \/ Rejected(inbox)
      /\ ~Unasked' => ~Unasked
  BY <1>1, Zenon DEF Free, Over, Rejected, Unasked
<1>5. FirstTry'
  BY <1>1, <1>4, Zenon DEF Retry, FirstTry
<1>6. SecondTry'
  BY <1>1, <1>4, Zenon DEF Retry, SecondTry, Free
<1>7. HdcdAccepts'
  BY <1>4, Zenon DEF Retry, HdcdAccepts
<1> QED BY <1>1, <1>2, <1>3, <1>5, <1>6, <1>7, Zenon DEF Retry

\* A daemon's message is routed.
LEMMA RouteRetry ==
    ASSUME Typed, Retry, RouteResponse
    PROVE  Retry'
<1>1. /\ UNCHANGED <<daemon, h, verdict, failed>> /\ down' = down /\ up # <<>> /\ up' = Tail(up)
      /\ inbox' \in {inbox, Append(inbox, Head(up))}
      /\ up \in Seq(Letter(Response)) /\ inbox \in Seq(Letter(Response))
  BY Basics, Zenon DEF RouteResponse, setting
<1>2. PICK x : x = Head(up) /\ x \in Letter(Response)
  BY <1>1, Queues, Zenon
<1>3. Elems(up) = {x} \cup Elems(up') /\ Elems(Append(inbox, x)) = Elems(inbox) \cup {x}
  BY <1>1, <1>2, Queues
<1>4. Elems(up') \cup Elems(inbox') \subseteq Elems(up) \cup Elems(inbox)
  BY <1>1, <1>2, <1>3, Zenon
<1>5. Tag' = Tag
  BY <1>1, Zenon DEF Tag
<1>6. Absent(up) => Absent(up') /\ ~Reply(x)
  BY <1>3, Zenon DEF Absent
<1>7. Absent(inbox) /\ ~Reply(x) => Absent(inbox')
  BY <1>1, <1>2, <1>3, Zenon DEF Absent
<1>8. OnItsWay => OnItsWay'
  BY <1>1, <1>5, <1>6, <1>7, Zenon DEF OnItsWay
<1>9. HasReply => HasReply'
  <2> SUFFICES ASSUME HasReply PROVE HasReply'
    BY Zenon
  <2>1. Lone(up') /\ (Reply(x) => Absent(up'))
    BY <1>1, <1>2, Lonely, Zenon DEF HasReply
  <2>2. Lone(inbox')
    <3>1. (Lone(inbox) /\ ~Reply(x)) \/ Absent(inbox) => Lone(Append(inbox, x))
      BY <1>1, <1>2, Lonely, Zenon
    <3> QED BY <1>1, <1>2, <1>6, <3>1, Zenon DEF HasReply
  <2>3. Absent(up') \/ Absent(inbox')
    BY <1>6, <1>7, <2>1, Zenon DEF HasReply
  <2>4. \A t \in Elems(up') \cup Elems(inbox') : Reply(t) => t.tag = Tag'
    BY <1>4, <1>5, Zenon DEF HasReply
  <2> QED BY <1>1, <2>1, <2>2, <2>3, <2>4, Zenon DEF HasReply
<1> QED BY <1>1, <1>4, <1>8, <1>9, Fewer, Zenon

\* The session ends.
LEMMA SessionEndsRetry ==
    ASSUME Typed, Retry, SessionEnds
    PROVE  Retry'
<1>1. /\ UNCHANGED <<daemon, h, verdict, failed>> /\ inbox' = inbox /\ Tag' = Tag
      /\ down' = <<>> /\ up' = <<>>
  BY Zenon DEF SessionEnds, setting, Tag
<1>2. Elems(down') = {} /\ Elems(up') = {} /\ Absent(up') /\ Lone(up')
  BY <1>1, NoElems DEF Absent, Lone
<1>3. OnItsWay => OnItsWay'
  BY <1>1, <1>2 DEF OnItsWay
<1>4. HasReply => HasReply'
  BY <1>1, <1>2, Zenon DEF HasReply
<1> QED BY <1>1, <1>2, <1>3, <1>4, Fewer, Zenon

\* Only the client moves, or nothing does.
LEMMA SameRetry ==
    ASSUME Typed, Retry, ClientLeaves \/ UNCHANGED vars
    PROVE  Retry'
<1>1. UNCHANGED <<daemon, h, verdict, failed, down, up, inbox>>
  BY Zenon DEF ClientLeaves, vars, hostvars, setting
<1>2. OnItsWay => OnItsWay'
  BY <1>1, Zenon DEF OnItsWay, Tag
<1>3. HasReply => HasReply'
  BY <1>1, Zenon DEF HasReply, Tag
<1> QED BY <1>1, <1>2, <1>3, Fewer, Zenon

\* A daemon takes a request.  Only FileCheck gets a reply, and a device has
\* nothing to say of the first attempt before it.
LEMMA DaemonRetry ==
    ASSUME Typed, Retry, DaemonTakes
    PROVE  Retry'
<1>1. /\ UNCHANGED <<daemon, h, verdict, failed, inbox>> /\ down # <<>> /\ down' = Tail(down)
      /\ down \in Seq(Letter(Request)) /\ up \in Seq(Letter(Response))
      /\ daemon \in {"device", "hdcd"}
  BY Basics, Zenon DEF DaemonTakes, setting, hostvars
<1>2. PICK out : Fits(Head(down).msg, out) /\ up' = up \o Tagged(out, Head(down).tag)
  BY DaemonAnswered, Zenon DEF Answered
<1>3. PICK x, q : /\ x = Head(down) /\ q = Tagged(out, x.tag) /\ x.tag \in Nat \X Part
                  /\ up' = up \o q /\ Fits(x.msg, out)
  BY <1>1, <1>2, RequestTyped, Zenon DEF Typed
<1>4. /\ q \in Seq(Letter(Response))
      /\ \A t \in Elems(q) : t.tag = x.tag /\ t.msg \in Elems(out)
      /\ \A i \in DOMAIN q : i \in DOMAIN out /\ q[i].msg = out[i]
  BY <1>3, Posted DEF Fits
<1>5. Elems(down) = {x} \cup Elems(down') /\ Elems(up') = Elems(up) \cup Elems(q)
  BY <1>1, <1>3, <1>4, Queues, SMTT(20)
<1>6. Hopeful' = Hopeful /\ First' = First /\ Tag' = Tag /\ Running' /\ RetryNotSpoiled'
  BY <1>1, Zenon DEF Hopeful, First, Tag, Retry, Running, RetryNotSpoiled
<1>7. ~Asks(x) => Absent(q)
  BY <1>3, <1>4, Zenon DEF Fits, Asks, Absent, Reply, Goes
<1>8. Lone(q)
  BY <1>3, <1>4 DEF Fits, Lone, Reply, Goes
<1>9. ASSUME OnItsWay, Asks(x)
      PROVE  HasReply' /\ down' = <<>>
  <2>1. 1 \in DOMAIN down /\ down[1] = x
    BY <1>1, <1>3
  <2>2. Len(down) = 1 /\ x.tag = Tag
    BY <1>9, <2>1, Zenon DEF OnItsWay
  <2>3. down' = <<>>
    BY <1>1, <2>2
  <2>4. Lone(up')
    BY <1>1, <1>3, <1>4, <1>8, <1>9, Lonely, Zenon DEF OnItsWay
  <2>5. Absent(inbox') /\ Lone(inbox')
    BY <1>1, <1>9, Basics, Lonely, Zenon DEF OnItsWay
  <2>6. \A t \in Elems(up') \cup Elems(inbox') : Reply(t) => t.tag = Tag'
    BY <1>1, <1>4, <1>5, <1>6, <1>9, <2>2, Zenon DEF OnItsWay, Absent
  <2> QED BY <2>3, <2>4, <2>5, <2>6, Zenon DEF HasReply
<1>10. ASSUME OnItsWay, ~Asks(x)
       PROVE  OnItsWay'
  <2>1. Absent(up') /\ Absent(inbox')
    BY <1>1, <1>5, <1>7, <1>10, Zenon DEF OnItsWay, Absent
  <2>2. \A i \in DOMAIN down' : /\ i + 1 \in DOMAIN down /\ down'[i] = down[i + 1]
                                /\ i + 1 = Len(down) => i = Len(down')
    BY <1>1
  <2> QED BY <1>6, <1>10, <2>1, <2>2, Zenon DEF OnItsWay
<1>11. ~HasReply
  BY <1>1, Zenon DEF HasReply
<1>12. Handshake'
  <2>1. ASSUME Quiet PROVE Quiet'
    BY <1>1, <1>5, <1>7, <2>1, Zenon DEF Quiet, Unasked, Absent
  <2> QED BY <1>1, <1>6, <1>9, <1>10, <1>11, <2>1, Zenon DEF Retry, Handshake
<1>13. Dated'
  <2>1. \A t \in Elems(q) : t.tag = x.tag
    BY <1>4, Zenon
  <2> QED BY <1>1, <1>5, <2>1, Zenon DEF Retry, Dated
<1>14. HdcdAccepts'
  <2>1. daemon = "hdcd" => ~Rejected(q)
    BY <1>3, <1>4, Zenon DEF Fits, Rejected
  <2> QED BY <1>1, <1>5, <2>1, Zenon DEF Retry, HdcdAccepts, Rejected
<1>15. SecondTry'
  <2>1. Free(down) /\ Over(up) => Free(down') /\ Over(up')
    BY <1>4, <1>5, Zenon DEF Free, Over
  <2> QED BY <1>1, <1>6, <2>1, Zenon DEF Retry, SecondTry, Free, Over
<1>16. FirstTry'
  <2> SUFFICES ASSUME Hopeful, h.kind = "send", ~h.retried, daemon = "device",
                      h.pc \in {"check", "open", "await"}
               PROVE  /\ \A t \in Elems(down') :
                            t.tag = First => t.msg.command = "KernelWakeupSlavetask" \/ Asks(t)
                      /\ h.pc \in {"check", "open"} => Free(up') /\ Free(inbox)
                      /\ h.pc = "await" /\ ~Unasked' => Free(up') /\ Free(inbox)
                      /\ h.pc = "await" /\ (Rejected(up') \/ Rejected(inbox)) => Over(up') /\ Over(inbox)
    BY <1>1, <1>6, Zenon DEF FirstTry, Free, Over, Rejected
  <2>1. /\ \A t \in Elems(down) :
              t.tag = First => t.msg.command = "KernelWakeupSlavetask" \/ Asks(t)
        /\ h.pc \in {"check", "open"} => Free(up) /\ Free(inbox)
        /\ h.pc = "await" /\ ~Unasked => Free(up) /\ Free(inbox)
    BY Zenon DEF Retry, FirstTry
  <2>2. ~Asks(x) => (Free(up) => Free(up'))
    <3>1. ~Asks(x) => x.tag # First \/ out = <<>>
      BY <1>3, <1>5, <2>1, Zenon DEF Fits
    <3>2. out = <<>> => Elems(q) = {}
      BY <1>4, NoElems, Zenon
    <3> QED BY <1>4, <1>5, <3>1, <3>2, Zenon DEF Free
  <2>3. CASE h.pc \in {"check", "open"}
    <3>1. Quiet
      BY <2>3, Zenon DEF Retry, Handshake
    <3>2. ~Asks(x)
      BY <1>5, <3>1, Zenon DEF Quiet, Unasked
    <3> QED BY <1>5, <2>1, <2>2, <2>3, <3>2, Zenon
  <2>4. CASE h.pc = "await"
    <3>1. OnItsWay
      BY <1>11, <2>4, Zenon DEF Retry, Handshake
    <3>2. CASE Asks(x)
      <4>1. Free(up) /\ Free(inbox)
        BY <1>5, <2>1, <2>4, <3>2, Zenon DEF Unasked
      <4>2. Unasked'
        BY <1>9, <3>1, <3>2, NoElems, Zenon DEF Unasked
      <4>3. ASSUME Rejected(up') \/ Rejected(inbox) PROVE Over(up') /\ Over(inbox)
        <5>1. ~Rejected(up) /\ ~Rejected(inbox)
          BY <3>1, Zenon DEF OnItsWay, Absent, Reply, Rejected
        <5>2. Rejected(q)
          BY <1>5, <4>3, <5>1, Zenon DEF Rejected
        <5>3. \A y \in Elems(out) : y.command = "KernelChannelClose" \/ DirectoryError(y)
          BY <1>3, <1>4, <5>2, Zenon DEF Fits, Rejected
        <5>4. Over(q)
          BY <1>4, <5>3, Zenon DEF Over
        <5> QED BY <1>5, <4>1, <5>4, Zenon DEF Over, Free
      <4> QED BY <1>5, <2>1, <2>4, <4>2, <4>3, Zenon
    <3>3. CASE ~Asks(x)
      <4>1. ~Rejected(up') /\ ~Rejected(inbox)
        BY <1>5, <1>7, <3>1, <3>3, Zenon DEF OnItsWay, Absent, Reply, Rejected
      <4>2. ~Unasked' => ~Unasked
        BY <1>5, Zenon DEF Unasked
      <4> QED BY <1>5, <2>1, <2>2, <2>4, <3>3, <4>1, <4>2, ZenonT(30)
    <3> QED BY <3>2, <3>3, Zenon
  <2> QED BY <2>3, <2>4, Zenon
<1> QED BY <1>6, <1>12, <1>13, <1>14, <1>15, <1>16, Zenon DEF Retry

\* Every step keeps the invariant.
LEMMA RetryStep == Typed /\ Retry /\ [Next]_vars => Retry'
<1> SUFFICES ASSUME Typed, Retry, [Next]_vars PROVE Retry'
  BY Zenon
<1>1. CASE \E kind \in mix.kinds, path \in mix.paths, size \in mix.sizes : Begin(kind, path, size)
  BY <1>1, BeginRetry, Zenon
<1>2. CASE HandlerStep
  BY Zenon, <1>2, CheckRetry, OpenRetry, GiveUpRetry, TakeGoRetry, StreamRetry, TakeVerdictRetry,
     RecvSendsRetry, TakeDataRetry, EndRetry, FlushRetry DEF HandlerStep
<1>3. CASE RouteResponse
  BY <1>3, RouteRetry, Zenon
<1>4. CASE SessionEnds
  BY <1>4, SessionEndsRetry, Zenon
<1>5. CASE ClientLeaves \/ UNCHANGED vars
  BY <1>5, SameRetry, Zenon
<1>6. CASE DaemonTakes
  BY <1>6, DaemonRetry, Zenon
<1> QED BY <1>1, <1>2, <1>3, <1>4, <1>5, <1>6, Zenon DEF Next

\* The close with which a daemon follows its rejection of a directory, or
\* anything else it says of the first attempt, never fails the second attempt
\* of file send (server.rs:2526-2558), on a channel whose earlier transfers have
\* not failed: for any number of transfers, of any kinds, in any order.
THEOREM SecondAttempt == Spec => []RetryNotSpoiled
<1>1. Init => Typed /\ Retry
  BY TypedInit, RetryInit, Zenon
<1>2. Typed /\ Retry /\ [Next]_vars => Typed' /\ Retry'
  BY TypedStep, RetryStep, Zenon
<1>3. Retry => RetryNotSpoiled
  BY Zenon DEF Retry
<1> QED BY <1>1, <1>2, <1>3, PTL DEF Spec

=============================================================================
