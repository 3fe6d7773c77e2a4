---------------------------- MODULE MCPortForward ----------------------------
(***************************************************************************)
(* Instances of PortForward for TLC.                                       *)
(***************************************************************************)
EXTENDS PortForward

Command(op, session, spec, debug, channel, turn) ==
    [op |-> op, session |-> session, spec |-> spec, debug |-> debug,
     channel |-> channel, turn |-> turn]

\* Forwards from one local port to two devices, and one for a debugger; a
\* reverse rule with hdcd that shares its key with a forward; removals of
\* everything and of one end.  The keep-alive channel "a" has a forward as its
\* second command, after a track-jpid and before another forward or a file
\* transfer; "b" has a reverse rule after a file transfer and before another.
Commands ==
    [f1  |-> Command("fport", "u", <<"1", "8">>, TRUE, "a", 2),
     f2  |-> Command("fport", "u", <<"2", "8">>, FALSE, "a", 3),
     f3  |-> Command("fport", "t", <<"2", "9">>, FALSE, "c", 1),
     r1  |-> Command("rport", "t", <<"1", "8">>, FALSE, "b", 2),
     r2  |-> Command("rport", "t", <<"1", "9">>, FALSE, "b", 3),
     tr  |-> Command("track", "u", <<>>, FALSE, "a", 1),
     fi1 |-> Command("file", "u", <<>>, FALSE, "a", 4),
     fi2 |-> Command("file", "t", <<>>, FALSE, "b", 1),
     rm1 |-> Command("rm", "any", <<>>, FALSE, "d", 1),
     rm2 |-> Command("rm", "u", <<"2">>, FALSE, "e", 1)]

Mixes ==
    {{"f2", "f3", "rm2"}, {"f3", "r1"}, {"r1", "rm1"}, {"f1", "r1"},
     {"f1", "f2"}, {"f1", "fi1"}, {"tr", "f1"}, {"fi2", "r1"}, {"r1", "r2"}}

=============================================================================
