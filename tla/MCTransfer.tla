----------------------------- MODULE MCTransfer -----------------------------
(***************************************************************************)
(* Instances of Transfer for TLC.                                          *)
(***************************************************************************)
EXTENDS Transfer

\* Every kind of transfer, empty files included, against either daemon.
TwoInARow ==
    [daemons |-> {"device", "hdcd"}, links |-> {"usb", "tcp"},
     kinds |-> {"send", "recv", "install", "flash", "erase"},
     paths |-> {"plain", "dir", "spaced"}, sizes |-> {0, 2}, transfers |-> 2,
     faulty |-> {"install", "flash", "recv"}]

\* Enough transfers for two to precede the last.
ThreeInARow ==
    [daemons |-> {"device"}, links |-> {"tcp"},
     kinds |-> {"send", "recv", "flash"}, paths |-> {"plain"}, sizes |-> {1}, transfers |-> 3,
     faulty |-> {}]

Mixes == {TwoInARow, ThreeInARow}

=============================================================================
