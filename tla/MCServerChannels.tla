-------------------------- MODULE MCServerChannels --------------------------
(***************************************************************************)
(* Instances of ServerChannels for TLC.                                    *)
(***************************************************************************)
EXTENDS ServerChannels

CONSTANTS k1, k2, u1, u2, t1, c1, c2, i1, i2

\* A USB device that comes back, and a TCP device.
TwoKeys == [s \in {u1, u2, t1} |-> IF s = t1 THEN k2 ELSE k1]

\* One device, one session.
OneSession == [s \in {u1} |-> k1]

\* A USB device and a TCP device.
OneEach == [s \in {u1, t1} |-> IF s = t1 THEN k2 ELSE k1]

\* A client with -t and one without.
AnyAndNamed == [c \in {c1, c2} |-> IF c = c1 THEN k1 ELSE "any"]

\* Daemons that leave the sessions their ids.
OwnIds == [s \in UsbSession |-> {s}]

\* A daemon that may have its session take the id of the other device's.
OthersIds == [s \in UsbSession |-> IF s = u2 THEN {u2, t1} ELSE {s}]

OneNamed == [c \in {c1} |-> k1]

OneAny == [c \in {c1} |-> "any"]

=============================================================================
