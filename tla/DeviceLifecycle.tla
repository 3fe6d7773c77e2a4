-------------------------- MODULE DeviceLifecycle --------------------------
(***************************************************************************)
(* What `list targets -v` promises about a USB device: the life of its     *)
(* entry in the registry, without the monitor, its locks and its tasks.    *)
(* A device is adopted (Ready), then either authenticated (Connected) or   *)
(* given up (Offline); a connected device that is lost disappears; an      *)
(* offline one is adopted again.  A key in Reconnectable may also be       *)
(* dropped at any time by `target reconnect`, and then a session that was  *)
(* being authenticated brings it back directly as Connected.               *)
(***************************************************************************)
CONSTANTS Serial, Reconnectable

VARIABLE status

Statuses == {"Absent", "Ready", "Connected", "Offline"}

\* A device's entry is absent or has one of the three states (ConnStatus).
TypeOK == status \in [Serial -> Statuses]

Init == status = [s \in Serial |-> "Absent"]

Change(s, from, to) ==
    /\ status[s] \in from
    /\ status' = [status EXCEPT ![s] = to]

Adopt(s) == Change(s, {"Absent", "Offline"}, "Ready")

Authenticate(s) ==
    \/ Change(s, {"Ready"}, "Connected")
    \/ s \in Reconnectable /\ Change(s, {"Absent"}, "Connected")

GiveUp(s) == Change(s, {"Ready"}, "Offline")

Lose(s) == Change(s, {"Connected"}, "Absent")

Drop(s) == s \in Reconnectable /\ Change(s, Statuses, "Absent")

Next == \E s \in Serial :
    Adopt(s) \/ Authenticate(s) \/ GiveUp(s) \/ Lose(s) \/ Drop(s)

Spec == Init /\ [][Next]_status

=============================================================================
