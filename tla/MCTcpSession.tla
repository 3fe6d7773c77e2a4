---------------------------- MODULE MCTcpSession ----------------------------
(* Small instances of TcpSession.                                          *)
EXTENDS TcpSession

CONSTANTS s1, s2

EnvOf(host_enc, daemon_enc, host_key, hdcd, users, faults) ==
    [host_enc |-> host_enc, daemon_enc |-> daemon_enc, host_key |-> host_key, hdcd |-> hdcd,
     users |-> users, faults |-> faults]

\* One session with everything, against hdcd and against a device; forwards and
\* shells in an encrypted and in a plain session; two sessions with the same
\* address, both with faults; two sessions and a command that touches the
\* entry.
SessionEnvs ==
    {EnvOf(e, d, k, TRUE, {s1, "reconnect", "discover", "Close", "Other"}, {s1}) :
        e \in BOOLEAN, d \in BOOLEAN, k \in BOOLEAN}
    \cup {EnvOf(e, e, TRUE, TRUE, {s1, "reconnect"} \cup Commands, {s1}) : e \in BOOLEAN}
    \cup {EnvOf(e, FALSE, k, FALSE, {s1, "reconnect"}, {s1}) : e \in BOOLEAN, k \in BOOLEAN}
    \cup {EnvOf(e, e, TRUE, TRUE, {s1, s2, "Close"}, {s1, s2}) : e \in BOOLEAN}
    \cup {EnvOf(TRUE, TRUE, TRUE, TRUE, {s1, s2, "Forward", "Close"}, {s1})}
    \cup {EnvOf(TRUE, TRUE, TRUE, TRUE, {s1, s2, "reconnect", "discover", "Close"}, {s1})}

=============================================================================
