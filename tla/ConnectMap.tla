----------------------------- MODULE ConnectMap -----------------------------
(***************************************************************************)
(* The server's registry of devices (struct ConnectMap in server.rs): a    *)
(* hash map from connect keys to DaemonInfo records behind one RwLock.     *)
(* Every method takes the lock once and releases it before it returns, so  *)
(* each is one atomic step of its caller.  The registry is modelled as a   *)
(* function whose domain is the set of keys present; the methods are       *)
(* operators on such functions, used by every module that holds a          *)
(* connect_map variable.  Of DaemonInfo only session_id and conn_status    *)
(* are kept: no other field is read by the code that decides anything.     *)
(***************************************************************************)
EXTENDS Integers, FiniteSets

ConnStatus == {"Ready", "Connected", "Offline"}

DaemonInfo(session, status) == [session_id |-> session, conn_status |-> status]

EmptyMap == [k \in {} |-> {}]

Put(map, key, info) ==
    [k \in DOMAIN map \cup {key} |-> IF k = key THEN info ELSE map[k]]

Remove(map, key) == [k \in DOMAIN map \ {key} |-> map[k]]

UpdateStatus(map, key, status) ==
    [k \in DOMAIN map |->
        IF k = key THEN [map[k] EXCEPT !.conn_status = status] ELSE map[k]]

\* The keys that get_list(false) returns.
ConnectedKeys(map) == {k \in DOMAIN map : map[k].conn_status = "Connected"}

=============================================================================
