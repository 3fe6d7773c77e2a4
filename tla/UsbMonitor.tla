----------------------------- MODULE UsbMonitor -----------------------------
(***************************************************************************)
(* The USB device monitor of the server (usb_device_monitor and            *)
(* process_usb_device_changes in server.rs) together with the session      *)
(* tasks it spawns.  One monitor loop enumerates the bus, compares it with *)
(* its last snapshot, and adopts every device that no task owns and that   *)
(* is not waiting out a reconnect backoff; each adoption spawns a task     *)
(* that runs start_usb_session, then gives the serial back                 *)
(* (known_devices.remove) and records how the session ended.               *)
(*                                                                         *)
(* A step is what the code does between two awaits under one lock.  The    *)
(* monitor holds the known_devices lock during its whole adoption loop.    *)
(* What a session does inside start_usb_session is reduced here to its     *)
(* effect on connect_map.                                                  *)
(*                                                                         *)
(* Time: reconnect[s].left is next_attempt minus the current instant, in   *)
(* seconds, and lag is the time since the monitor read `now` at the start  *)
(* of its round, so that the code's test now < next_attempt reads          *)
(* left + lag > 0.                                                         *)
(***************************************************************************)
EXTENDS ConnectMap

CONSTANTS
    Serial,          \* serial numbers of the devices that may be plugged in
    Task,            \* identities of session tasks (the bound on live tasks)
    NoTask,          \* the session id 0 of an entry without a session
    Reconnectable,   \* serials a client may name in `target reconnect`
    ReopenFails,     \* whether a device in use cannot be opened again (Windows)
    ListingFails,    \* whether a device may be missing from an enumeration
    BackoffBase,     \* RECONNECT_BACKOFF_BASE_SECS
    BackoffMax,      \* RECONNECT_BACKOFF_MAX_SECS
    FailureCap,      \* failures are counted up to here, where the backoff has
                     \* reached its maximum
    MaxLag           \* bound on the seconds one round of the monitor takes

\* RECONNECT_BACKOFF_BASE_SECS << shift, for a shift of 0 to 5
ShiftFactor == <<1, 2, 4, 8, 16, 32>>

ASSUME ConstantsAssumption ==
    /\ NoTask \notin Task
    /\ Reconnectable \subseteq Serial
    /\ ReopenFails \in BOOLEAN /\ ListingFails \in BOOLEAN
    /\ BackoffBase \in Nat \ {0} /\ BackoffMax \in Nat \ {0}
    /\ FailureCap \in 1..6
    /\ FailureCap = 6 \/ BackoffBase * ShiftFactor[FailureCap] >= BackoffMax
    /\ MaxLag \in Nat

VARIABLES
    plugged,         \* devices physically present
    connect_map,     \* the registry of devices
    known,           \* known_devices: serials owned by a session task
    physical,        \* physical_devices: the monitor's last snapshot of the bus
    reconnect,       \* backoff state of the serials that failed
    mpc,             \* where the monitor is
    devices,         \* the devices of this round not yet looked at
    arrivals,        \* the serials that appeared in this round
    toclear,         \* the arrivals whose backoff is still to be removed
    lag,             \* seconds since the round read the clock
    task,            \* the session tasks
    dropping         \* keys between the two steps of `target reconnect`

monvars == <<known, physical, mpc, devices, arrivals, toclear, lag>>
vars == <<plugged, connect_map, known, physical, reconnect, mpc, devices,
          arrivals, toclear, lag, task, dropping>>

-----------------------------------------------------------------------------
(* Session tasks.  "open": connecting and authenticating; "live": the read *)
(* loop; "cleanup": the tail of start_usb_session after a read error;      *)
(* "release": about to remove the serial from known_devices; "record":     *)
(* about to record the outcome.                                            *)

\* SessionOutcome: Failed, or Ended with its clean flag; "none" before the end
Outcome == {"none", "clean", "unclean", "failed"}

FreeTask == [pc |-> "free", serial |-> "none", outcome |-> "none"]

TaskState ==
    {FreeTask} \cup [pc : {"open", "live", "cleanup", "release", "record"},
                    serial : Serial, outcome : Outcome]

Owning == {"open", "live", "cleanup", "release"}

Owns(t, s) == task[t].pc \in Owning /\ task[t].serial = s

\* The device handle is open until start_usb_session returns.
Holds(t, s) == task[t].pc \in {"open", "live", "cleanup"} /\ task[t].serial = s

Goto(t, pc) == task' = [task EXCEPT ![t].pc = pc]

Info == [session_id : Task \cup {NoTask}, conn_status : ConnStatus]

ReconnectState == [failures : 1..FailureCap, left : (-MaxLag)..BackoffMax]

\* The registry, the monitor and the tasks are in one of their states; no
\* backoff exceeds its maximum and no failure count its cap
\* (record_session_outcome).
TypeOK ==
    /\ plugged \subseteq Serial
    /\ DOMAIN connect_map \subseteq Serial
    /\ \A s \in DOMAIN connect_map : connect_map[s] \in Info
    /\ known \subseteq Serial
    /\ physical \subseteq Serial
    /\ DOMAIN reconnect \subseteq Serial
    /\ \A s \in DOMAIN reconnect : reconnect[s] \in ReconnectState
    /\ mpc \in {"wait", "diff", "clear", "adopt"}
    /\ devices \subseteq Serial
    /\ arrivals \subseteq Serial
    /\ toclear \subseteq Serial
    /\ lag \in 0..MaxLag
    /\ task \in [Task -> TaskState]
    /\ dropping \subseteq Reconnectable

Init ==
    /\ plugged \in SUBSET Serial
    /\ connect_map = EmptyMap
    /\ known = {}
    /\ physical = {}
    /\ reconnect = EmptyMap
    /\ mpc = "wait"
    /\ devices = {}
    /\ arrivals = {}
    /\ toclear = {}
    /\ lag = 0
    /\ task = [t \in Task |-> FreeTask]
    /\ dropping = {}

-----------------------------------------------------------------------------
(* The environment: cables, and the passing of one second.                 *)

Plug(s) ==
    /\ s \notin plugged
    /\ plugged' = plugged \cup {s}
    /\ UNCHANGED <<connect_map, reconnect, monvars, task, dropping>>

Unplug(s) ==
    /\ s \in plugged
    /\ plugged' = plugged \ {s}
    /\ UNCHANGED <<connect_map, reconnect, monvars, task, dropping>>

Tick ==
    /\ mpc = "wait" \/ lag < MaxLag
    /\ lag' = IF mpc = "wait" THEN 0 ELSE lag + 1
    /\ reconnect' = [s \in DOMAIN reconnect |->
          [reconnect[s] EXCEPT !.left = IF @ > -MaxLag THEN @ - 1 ELSE @]]
    /\ UNCHANGED <<plugged, connect_map, known, physical, mpc, devices, arrivals,
                   toclear, task, dropping>>

-----------------------------------------------------------------------------
(* One round of the monitor, started by a hotplug event or by the poll.    *)

\* A device that a session holds open is left out where it cannot be opened a
\* second time; every other device present is listed, unless listing the bus,
\* opening the device or reading its descriptors fails.
Enumerate(found) ==
    /\ mpc = "wait"
    /\ found \subseteq plugged
    /\ \A s \in plugged \ found :
          ListingFails \/ (ReopenFails /\ \E t \in Task : Holds(t, s))
    /\ mpc' = "diff"
    /\ devices' = found
    /\ lag' = 0
    /\ UNCHANGED <<plugged, connect_map, known, physical, reconnect, arrivals,
                   toclear, task, dropping>>

DiffDevices ==
    /\ mpc = "diff"
    /\ arrivals' = devices \ physical
    /\ toclear' = devices \ physical
    /\ physical' = devices
    /\ mpc' = "clear"
    /\ UNCHANGED <<plugged, connect_map, known, reconnect, devices, lag, task, dropping>>

ClearBackoff(s) ==
    /\ mpc = "clear"
    /\ s \in toclear
    /\ toclear' = toclear \ {s}
    /\ reconnect' = Remove(reconnect, s)
    /\ UNCHANGED <<plugged, connect_map, known, physical, mpc, devices, arrivals, lag,
                   task, dropping>>

LockKnown ==
    /\ mpc = "clear"
    /\ toclear = {}
    /\ mpc' = "adopt"
    /\ UNCHANGED <<plugged, connect_map, known, physical, reconnect, devices, arrivals,
                   toclear, lag, task, dropping>>

InBackoffForever(s) == s \in DOMAIN reconnect

\* now < st.next_attempt
InBackoff(s) == s \in DOMAIN reconnect /\ reconnect[s].left + lag > 0

Skip(s) ==
    /\ mpc = "adopt"
    /\ s \in devices
    /\ s \in known \/ InBackoff(s)
    /\ devices' = devices \ {s}
    /\ UNCHANGED <<plugged, connect_map, known, physical, reconnect, mpc, arrivals,
                   toclear, lag, task, dropping>>

AdoptKnownToo(s) ==
    /\ mpc = "adopt"
    /\ s \in devices
    /\ ~InBackoff(s)
    /\ devices' = devices \ {s}
    /\ known' = known \cup {s}
    /\ connect_map' = Put(connect_map, s, DaemonInfo(NoTask, "Ready"))
    /\ \E t \in Task :
          /\ task[t] = FreeTask
          /\ task' = [task EXCEPT ![t] = [pc |-> "open", serial |-> s, outcome |-> "none"]]
    /\ UNCHANGED <<plugged, physical, reconnect, mpc, arrivals, toclear, lag, dropping>>

\* The test, the insertion into known, the Ready entry and the spawn.  The
\* known lock is held across them and nothing else reads the new entry in
\* between, so they are one step.
Adopt(s) ==
    /\ mpc = "adopt"
    /\ s \in devices
    /\ s \notin known /\ ~InBackoff(s)
    /\ devices' = devices \ {s}
    /\ known' = known \cup {s}
    /\ connect_map' = Put(connect_map, s, DaemonInfo(NoTask, "Ready"))
    /\ \E t \in Task :
          /\ task[t] = FreeTask
          /\ task' = [task EXCEPT ![t] = [pc |-> "open", serial |-> s, outcome |-> "none"]]
    /\ UNCHANGED <<plugged, physical, reconnect, mpc, arrivals, toclear, lag, dropping>>

EndRound ==
    /\ mpc = "adopt"
    /\ devices = {}
    /\ mpc' = "wait"
    /\ arrivals' = {}
    /\ lag' = 0
    /\ UNCHANGED <<plugged, connect_map, known, physical, reconnect, devices, toclear,
                   task, dropping>>

-----------------------------------------------------------------------------
(* A session task.                                                         *)

SessionFailsInserts(t) ==
    /\ task[t].pc = "open"
    /\ connect_map' = Put(connect_map, task[t].serial, DaemonInfo(NoTask, "Offline"))
    /\ task' = [task EXCEPT ![t] =
          [pc |-> "release", serial |-> task[t].serial, outcome |-> "failed"]]
    /\ UNCHANGED <<plugged, reconnect, monvars, dropping>>

\* Any of the early returns of start_usb_session: the device does not open,
\* a send fails, authentication is refused, times out or takes too long.
SessionFails(t) ==
    /\ task[t].pc = "open"
    /\ connect_map' = UpdateStatus(connect_map, task[t].serial, "Offline")
    /\ task' = [task EXCEPT ![t] =
          [pc |-> "release", serial |-> task[t].serial, outcome |-> "failed"]]
    /\ UNCHANGED <<plugged, reconnect, monvars, dropping>>

Authenticated(t) ==
    /\ task[t].pc = "open"
    /\ task[t].serial \in plugged
    /\ connect_map' = Put(connect_map, task[t].serial, DaemonInfo(t, "Connected"))
    /\ Goto(t, "live")
    /\ UNCHANGED <<plugged, reconnect, monvars, dropping>>

\* The read loop breaks with (clean, reason).
EndsRead(t, outcome) ==
    task' = [task EXCEPT ![t] =
        [pc |-> "cleanup", serial |-> task[t].serial, outcome |-> outcome]]

ReadErrorKeepsEntry(t) ==
    /\ task[t].pc = "live"
    /\ \E outcome \in {"clean", "unclean"} : EndsRead(t, outcome)
    /\ UNCHANGED <<plugged, connect_map, reconnect, monvars, dropping>>

ReadError(t) ==
    /\ task[t].pc = "live"
    /\ connect_map' = Remove(connect_map, task[t].serial)
    /\ \E outcome \in {"clean", "unclean"} : EndsRead(t, outcome)
    /\ UNCHANGED <<plugged, reconnect, monvars, dropping>>

\* The rest of the cleanup works on the session and channel maps.
CleanupDone(t) ==
    /\ task[t].pc = "cleanup"
    /\ Goto(t, "release")
    /\ UNCHANGED <<plugged, connect_map, reconnect, monvars, dropping>>

ReleaseNothing(t) ==
    /\ task[t].pc = "release"
    /\ mpc # "adopt"
    /\ Goto(t, "record")
    /\ UNCHANGED <<plugged, connect_map, reconnect, monvars, dropping>>

Release(t) ==
    /\ task[t].pc = "release"
    /\ mpc # "adopt"
    /\ known' = known \ {task[t].serial}
    /\ Goto(t, "record")
    /\ UNCHANGED <<plugged, connect_map, physical, reconnect, mpc, devices, arrivals,
                   toclear, lag, dropping>>

Lesser(a, b) == IF a <= b THEN a ELSE b

BackoffWraps(failures) ==
    (BackoffBase * ShiftFactor[Lesser(failures - 1, 5) + 1]) % BackoffMax

BackoffUncapped(failures) == BackoffBase * ShiftFactor[Lesser(failures - 1, 5) + 1]

Backoff(failures) ==
    Lesser(BackoffBase * ShiftFactor[Lesser(failures - 1, 5) + 1], BackoffMax)

NextFailures(s) ==
    IF s \in DOMAIN reconnect THEN Lesser(reconnect[s].failures + 1, FailureCap) ELSE 1

\* record_session_outcome
Record(t) ==
    /\ task[t].pc = "record"
    /\ LET s == task[t].serial
           f == NextFailures(s) IN
       reconnect' = IF task[t].outcome = "failed"
                    THEN Put(reconnect, s, [failures |-> f, left |-> Backoff(f)])
                    ELSE Remove(reconnect, s)
    /\ task' = [task EXCEPT ![t] = FreeTask]
    /\ UNCHANGED <<plugged, connect_map, monvars, dropping>>

-----------------------------------------------------------------------------
(* `target reconnect` of a USB key: the registry is asked for the session, *)
(* and the entry is removed in a later step.  tcp_map.end_session finds no *)
(* TCP session under a USB session's id and does nothing.                  *)

ReconnectLookup(s) ==
    /\ s \in DOMAIN connect_map
    /\ s \notin dropping
    /\ dropping' = dropping \cup {s}
    /\ UNCHANGED <<plugged, connect_map, reconnect, monvars, task>>

ReconnectRemove(s) ==
    /\ s \in dropping
    /\ dropping' = dropping \ {s}
    /\ connect_map' = Remove(connect_map, s)
    /\ UNCHANGED <<plugged, reconnect, monvars, task>>

-----------------------------------------------------------------------------
MonitorStep ==
    \/ \E found \in SUBSET Serial : Enumerate(found)
    \/ DiffDevices
    \/ \E s \in Serial : ClearBackoff(s)
    \/ LockKnown
    \/ \E s \in Serial : Skip(s)
    \/ \E s \in Serial : Adopt(s)
    \/ EndRound

TaskStep(t) ==
    \/ SessionFails(t)
    \/ Authenticated(t)
    \/ ReadError(t)
    \/ CleanupDone(t)
    \/ Release(t)
    \/ Record(t)

Next ==
    \/ \E s \in Serial : Plug(s)
    \/ \E s \in Serial : Unplug(s)
    \/ Tick
    \/ MonitorStep
    \/ \E t \in Task : TaskStep(t)
    \/ \E s \in Reconnectable : ReconnectLookup(s)
    \/ \E s \in Reconnectable : ReconnectRemove(s)

Spec == Init /\ [][Next]_vars

(* The monitor never stops: the poll timer starts a round if no hotplug    *)
(* event does.  A task at any place but the read loop moves on by itself   *)
(* (every wait there has a timeout); in the read loop it is only sure to   *)
(* move when the device is gone and the pending transfer fails.  A task    *)
(* that waits for the known_devices lock gets it between two rounds, for   *)
(* tokio's Mutex is handed out in the order of the requests.               *)
Fairness ==
    /\ WF_vars(Tick)
    /\ WF_vars(MonitorStep)
    /\ \A t \in Task :
          /\ WF_vars(TaskStep(t) /\ task[t].pc # "live")
          /\ SF_vars(Release(t))
          /\ WF_vars(ReadError(t) /\ task[t].serial \notin plugged)
    /\ \A s \in Reconnectable : WF_vars(ReconnectRemove(s))

FairSpec == Spec /\ Fairness

(* A device that is asked often enough accepts.                           *)
Willing(s) == SF_vars(\E t \in Task : task[t].serial = s /\ Authenticated(t))

WillingSpec == FairSpec /\ \A s \in Serial : Willing(s)

-----------------------------------------------------------------------------
(* Properties.                                                             *)

\* known_devices is a lock: two tasks never work on the same device between
\* its adoption and the known_devices.remove at the end of the spawned task,
\* so no second claim of the interface can happen under a live session.
ExclusiveSession ==
    \A t, u \in Task : \A s \in Serial : Owns(t, s) /\ Owns(u, s) => t = u

\* What `list targets -v` shows of a device is what its session task is
\* doing: Connected names the session whose read loop is running, Ready means
\* that an attempt is under way, Offline that none is.
RegistryTellsTruth ==
    \A s \in DOMAIN connect_map :
        LET e == connect_map[s] IN
        /\ e.conn_status = "Connected" =>
              /\ e.session_id \in Task
              /\ task[e.session_id].pc = "live" /\ task[e.session_id].serial = s
        /\ e.conn_status = "Ready" =>
              \E t \in Task : task[t].pc = "open" /\ task[t].serial = s
        /\ e.conn_status = "Offline" =>
              \A t \in Task : task[t].serial = s => task[t].pc \notin {"open", "live"}

\* Why ExclusiveSession holds: known_devices is exactly the set of serials
\* that some task owns, in every interleaving of rounds and ending sessions.
KnownIsOwned == known = {s \in Serial : \E t \in Task : Owns(t, s)}

\* A further failure never brings the next attempt forward, although two
\* tasks of one device may record their failures in either order and the
\* monitor may remove the entry in between (record_session_outcome).
FailureNeverShortensWait ==
    [][\A t \in Task :
          LET s == task[t].serial IN
          Record(t) /\ task[t].outcome = "failed" /\ s \in DOMAIN reconnect
              => reconnect'[s].left >= reconnect[s].left]_vars

\* The registry, seen as the life of each device.
Status(s) == IF s \in DOMAIN connect_map THEN connect_map[s].conn_status ELSE "Absent"

Lifecycle == INSTANCE DeviceLifecycle WITH status <- [s \in Serial |-> Status(s)]

\* The monitor and its tasks implement DeviceLifecycle: whatever the order in
\* which rounds, failures, lost devices and `target reconnect` write the
\* registry, an entry only makes the moves of that specification.
ImplementsLifecycle == Lifecycle!Spec

\* A device that stays plugged in is never given up: again and again a task
\* works on it, whatever happened to earlier attempts (FALLBACK_POLL_SECS
\* "covers missed events and re-adoption after backoff expiry").
PluggedIsServed ==
    \A s \in Serial :
        <>[](s \in plugged) => []<>(\E t \in Task : Holds(t, s))

\* A device that stays away is not shown as Ready or Connected for ever: its
\* task notices, and no later round brings the entry back.
UnpluggedIsForgotten ==
    \A s \in Serial :
        <>[](s \notin plugged) => <>[](Status(s) \in {"Absent", "Offline"})

\* What the monitor is for: as long as nobody uses `target reconnect`, a
\* device that stays plugged in, and accepts when it is asked often enough,
\* is Connected again and again, however its earlier sessions ended.
WillingIsConnected ==
    \A s \in Serial :
        (Willing(s) /\ [](dropping = {}) /\ <>[](s \in plugged))
            => []<>(Status(s) = "Connected")

=============================================================================
