-------------------------- MODULE UsbMonitorProofs --------------------------
(***************************************************************************)
(* Proofs about UsbMonitor, for any number of devices and tasks and any    *)
(* backoff parameters.                                                     *)
(***************************************************************************)
EXTENDS UsbMonitor, TLAPS

\* The backoff schedule stays within its bounds and does not decrease.
LEMMA BackoffSchedule ==
    /\ \A f \in 1..6 : Backoff(f) \in 1..BackoffMax
    /\ \A f, g \in 1..6 : f <= g => Backoff(f) <= Backoff(g)
  <1>. DEFINE d(f) == Lesser(f - 1, 5) + 1
  <1>1. \A f \in 1..6 : d(f) = f
    BY DEF Lesser
  <1>2. \A f \in 1..6 : ShiftFactor[f] \in Nat \ {0}
    BY DEF ShiftFactor
  <1>3. \A f, g \in 1..6 : f <= g => ShiftFactor[f] <= ShiftFactor[g]
    BY DEF ShiftFactor
  <1>4. \A a, b \in Nat \ {0} : BackoffBase * a \in Nat \ {0}
                               /\ (a <= b => BackoffBase * a <= BackoffBase * b)
    BY ConstantsAssumption
  <1>5. \A f \in 1..6 : Backoff(f) = Lesser(BackoffBase * ShiftFactor[f], BackoffMax)
    BY <1>1, Zenon DEF Backoff
  <1>6. \A f \in 1..6 : BackoffBase * ShiftFactor[f] \in Nat \ {0}
    BY <1>2, <1>4, Zenon
  <1>7. \A f, g \in 1..6 : f <= g =>
           BackoffBase * ShiftFactor[f] <= BackoffBase * ShiftFactor[g]
    BY <1>2, <1>3, <1>4, Zenon
  <1>. HIDE DEF d
  <1>. QED
    BY <1>5, <1>6, <1>7, ConstantsAssumption DEF Lesser

-----------------------------------------------------------------------------
\* Each conjunct of TypeOK that some action changes by more than a set
\* operation, as a predicate of its own.
IsRegistry(m) == DOMAIN m \subseteq Serial /\ \A s \in DOMAIN m : m[s] \in Info

IsBackoff(r) == DOMAIN r \subseteq Serial /\ \A s \in DOMAIN r : r[s] \in ReconnectState

LEMMA PutRegistry ==
    ASSUME NEW m, IsRegistry(m), NEW s \in Serial, NEW i \in Info
    PROVE  IsRegistry(Put(m, s, i))
  BY Zenon DEF IsRegistry, Put

LEMMA PutBackoff ==
    ASSUME NEW r, IsBackoff(r), NEW s \in Serial, NEW i \in ReconnectState
    PROVE  IsBackoff(Put(r, s, i))
  BY Zenon DEF IsBackoff, Put

LEMMA RemoveKeeps ==
    ASSUME NEW m, NEW s
    PROVE  /\ IsRegistry(m) => IsRegistry(Remove(m, s))
           /\ IsBackoff(m) => IsBackoff(Remove(m, s))
  BY Zenon DEF IsRegistry, IsBackoff, Remove

LEMMA UpdateStatusRegistry ==
    ASSUME NEW m, IsRegistry(m), NEW s \in Serial, NEW st \in ConnStatus
    PROVE  IsRegistry(UpdateStatus(m, s, st))
  BY Zenon DEF IsRegistry, UpdateStatus, Info

\* A task that is not free works for some device, and moving it to another
\* place of its program keeps it well formed.
LEMMA TaskFacts ==
    ASSUME TypeOK, NEW t \in Task, task[t].pc # "free"
    PROVE  /\ task[t].serial \in Serial
           /\ task[t].outcome \in Outcome
           /\ \A pc \in {"open", "live", "cleanup", "release", "record"} :
                 [task EXCEPT ![t].pc = pc] \in [Task -> TaskState]
  BY DEF TypeOK, TaskState, FreeTask

LEMMA ReadErrorState ==
    ASSUME TypeOK, NEW t \in Task, ReadError(t)
    PROVE  \E outcome \in Outcome :
              LET st == [pc |-> "cleanup", serial |-> task[t].serial, outcome |-> outcome]
              IN  st \in TaskState /\ task' = [task EXCEPT ![t] = st]
  <1>1. PICK outcome \in {"clean", "unclean"} : EndsRead(t, outcome)
    BY Zenon DEF ReadError
  <1>2. [pc |-> "cleanup", serial |-> task[t].serial, outcome |-> outcome] \in TaskState
    BY TaskFacts, Zenon DEF ReadError, TaskState, Outcome
  <1>3. outcome \in Outcome
    BY Zenon DEF Outcome
  <1>. QED
    BY <1>1, <1>2, <1>3, Zenon DEF EndsRead

-----------------------------------------------------------------------------
LEMMA TypeInit == Init => TypeOK
  BY ConstantsAssumption DEF Init, TypeOK, EmptyMap, TaskState

LEMMA TypeStep == TypeOK /\ [Next]_vars => TypeOK'
  <1>. SUFFICES ASSUME TypeOK, [Next]_vars PROVE TypeOK'
    BY Zenon
  <1>. USE ConstantsAssumption
  <1>0. IsRegistry(connect_map) /\ IsBackoff(reconnect)
    BY Zenon DEF TypeOK, IsRegistry, IsBackoff
  <1>1. ASSUME NEW s \in Serial, Plug(s) \/ Unplug(s) PROVE TypeOK'
    BY <1>1, Zenon DEF TypeOK, Plug, Unplug, monvars
  <1>2. CASE Tick
    <2>1. \A s \in DOMAIN reconnect' : reconnect'[s] \in ReconnectState
      BY <1>2 DEF Tick, TypeOK, ReconnectState
    <2>. QED
      BY <1>2, <2>1 DEF Tick, TypeOK
  <1>3. ASSUME NEW found \in SUBSET Serial, Enumerate(found) PROVE TypeOK'
    BY <1>3 DEF Enumerate, TypeOK
  <1>4. CASE DiffDevices
    BY <1>4, Zenon DEF DiffDevices, TypeOK
  <1>5. ASSUME NEW s \in Serial, ClearBackoff(s) PROVE TypeOK'
    <2>1. IsBackoff(reconnect')
      BY <1>0, <1>5, RemoveKeeps, Zenon DEF ClearBackoff
    <2>. QED
      BY <1>5, <2>1, Zenon DEF ClearBackoff, TypeOK, IsBackoff
  <1>6. CASE LockKnown
    BY <1>6, Zenon DEF LockKnown, TypeOK
  <1>7. ASSUME NEW s \in Serial, Skip(s) PROVE TypeOK'
    BY <1>7, Zenon DEF Skip, TypeOK
  <1>8. ASSUME NEW s \in Serial, Adopt(s) PROVE TypeOK'
    <2>1. DaemonInfo(NoTask, "Ready") \in Info
      BY Zenon DEF DaemonInfo, ConnStatus, Info
    <2>2. IsRegistry(connect_map')
      BY <1>0, <1>8, <2>1, PutRegistry, Zenon DEF Adopt
    <2>3. task' \in [Task -> TaskState]
      BY <1>8 DEF Adopt, TypeOK, TaskState, Outcome
    <2>. QED
      BY <1>8, <2>2, <2>3, Zenon DEF Adopt, TypeOK, IsRegistry
  <1>9. CASE EndRound
    BY <1>9 DEF EndRound, TypeOK
  <1>10. ASSUME NEW t \in Task, SessionFails(t) PROVE TypeOK'
    <2>1. task[t].serial \in Serial
      BY <1>10, TaskFacts, Zenon DEF SessionFails
    <2>2. IsRegistry(connect_map')
      BY <1>0, <1>10, <2>1, UpdateStatusRegistry, Zenon DEF SessionFails, ConnStatus
    <2>3. task' \in [Task -> TaskState]
      <3>1. [pc |-> "release", serial |-> task[t].serial, outcome |-> "failed"] \in TaskState
        BY <2>1, Zenon DEF TaskState, Outcome
      <3>. QED
        BY <1>10, <3>1, Zenon DEF SessionFails, TypeOK
    <2>. QED
      BY <1>10, <2>2, <2>3, Zenon DEF SessionFails, TypeOK, monvars, IsRegistry
  <1>11. ASSUME NEW t \in Task, Authenticated(t) PROVE TypeOK'
    <2>1. DaemonInfo(t, "Connected") \in Info /\ task[t].serial \in Serial
      BY <1>11, TaskFacts, Zenon DEF Authenticated, DaemonInfo, ConnStatus, Info
    <2>2. IsRegistry(connect_map')
      BY <1>0, <1>11, <2>1, PutRegistry, Zenon DEF Authenticated
    <2>3. task' \in [Task -> TaskState]
      BY <1>11, TaskFacts, Zenon DEF Authenticated, Goto
    <2>. QED
      BY <1>11, <2>2, <2>3, Zenon DEF Authenticated, TypeOK, monvars, IsRegistry
  <1>12. ASSUME NEW t \in Task, ReadError(t) PROVE TypeOK'
    <2>1. task' \in [Task -> TaskState]
      BY <1>12, ReadErrorState, Zenon DEF TypeOK
    <2>2. IsRegistry(connect_map')
      BY <1>0, <1>12, RemoveKeeps, Zenon DEF ReadError
    <2>. QED
      BY <1>12, <2>1, <2>2, Zenon DEF ReadError, TypeOK, monvars, IsRegistry
  <1>18. ASSUME NEW t \in Task, CleanupDone(t) PROVE TypeOK'
    <2>1. task' \in [Task -> TaskState]
      BY <1>18, TaskFacts, Zenon DEF CleanupDone, Goto
    <2>. QED
      BY <1>18, <2>1, Zenon DEF CleanupDone, TypeOK, monvars
  <1>13. ASSUME NEW t \in Task, Release(t) PROVE TypeOK'
    <2>1. task' \in [Task -> TaskState]
      BY <1>13, TaskFacts, Zenon DEF Release, Goto
    <2>. QED
      BY <1>13, <2>1, Zenon DEF Release, TypeOK
  <1>14. ASSUME NEW t \in Task, Record(t) PROVE TypeOK'
    <2>. DEFINE s == task[t].serial
                f == NextFailures(s)
                st == [failures |-> f, left |-> Backoff(f)]
    <2>1. task' \in [Task -> TaskState]
      BY <1>14, Zenon DEF Record, TypeOK, TaskState
    <2>2. f \in 1..FailureCap
      BY DEF NextFailures, Lesser, TypeOK, ReconnectState
    <2>3. st \in ReconnectState
      BY <2>2, BackoffSchedule DEF ReconnectState
    <2>4. s \in Serial
      BY <1>14, TaskFacts, Zenon DEF Record
    <2>5. IsBackoff(Put(reconnect, s, st)) /\ IsBackoff(Remove(reconnect, s))
      BY <1>0, <2>3, <2>4, PutBackoff, RemoveKeeps, Zenon
    <2>6. reconnect' = Put(reconnect, s, st) \/ reconnect' = Remove(reconnect, s)
      BY <1>14, Zenon DEF Record
    <2>7. IsBackoff(reconnect')
      BY <2>5, <2>6, Zenon
    <2>. QED
      BY <1>14, <2>1, <2>7, Zenon DEF Record, TypeOK, monvars, IsBackoff
  <1>15. ASSUME NEW s \in Reconnectable, ReconnectLookup(s) PROVE TypeOK'
    BY <1>15, Zenon DEF ReconnectLookup, TypeOK, monvars
  <1>16. ASSUME NEW s \in Reconnectable, ReconnectRemove(s) PROVE TypeOK'
    <2>1. IsRegistry(connect_map')
      BY <1>0, <1>16, RemoveKeeps, Zenon DEF ReconnectRemove
    <2>. QED
      BY <1>16, <2>1, Zenon DEF ReconnectRemove, TypeOK, monvars, IsRegistry
  <1>17. CASE UNCHANGED vars
    BY <1>17, Zenon DEF vars, TypeOK
  <1>. QED
    BY Zenon, <1>1, <1>2, <1>3, <1>4, <1>5, <1>6, <1>7, <1>8, <1>9, <1>10, <1>11, <1>12, <1>13,
       <1>14, <1>15, <1>16, <1>17, <1>18 DEF Next, MonitorStep, TaskStep

\* Every variable of the monitor keeps its type (all of UsbMonitor's actions).
THEOREM TypeCorrect == Spec => []TypeOK
  BY TypeInit, TypeStep, PTL DEF Spec

-----------------------------------------------------------------------------
\* known_devices as a lock: who owns which device.
Ownership == KnownIsOwned /\ ExclusiveSession

\* A step that changes neither known nor any task's ownership.
LEMMA SameOwners ==
    ASSUME Ownership, known' = known,
           \A u \in Task : \A s \in Serial : Owns(u, s)' <=> Owns(u, s)
    PROVE  Ownership'
  BY Zenon DEF Ownership, KnownIsOwned, ExclusiveSession

\* Moving a task between two places where it owns its device, or between two
\* where it does not, changes no ownership.
LEMMA MoveKeepsOwners ==
    ASSUME TypeOK, NEW t \in Task, NEW st \in TaskState,
           task' = [task EXCEPT ![t] = st],
           (st.pc \in Owning) <=> (task[t].pc \in Owning),
           st.pc \in Owning => st.serial = task[t].serial
    PROVE  \A u \in Task : \A s \in Serial : Owns(u, s)' <=> Owns(u, s)
  BY Zenon DEF Owns, TypeOK

LEMMA GotoState ==
    ASSUME TypeOK, NEW t \in Task, NEW pc, Goto(t, pc), task[t].pc # "free",
           pc \in {"open", "live", "cleanup", "release", "record"}
    PROVE  LET st == [pc |-> pc, serial |-> task[t].serial, outcome |-> task[t].outcome]
           IN  st \in TaskState /\ task' = [task EXCEPT ![t] = st]
  <1>. DEFINE Active == [pc : {"open", "live", "cleanup", "release", "record"},
                         serial : Serial, outcome : Outcome]
              st == [pc |-> pc, serial |-> task[t].serial, outcome |-> task[t].outcome]
  <1>1. task \in [Task -> TaskState] /\ task[t] \in Active
    BY DEF TypeOK, TaskState, FreeTask
  <1>2. st \in Active
    BY <1>1, Zenon
  <1>3. [task[t] EXCEPT !.pc = pc] = st
    BY <1>1
  <1>4. task' = [task EXCEPT ![t] = [task[t] EXCEPT !.pc = pc]]
    BY <1>1, Zenon DEF Goto
  <1>. QED
    BY <1>2, <1>3, <1>4, Zenon DEF TaskState

LEMMA OwnershipStep == TypeOK /\ Ownership /\ [Next]_vars => Ownership'
  <1>. SUFFICES ASSUME TypeOK, Ownership, [Next]_vars PROVE Ownership'
    BY Zenon
  <1>1. CASE known' = known /\ task' = task
    BY <1>1, SameOwners, Zenon DEF Owns
  <1>2. ASSUME NEW s \in Serial, Adopt(s) PROVE Ownership'
    <2>1. PICK t \in Task :
             /\ task[t] = FreeTask
             /\ task' = [task EXCEPT ![t] = [pc |-> "open", serial |-> s, outcome |-> "none"]]
      BY <1>2, Zenon DEF Adopt
    <2>2. \A u \in Task : ~Owns(u, s)
      BY <1>2, Zenon DEF Adopt, Ownership, KnownIsOwned
    <2>3. Owns(t, s)' /\ \A x \in Serial : x # s => ~Owns(t, x)'
      BY <2>1, Zenon DEF Owns, Owning, TypeOK
    <2>4. \A u \in Task : u # t => \A x \in Serial : Owns(u, x)' <=> Owns(u, x)
      BY <2>1, Zenon DEF Owns, TypeOK
    <2>5. \A x \in Serial : ~Owns(t, x)
      BY <2>1 DEF Owns, Owning, FreeTask
    <2>6. known' = known \cup {s}
      BY <1>2, Zenon DEF Adopt
    <2>7. KnownIsOwned'
      BY <2>3, <2>4, <2>5, <2>6, Zenon DEF Ownership, KnownIsOwned
    <2>8. ExclusiveSession'
      BY <2>2, <2>3, <2>4 DEF Ownership, ExclusiveSession
    <2>. QED
      BY <2>7, <2>8, Zenon DEF Ownership
  <1>3. ASSUME NEW t \in Task, SessionFails(t) PROVE Ownership'
    <2>. DEFINE st == [pc |-> "release", serial |-> task[t].serial, outcome |-> "failed"]
    <2>1. st \in TaskState
      BY <1>3, TaskFacts, Zenon DEF SessionFails, TaskState, Outcome
    <2>2. task' = [task EXCEPT ![t] = st] /\ task[t].pc = "open" /\ known' = known
      BY <1>3, Zenon DEF SessionFails, monvars
    <2>3. \A u \in Task : \A s \in Serial : Owns(u, s)' <=> Owns(u, s)
      BY <2>1, <2>2, MoveKeepsOwners, Zenon DEF Owning
    <2>. QED
      BY <2>2, <2>3, SameOwners, Zenon
  <1>9. ASSUME NEW t \in Task, ReadError(t) PROVE Ownership'
    <2>1. known' = known /\ task[t].pc = "live"
      BY <1>9, Zenon DEF ReadError, monvars
    <2>2. PICK outcome \in Outcome :
             LET st == [pc |-> "cleanup", serial |-> task[t].serial, outcome |-> outcome]
             IN  st \in TaskState /\ task' = [task EXCEPT ![t] = st]
      BY <1>9, ReadErrorState, Zenon
    <2>3. \A u \in Task : \A s \in Serial : Owns(u, s)' <=> Owns(u, s)
      BY <2>1, <2>2, MoveKeepsOwners, Zenon DEF Owning
    <2>. QED
      BY <2>1, <2>3, SameOwners, Zenon
  <1>4. ASSUME NEW t \in Task, Authenticated(t) \/ CleanupDone(t) PROVE Ownership'
    <2>1. PICK pc \in {"live", "release"} :
             Goto(t, pc) /\ known' = known /\ task[t].pc \in {"open", "cleanup"}
      BY <1>4, Zenon DEF Authenticated, CleanupDone, monvars
    <2>. DEFINE st == [pc |-> pc, serial |-> task[t].serial, outcome |-> task[t].outcome]
    <2>2. st \in TaskState /\ task' = [task EXCEPT ![t] = st]
      BY <2>1, GotoState, Zenon
    <2>3. \A u \in Task : \A s \in Serial : Owns(u, s)' <=> Owns(u, s)
      BY <2>1, <2>2, MoveKeepsOwners, Zenon DEF Owning
    <2>. QED
      BY <2>1, <2>3, SameOwners, Zenon
  <1>5. ASSUME NEW t \in Task, Release(t) PROVE Ownership'
    <2>. DEFINE s == task[t].serial
    <2>1. s \in Serial /\ Owns(t, s) /\ known' = known \ {s}
      BY <1>5, TaskFacts, Zenon DEF Release, Owns, Owning
    <2>2. \A x \in Serial : ~Owns(t, x)'
      BY <1>5 DEF Release, Goto, Owns, Owning, TypeOK
    <2>3. \A u \in Task : u # t => \A x \in Serial : Owns(u, x)' <=> Owns(u, x)
      BY <1>5, Zenon DEF Release, Goto, Owns, TypeOK
    <2>4. \A u \in Task : u # t => ~Owns(u, s)
      BY <2>1, Zenon DEF Ownership, ExclusiveSession
    <2>5. \A x \in Serial : x # s => ~Owns(t, x)
      BY Zenon DEF Owns
    <2>. HIDE DEF s
    <2>6. KnownIsOwned'
      BY <2>1, <2>2, <2>3, <2>4, <2>5, Zenon DEF Ownership, KnownIsOwned
    <2>7. ExclusiveSession'
      BY <2>2, <2>3, Zenon DEF Ownership, ExclusiveSession
    <2>. QED
      BY <2>6, <2>7, Zenon DEF Ownership
  <1>6. ASSUME NEW t \in Task, Record(t) PROVE Ownership'
    <2>1. task' = [task EXCEPT ![t] = FreeTask] /\ task[t].pc = "record" /\ known' = known
      BY <1>6, Zenon DEF Record, monvars
    <2>2. \A u \in Task : \A s \in Serial : Owns(u, s)' <=> Owns(u, s)
      BY <2>1, MoveKeepsOwners, Zenon DEF Owning, FreeTask, TaskState
    <2>. QED
      BY <2>1, <2>2, SameOwners, Zenon
  <1>. QED
    BY <1>1, <1>2, <1>3, <1>4, <1>5, <1>6, <1>9, Zenon
    DEF Next, MonitorStep, TaskStep, Plug, Unplug, Tick, Enumerate, DiffDevices, ClearBackoff,
        LockKnown, Skip, EndRound, ReconnectLookup, ReconnectRemove, vars, monvars

\* No two session tasks ever work on one device, and known_devices is exactly
\* the set of devices that tasks work on (process_usb_device_changes and the
\* task it spawns).
THEOREM Exclusive == Spec => [](ExclusiveSession /\ KnownIsOwned)
  <1>1. Init => Ownership
    BY DEF Init, Ownership, KnownIsOwned, ExclusiveSession, Owns, Owning, FreeTask
  <1>2. Spec => [](TypeOK /\ Ownership)
    BY <1>1, TypeInit, TypeStep, OwnershipStep, PTL DEF Spec
  <1>. QED
    BY <1>2, PTL DEF Ownership

\* A device is in known_devices exactly while a session task works on it, so
\* that a device that is plugged in again is never taken for one in use and
\* one in use is never opened twice (known_devices in
\* process_usb_device_changes).
THEOREM KnownExactly == Spec => []KnownIsOwned
  BY Exclusive, PTL

-----------------------------------------------------------------------------
\* What RegistryTellsTruth says of one device, for a registry and tasks.
Truth(m, tk, s) ==
    /\ m[s].conn_status = "Connected" =>
          /\ m[s].session_id \in Task
          /\ tk[m[s].session_id].pc = "live" /\ tk[m[s].session_id].serial = s
    /\ m[s].conn_status = "Ready" =>
          \E t \in Task : tk[t].pc = "open" /\ tk[t].serial = s
    /\ m[s].conn_status = "Offline" =>
          \A t \in Task : tk[t].serial = s => tk[t].pc \notin {"open", "live"}

LEMMA TruthEach ==
    RegistryTellsTruth <=> \A s \in DOMAIN connect_map : Truth(connect_map, task, s)
  BY Zenon DEF RegistryTellsTruth, Truth

LEMMA TruthEachPrimed ==
    RegistryTellsTruth' <=> \A s \in DOMAIN connect_map' : Truth(connect_map', task', s)
  BY Zenon DEF RegistryTellsTruth, Truth

\* An entry keeps telling the truth when a task of another device changes.
LEMMA TruthElsewhere ==
    ASSUME NEW m, NEW n, NEW tk \in [Task -> TaskState], NEW t \in Task, NEW st \in TaskState,
           NEW s, n[s] = m[s], Truth(m, tk, s),
           tk[t].pc \in {"open", "live"} => tk[t].serial # s,
           st.pc \in {"open", "live"} => st.serial # s
    PROVE  Truth(n, [tk EXCEPT ![t] = st], s)
  BY Zenon DEF Truth

LEMMA TruthStep ==
    TypeOK /\ Ownership /\ RegistryTellsTruth /\ [Next]_vars => RegistryTellsTruth'
  <1>. SUFFICES ASSUME TypeOK, Ownership, RegistryTellsTruth, [Next]_vars
                PROVE  \A s \in DOMAIN connect_map' : Truth(connect_map', task', s)
    BY TruthEachPrimed, Zenon
  <1>. DEFINE Goal == \A s \in DOMAIN connect_map' : Truth(connect_map', task', s)
  <1>0. /\ \A s \in DOMAIN connect_map : Truth(connect_map, task, s)
        /\ task \in [Task -> TaskState]
        /\ DOMAIN connect_map \subseteq Serial
    BY TruthEach, Zenon DEF TypeOK
  <1>1. CASE connect_map' = connect_map /\ task' = task
    BY <1>0, <1>1, Zenon
  <1>2. ASSUME NEW s \in Serial, Adopt(s) PROVE Goal
    <2>. DEFINE st == [pc |-> "open", serial |-> s, outcome |-> "none"]
    <2>1. PICK t \in Task : task[t] = FreeTask /\ task' = [task EXCEPT ![t] = st]
      BY <1>2, Zenon DEF Adopt
    <2>2. connect_map' = Put(connect_map, s, DaemonInfo(NoTask, "Ready"))
      BY <1>2, Zenon DEF Adopt
    <2>3. DOMAIN connect_map' = DOMAIN connect_map \cup {s}
          /\ connect_map'[s] = DaemonInfo(NoTask, "Ready")
          /\ \A x \in DOMAIN connect_map : x # s => connect_map'[x] = connect_map[x]
      BY <2>2, Zenon DEF Put
    <2>4. Truth(connect_map', task', s)
      <3>1. task'[t].pc = "open" /\ task'[t].serial = s
        BY <1>0, <2>1, Zenon
      <3>. QED
        BY <2>3, <3>1 DEF Truth, DaemonInfo
    <2>5. st \in TaskState
      BY Zenon DEF TaskState, Outcome
    <2>6. task[t].pc = "free" /\ st.serial = s
      BY <2>1 DEF FreeTask
    <2>7. ASSUME NEW x \in DOMAIN connect_map, x # s PROVE Truth(connect_map', task', x)
      <3>. HIDE DEF st
      <3>. QED
        BY <1>0, <2>1, <2>3, <2>5, <2>6, <2>7, TruthElsewhere, Zenon
    <2>. QED
      BY <2>3, <2>4, <2>7, Zenon
  <1>3. ASSUME NEW t \in Task, SessionFails(t) PROVE Goal
    <2>. DEFINE s == task[t].serial
                st == [pc |-> "release", serial |-> s, outcome |-> "failed"]
    <2>1. task' = [task EXCEPT ![t] = st] /\ task[t].pc = "open"
          /\ connect_map' = UpdateStatus(connect_map, s, "Offline")
      BY <1>3, Zenon DEF SessionFails
    <2>2. st \in TaskState /\ s \in Serial
      BY <2>1, TaskFacts, Zenon DEF TaskState, Outcome
    <2>3. /\ DOMAIN connect_map' = DOMAIN connect_map
          /\ \A x \in DOMAIN connect_map : x # s => connect_map'[x] = connect_map[x]
      BY <2>1, Zenon DEF UpdateStatus
    <2>4. s \in DOMAIN connect_map' => connect_map'[s].conn_status = "Offline"
      BY <2>1, Zenon DEF UpdateStatus, TypeOK, Info
    <2>5. \A u \in Task : u # t => ~Owns(u, s)
      BY <2>1, <2>2, Zenon DEF Ownership, ExclusiveSession, Owns, Owning
    <2>6. \A u \in Task : task'[u].serial = s => task'[u].pc \notin {"open", "live"}
      BY <1>0, <2>1, <2>5, Zenon DEF Owns, Owning
    <2>7. s \in DOMAIN connect_map' => Truth(connect_map', task', s)
      BY <2>4, <2>6, Zenon DEF Truth
    <2>8. ASSUME NEW x \in DOMAIN connect_map, x # s PROVE Truth(connect_map', task', x)
      <3>1. st.pc \notin {"open", "live"}
        BY Zenon
      <3>2. task[t].serial # x
        BY <2>8, Zenon
      <3>. HIDE DEF st, s
      <3>. QED
        BY <1>0, <2>1, <2>2, <2>3, <2>8, <3>1, <3>2, TruthElsewhere, Zenon
    <2>. QED
      BY <2>3, <2>7, <2>8, Zenon
  <1>4. ASSUME NEW t \in Task, Authenticated(t) PROVE Goal
    <2>. DEFINE s == task[t].serial
                st == [pc |-> "live", serial |-> s, outcome |-> task[t].outcome]
    <2>1. task[t].pc = "open" /\ Goto(t, "live")
          /\ connect_map' = Put(connect_map, s, DaemonInfo(t, "Connected"))
      BY <1>4, Zenon DEF Authenticated
    <2>2. st \in TaskState /\ task' = [task EXCEPT ![t] = st]
      BY <2>1, GotoState, Zenon
    <2>3. DOMAIN connect_map' = DOMAIN connect_map \cup {s}
          /\ connect_map'[s] = DaemonInfo(t, "Connected")
          /\ \A x \in DOMAIN connect_map : x # s => connect_map'[x] = connect_map[x]
      BY <2>1, Zenon DEF Put
    <2>4. Truth(connect_map', task', s)
      <3>1. task'[t].pc = "live" /\ task'[t].serial = s
        BY <1>0, <2>2, Zenon
      <3>. QED
        BY <2>3, <3>1 DEF Truth, DaemonInfo
    <2>5. ASSUME NEW x \in DOMAIN connect_map, x # s PROVE Truth(connect_map', task', x)
      <3>1. st.serial # x /\ task[t].serial # x
        BY <2>5, Zenon
      <3>. HIDE DEF st, s
      <3>. QED
        BY <1>0, <2>2, <2>3, <2>5, <3>1, TruthElsewhere, Zenon
    <2>. QED
      BY <2>3, <2>4, <2>5, Zenon
  <1>5. ASSUME NEW t \in Task, ReadError(t) PROVE Goal
    <2>0. PICK outcome \in Outcome :
             LET st == [pc |-> "cleanup", serial |-> task[t].serial, outcome |-> outcome]
             IN  st \in TaskState /\ task' = [task EXCEPT ![t] = st]
      BY <1>5, ReadErrorState, Zenon
    <2>. DEFINE s == task[t].serial
                st == [pc |-> "cleanup", serial |-> s, outcome |-> outcome]
    <2>1. connect_map' = Remove(connect_map, s)
      BY <1>5, Zenon DEF ReadError
    <2>2. st \in TaskState /\ task' = [task EXCEPT ![t] = st]
      BY <2>0, Zenon
    <2>3. DOMAIN connect_map' = DOMAIN connect_map \ {s}
          /\ \A x \in DOMAIN connect_map : x # s => connect_map'[x] = connect_map[x]
      BY <2>1, Zenon DEF Remove
    <2>4. ASSUME NEW x \in DOMAIN connect_map, x # s PROVE Truth(connect_map', task', x)
      <3>1. st.serial # x /\ task[t].serial # x
        BY <2>4, Zenon
      <3>. HIDE DEF st, s
      <3>. QED
        BY <1>0, <2>2, <2>3, <2>4, <3>1, TruthElsewhere, Zenon
    <2>. QED
      BY <2>3, <2>4, Zenon
  <1>6. ASSUME NEW t \in Task, CleanupDone(t) \/ Release(t) \/ Record(t) PROVE Goal
    <2>1. connect_map' = connect_map /\ task[t].pc \notin {"open", "live"}
      BY <1>6, Zenon DEF CleanupDone, Release, Record
    <2>2. ASSUME NEW st \in TaskState, task' = [task EXCEPT ![t] = st],
                 st.pc \notin {"open", "live"}
          PROVE  Goal
      BY <1>0, <2>1, <2>2, TruthElsewhere, Zenon
    <2>3. CASE CleanupDone(t) \/ Release(t)
      <3>1. PICK pc \in {"release", "record"} : task[t].pc # "free" /\ Goto(t, pc)
        BY <2>3, Zenon DEF CleanupDone, Release
      <3>. DEFINE st == [pc |-> pc, serial |-> task[t].serial, outcome |-> task[t].outcome]
      <3>2. st \in TaskState /\ task' = [task EXCEPT ![t] = st]
        BY <3>1, GotoState, Zenon
      <3>3. st.pc \notin {"open", "live"}
        BY Zenon
      <3>. HIDE DEF st
      <3>. QED
        BY <2>2, <3>2, <3>3, Zenon
    <2>4. CASE Record(t)
      <3>1. task' = [task EXCEPT ![t] = FreeTask]
        BY <2>4, Zenon DEF Record
      <3>2. FreeTask \in TaskState /\ FreeTask.pc \notin {"open", "live"}
        BY Zenon DEF TaskState, FreeTask
      <3>. QED
        BY <2>2, <3>1, <3>2, Zenon
    <2>. QED
      BY <1>6, <2>3, <2>4, Zenon
  <1>7. ASSUME NEW s \in Reconnectable, ReconnectRemove(s) PROVE Goal
    <2>1. task' = task /\ connect_map' = Remove(connect_map, s)
      BY <1>7, Zenon DEF ReconnectRemove
    <2>2. \A x \in DOMAIN connect_map' : x \in DOMAIN connect_map
                                         /\ connect_map'[x] = connect_map[x]
      BY <2>1, Zenon DEF Remove
    <2>. QED
      BY <1>0, <2>1, <2>2 DEF Truth
  <1>. QED
    BY <1>1, <1>2, <1>3, <1>4, <1>5, <1>6, <1>7, Zenon
    DEF Next, MonitorStep, TaskStep, Plug, Unplug, Tick, Enumerate, DiffDevices, ClearBackoff,
        LockKnown, Skip, EndRound, ReconnectLookup, vars, monvars

\* The registry always tells what the session tasks are doing, whatever the
\* order of rounds, lost devices and `target reconnect` commands.
THEOREM Truthful == Spec => []RegistryTellsTruth
  <1>1. Init => Ownership /\ RegistryTellsTruth
    BY DEF Init, Ownership, KnownIsOwned, ExclusiveSession, Owns, Owning, FreeTask,
           RegistryTellsTruth, EmptyMap
  <1>. QED
    BY <1>1, TypeInit, TypeStep, OwnershipStep, TruthStep, PTL DEF Spec

-----------------------------------------------------------------------------
\* The refinement of DeviceLifecycle.  Only `target reconnect` may take away
\* the entry of a device that is being connected.
OpenIsListed ==
    \A t \in Task : task[t].pc = "open" =>
        task[t].serial \in DOMAIN connect_map \/ task[t].serial \in Reconnectable

LEMMA OpenIsListedStep ==
    TypeOK /\ Ownership /\ OpenIsListed /\ [Next]_vars => OpenIsListed'
  <1>. SUFFICES ASSUME TypeOK, Ownership, OpenIsListed, [Next]_vars PROVE OpenIsListed'
    BY Zenon
  <1>0. task \in [Task -> TaskState]
    BY Zenon DEF TypeOK
  <1>. DEFINE Moved(t, pc) == task' = [task EXCEPT ![t] =
                  [pc |-> pc, serial |-> task[t].serial, outcome |-> task[t].outcome]]
  <1>1. CASE connect_map' = connect_map /\ task' = task
    BY <1>1, Zenon DEF OpenIsListed
  <1>2. ASSUME NEW s \in Serial, Adopt(s) PROVE OpenIsListed'
    <2>1. PICK t \in Task : task' = [task EXCEPT ![t] =
             [pc |-> "open", serial |-> s, outcome |-> "none"]]
      BY <1>2, Zenon DEF Adopt
    <2>2. DOMAIN connect_map' = DOMAIN connect_map \cup {s}
      BY <1>2, Zenon DEF Adopt, Put
    <2>. QED
      BY <1>0, <2>1, <2>2, Zenon DEF OpenIsListed
  <1>3. ASSUME NEW t \in Task, SessionFails(t) PROVE OpenIsListed'
    <2>1. DOMAIN connect_map' = DOMAIN connect_map
      BY <1>3, Zenon DEF SessionFails, UpdateStatus
    <2>. QED
      BY <1>0, <1>3, <2>1, Zenon DEF OpenIsListed, SessionFails
  <1>4. ASSUME NEW t \in Task, Authenticated(t) PROVE OpenIsListed'
    <2>1. DOMAIN connect_map \subseteq DOMAIN connect_map'
      BY <1>4, Zenon DEF Authenticated, Put
    <2>2. Moved(t, "live")
      BY <1>4, GotoState, Zenon DEF Authenticated
    <2>. QED
      BY <1>0, <2>1, <2>2, Zenon DEF OpenIsListed
  <1>5. ASSUME NEW t \in Task, ReadError(t) PROVE OpenIsListed'
    <2>1. task[t].pc = "live"
      BY <1>5, Zenon DEF ReadError
    <2>2. DOMAIN connect_map' = DOMAIN connect_map \ {task[t].serial}
      BY <1>5, Zenon DEF ReadError, Remove
    <2>3. \A u \in Task : u # t /\ task[u].pc = "open" => task[u].serial # task[t].serial
      BY <2>1, TaskFacts, Zenon DEF Ownership, ExclusiveSession, Owns, Owning
    <2>4. PICK outcome \in Outcome : task' = [task EXCEPT ![t] =
             [pc |-> "cleanup", serial |-> task[t].serial, outcome |-> outcome]]
      BY <1>5, ReadErrorState, Zenon
    <2>. QED
      BY <1>0, <2>1, <2>2, <2>3, <2>4, Zenon DEF OpenIsListed
  <1>6. ASSUME NEW t \in Task, CleanupDone(t) \/ Release(t) PROVE OpenIsListed'
    <2>1. PICK pc \in {"release", "record"} :
             task[t].pc # "free" /\ Goto(t, pc) /\ connect_map' = connect_map
      BY <1>6, Zenon DEF CleanupDone, Release
    <2>2. Moved(t, pc)
      BY <2>1, GotoState, Zenon
    <2>. QED
      BY <1>0, <2>1, <2>2, Zenon DEF OpenIsListed
  <1>7. ASSUME NEW t \in Task, Record(t) PROVE OpenIsListed'
    BY <1>0, <1>7, Zenon DEF OpenIsListed, Record, FreeTask
  <1>8. ASSUME NEW s \in Reconnectable, ReconnectRemove(s) PROVE OpenIsListed'
    <2>1. DOMAIN connect_map' = DOMAIN connect_map \ {s} /\ task' = task
      BY <1>8, Zenon DEF ReconnectRemove, Remove
    <2>. QED
      BY <2>1, Zenon DEF OpenIsListed
  <1>. QED
    BY <1>1, <1>2, <1>3, <1>4, <1>5, <1>6, <1>7, <1>8, Zenon
    DEF Next, MonitorStep, TaskStep, Plug, Unplug, Tick, Enumerate, DiffDevices, ClearBackoff,
        LockKnown, Skip, EndRound, ReconnectLookup, vars, monvars

\* A step that changes the status of one device only.
LEMMA OneStatusChanges ==
    ASSUME NEW s \in Serial, NEW from, NEW to,
           Status(s) \in from, Status(s)' = to,
           \A x \in Serial : x # s => Status(x)' = Status(x)
    PROVE  Lifecycle!Change(s, from, to)
  BY Zenon DEF Lifecycle!Change

LEMMA NoStatusChanges ==
    ASSUME \A x \in Serial : Status(x)' = Status(x)
    PROVE  UNCHANGED [s \in Serial |-> Status(s)]
  BY Zenon

LEMMA RefinementStep ==
    ASSUME TypeOK, Ownership, RegistryTellsTruth, OpenIsListed, [Next]_vars
    PROVE  [Lifecycle!Next]_([s \in Serial |-> Status(s)])
  <1>. DEFINE Goal == [Lifecycle!Next]_([s \in Serial |-> Status(s)])
  <1>0. \A s \in Serial : Status(s) \in Lifecycle!Statuses
    BY Zenon DEF Status, TypeOK, Info, ConnStatus, Lifecycle!Statuses
  <1>1. ASSUME connect_map' = connect_map PROVE Goal
    BY <1>1, NoStatusChanges, Zenon DEF Status
  <1>2. ASSUME NEW s \in Serial, Adopt(s) PROVE Goal
    <2>1. /\ \A x \in Serial : x # s => Status(x)' = Status(x)
          /\ Status(s)' = "Ready"
      BY <1>2, Zenon DEF Adopt, Put, Status, DaemonInfo
    <2>2. \A t \in Task : ~Owns(t, s)
      BY <1>2, Zenon DEF Adopt, Ownership, KnownIsOwned
    <2>3. Status(s) \in {"Absent", "Offline"}
      BY <1>0, <2>2 DEF RegistryTellsTruth, Owns, Owning, Status, Lifecycle!Statuses
    <2>. QED
      BY <2>1, <2>3, OneStatusChanges DEF Lifecycle!Next, Lifecycle!Adopt
  <1>3. ASSUME NEW t \in Task, SessionFails(t) PROVE Goal
    <2>1. PICK s \in Serial : task[t].serial = s /\ task[t].pc = "open"
      BY <1>3, TaskFacts, Zenon DEF SessionFails
    <2>2. /\ \A x \in Serial : x # s => Status(x)' = Status(x)
          /\ Status(s)' = IF s \in DOMAIN connect_map THEN "Offline" ELSE "Absent"
      BY <1>3, <2>1, Zenon DEF SessionFails, UpdateStatus, Status, TypeOK, Info
    <2>3. \A u \in Task : task[u].pc = "live" => task[u].serial # s
      BY <2>1, Zenon DEF Ownership, ExclusiveSession, Owns, Owning
    <2>4. Status(s) \in {"Absent", "Ready"}
      BY <1>0, <2>1, <2>3 DEF RegistryTellsTruth, Status, Lifecycle!Statuses
    <2>5. CASE s \in DOMAIN connect_map
      <3>1. Status(s) = "Ready"
        BY <2>1, <2>4, <2>5, Zenon DEF Status, TypeOK, Info, ConnStatus
      <3>. QED
        BY <2>1, <2>2, <2>5, <3>1, OneStatusChanges DEF Lifecycle!Next, Lifecycle!GiveUp
    <2>6. CASE s \notin DOMAIN connect_map
      BY <2>1, <2>2, <2>6, NoStatusChanges, Zenon DEF Status
    <2>. QED
      BY <2>5, <2>6, Zenon
  <1>4. ASSUME NEW t \in Task, Authenticated(t) PROVE Goal
    <2>1. PICK s \in Serial : task[t].serial = s /\ task[t].pc = "open"
      BY <1>4, TaskFacts, Zenon DEF Authenticated
    <2>2. /\ \A x \in Serial : x # s => Status(x)' = Status(x)
          /\ Status(s)' = "Connected"
      BY <1>4, <2>1, Zenon DEF Authenticated, Put, Status, DaemonInfo
    <2>3. \A u \in Task : task[u].pc = "live" => task[u].serial # s
      BY <2>1, Zenon DEF Ownership, ExclusiveSession, Owns, Owning
    <2>4. Status(s) \in {"Absent", "Ready"}
      BY <1>0, <2>1, <2>3 DEF RegistryTellsTruth, Status, Lifecycle!Statuses
    <2>5. Status(s) = "Absent" => s \in Reconnectable
      BY <2>1, Zenon DEF OpenIsListed, Status, TypeOK, Info, ConnStatus
    <2>6. \/ Lifecycle!Change(s, {"Ready"}, "Connected")
          \/ s \in Reconnectable /\ Lifecycle!Change(s, {"Absent"}, "Connected")
      BY <2>1, <2>2, <2>4, <2>5, OneStatusChanges
    <2>. QED
      BY <2>1, <2>6, Zenon DEF Lifecycle!Next, Lifecycle!Authenticate
  <1>5. ASSUME NEW t \in Task, ReadError(t) PROVE Goal
    <2>1. PICK s \in Serial : task[t].serial = s /\ task[t].pc = "live"
      BY <1>5, TaskFacts, Zenon DEF ReadError
    <2>2. /\ \A x \in Serial : x # s => Status(x)' = Status(x)
          /\ Status(s)' = "Absent"
      BY <1>5, <2>1, Zenon DEF ReadError, Remove, Status
    <2>3. \A u \in Task : task[u].pc = "open" => task[u].serial # s
      BY <2>1, Zenon DEF Ownership, ExclusiveSession, Owns, Owning
    <2>4. Status(s) \in {"Absent", "Connected"}
      BY <1>0, <2>1, <2>3 DEF RegistryTellsTruth, Status, Lifecycle!Statuses
    <2>5. CASE Status(s) = "Absent"
      BY <2>1, <2>2, <2>5, NoStatusChanges, Zenon
    <2>6. CASE Status(s) = "Connected"
      BY <2>1, <2>2, <2>6, OneStatusChanges DEF Lifecycle!Next, Lifecycle!Lose
    <2>. QED
      BY <2>4, <2>5, <2>6, Zenon
  <1>6. ASSUME NEW s \in Reconnectable, ReconnectRemove(s) PROVE Goal
    <2>1. s \in Serial /\ Status(s) \in Lifecycle!Statuses
      BY <1>0, ConstantsAssumption, Zenon
    <2>2. /\ \A x \in Serial : x # s => Status(x)' = Status(x)
          /\ Status(s)' = "Absent"
      BY <1>6, Zenon DEF ReconnectRemove, Remove, Status
    <2>. QED
      BY <2>1, <2>2, OneStatusChanges, Zenon DEF Lifecycle!Next, Lifecycle!Drop
  <1>. QED
    BY <1>1, <1>2, <1>3, <1>4, <1>5, <1>6, Zenon
    DEF Next, MonitorStep, TaskStep, Plug, Unplug, Tick, Enumerate, DiffDevices, ClearBackoff,
        LockKnown, Skip, EndRound, CleanupDone, Release, Record, ReconnectLookup, vars, monvars

\* The monitor and its tasks write the registry only along the life of a
\* device: UsbMonitor implements DeviceLifecycle.
THEOREM Refinement == Spec => ImplementsLifecycle
  <1>1. Init => /\ Ownership /\ RegistryTellsTruth /\ OpenIsListed
    BY DEF Init, Ownership, KnownIsOwned, ExclusiveSession, Owns, Owning, FreeTask,
           RegistryTellsTruth, EmptyMap, OpenIsListed
  <1>2. Init => Lifecycle!Init
    BY Zenon DEF Init, Lifecycle!Init, Status, EmptyMap
  <1>3. TypeOK /\ Ownership /\ RegistryTellsTruth /\ OpenIsListed /\ [Next]_vars
           => [Lifecycle!Next]_([s \in Serial |-> Status(s)])
    BY RefinementStep, Zenon
  <1>. QED
    BY <1>1, <1>2, <1>3, TypeInit, TypeStep, OwnershipStep, TruthStep, OpenIsListedStep, PTL
    DEF Spec, ImplementsLifecycle, Lifecycle!Spec

-----------------------------------------------------------------------------
\* No recorded wait is longer than the schedule says for its failures.
WaitBounded ==
    \A s \in DOMAIN reconnect : reconnect[s].left <= Backoff(reconnect[s].failures)

LEMMA WaitBoundedStep == TypeOK /\ WaitBounded /\ [Next]_vars => WaitBounded'
  <1>. SUFFICES ASSUME TypeOK, WaitBounded, [Next]_vars PROVE WaitBounded'
    BY Zenon
  <1>1. CASE reconnect' = reconnect
    BY <1>1, Zenon DEF WaitBounded
  <1>2. CASE Tick
    <2>1. \A s \in DOMAIN reconnect :
             /\ reconnect[s] \in ReconnectState
             /\ reconnect'[s].failures = reconnect[s].failures
             /\ reconnect'[s].left <= reconnect[s].left
             /\ reconnect'[s].left \in Int /\ reconnect[s].left \in Int
      BY <1>2, ConstantsAssumption DEF Tick, TypeOK, ReconnectState
    <2>2. DOMAIN reconnect' = DOMAIN reconnect
      BY <1>2, Zenon DEF Tick
    <2>3. \A s \in DOMAIN reconnect : Backoff(reconnect[s].failures) \in Int
      BY <2>1, BackoffSchedule, ConstantsAssumption DEF ReconnectState
    <2>. QED
      BY <2>1, <2>2, <2>3 DEF WaitBounded
  <1>3. ASSUME NEW s, reconnect' = Remove(reconnect, s) PROVE WaitBounded'
    BY <1>3, Zenon DEF WaitBounded, Remove
  <1>4. ASSUME NEW s, NEW f \in 1..FailureCap,
               reconnect' = Put(reconnect, s, [failures |-> f, left |-> Backoff(f)])
        PROVE  WaitBounded'
    <2>1. Backoff(f) \in Int
      BY BackoffSchedule, ConstantsAssumption, SMTT(20)
    <2>. QED
      BY <1>4, <2>1 DEF WaitBounded, Put
  <1>5. ASSUME NEW t \in Task, Record(t) PROVE WaitBounded'
    <2>1. NextFailures(task[t].serial) \in 1..FailureCap
      BY ConstantsAssumption DEF NextFailures, Lesser, TypeOK, ReconnectState
    <2>. QED
      BY <1>3, <1>4, <1>5, <2>1, Zenon DEF Record
  <1>6. ASSUME NEW s, ClearBackoff(s) PROVE WaitBounded'
    BY <1>3, <1>6, Zenon DEF ClearBackoff
  <1>. QED
    BY <1>1, <1>2, <1>5, <1>6, Zenon
    DEF Next, MonitorStep, TaskStep, Plug, Unplug, Enumerate, DiffDevices,
        LockKnown, Skip, Adopt, EndRound, SessionFails, Authenticated, ReadError, CleanupDone,
        Release, ReconnectLookup, ReconnectRemove, vars, monvars

\* A recorded failure never brings the next attempt forward.
THEOREM NeverShorter == Spec => FailureNeverShortensWait
  <1>. DEFINE Longer ==
          \A t \in Task :
             LET s == task[t].serial IN
             Record(t) /\ task[t].outcome = "failed" /\ s \in DOMAIN reconnect
                 => reconnect'[s].left >= reconnect[s].left
  <1>1. Init => WaitBounded
    BY Zenon DEF Init, WaitBounded, EmptyMap
  <1>2. TypeOK /\ WaitBounded /\ [Next]_vars => [Longer]_vars
    <2>. SUFFICES ASSUME TypeOK, WaitBounded, NEW t \in Task, Record(t), task[t].outcome = "failed",
                         task[t].serial \in DOMAIN reconnect
                  PROVE  reconnect'[task[t].serial].left >= reconnect[task[t].serial].left
      BY Zenon
    <2>. DEFINE s == task[t].serial
                f == reconnect[s].failures
                g == NextFailures(s)
    <2>1. reconnect'[s].left = Backoff(g)
      BY Zenon DEF Record, Put
    <2>2. f \in 1..6 /\ g \in 1..6 /\ f <= g /\ reconnect[s].left \in Int
      BY ConstantsAssumption DEF NextFailures, Lesser, TypeOK, ReconnectState
    <2>3. Backoff(f) <= Backoff(g) /\ Backoff(f) \in Int /\ Backoff(g) \in Int
      BY <2>2, BackoffSchedule, ConstantsAssumption
    <2>4. reconnect[s].left <= Backoff(f)
      BY Zenon DEF WaitBounded
    <2>. HIDE DEF s, f, g
    <2>. QED
      BY <2>1, <2>2, <2>3, <2>4 DEF s
  <1>. QED
    BY <1>1, <1>2, TypeInit, TypeStep, WaitBoundedStep, PTL
    DEF Spec, FailureNeverShortensWait

=============================================================================
