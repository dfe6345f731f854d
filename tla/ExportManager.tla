--------------------------- MODULE ExportManager ---------------------------
(***************************************************************************)
(* The export manager of the host daemon: which platform's block device is *)
(* exported over NBD, and how many I/O sessions use it                     *)
(* (server/host-daemon/exportprofile/manager.go).                          *)
(*                                                                         *)
(* A method runs under Manager.mu, so each is one step.  The states that a *)
(* method passes through while it holds the lock (PREPARING, VALIDATING,   *)
(* DISCONNECTING) cannot be seen from outside and are left out.  A profile *)
(* is an identity; the Wii profile's Close does nothing, a GameCube        *)
(* profile's Close closes its backend for good.                            *)
(***************************************************************************)
EXTENDS Integers, FiniteSets

CONSTANTS
    Profile,        \* profiles opened in the life of the daemon
    Wii,            \* the default profile
    Session,        \* NBD connections
    None

ASSUME ManagerAssumption ==
    /\ Wii \in Profile
    /\ None \notin Profile
    /\ IsFiniteSet(Session)

VARIABLES
    state,          \* Manager.state
    current,        \* Manager.current
    sessions,       \* Manager.sessions
    pinned,         \* the backend that BeginSession gave each open connection
    closed          \* profiles whose backend has been closed

managerVars == <<state, current, sessions, pinned, closed>>

States == {"DISCONNECTED", "EXPORTING", "CONNECTED", "ACTIVE", "ERROR",
           "RECOVERY_REQUIRED"}

Serving == {"EXPORTING", "CONNECTED", "ACTIVE"}

ManagerTypeOK ==
    /\ state \in States
    /\ current \in Profile
    /\ sessions \in Nat
    /\ pinned \in [Session -> Profile \cup {None}]
    /\ closed \subseteq Profile \ {Wii}

ManagerInit ==
    /\ state = "EXPORTING" /\ current = Wii
    /\ sessions = 0 /\ pinned = [s \in Session |-> None]
    /\ closed = {}

OpenSessions == {s \in Session : pinned[s] # None}

BeginSession(s) ==
    /\ pinned[s] = None
    /\ state \in Serving
    /\ sessions' = sessions + 1
    /\ state' = "ACTIVE"
    /\ pinned' = [pinned EXCEPT ![s] = current]
    /\ UNCHANGED <<current, closed>>

\* Mutants: the callback counts twice; the last release leaves the state alone.
ReleaseTwice(s) ==
    /\ pinned[s] # None
    /\ sessions' = sessions - 2
    /\ state' = IF sessions' <= 0 /\ state = "ACTIVE" THEN "CONNECTED" ELSE state
    /\ pinned' = [pinned EXCEPT ![s] = None]
    /\ UNCHANGED <<current, closed>>
ReleaseStaysActive(s) ==
    /\ pinned[s] # None
    /\ sessions' = sessions - 1
    /\ pinned' = [pinned EXCEPT ![s] = None]
    /\ UNCHANGED <<state, current, closed>>

\* The release callback, the first time it is called; later calls return.
Release(s) ==
    /\ pinned[s] # None
    /\ sessions' = sessions - 1
    /\ state' = IF sessions' = 0 /\ state = "ACTIVE" THEN "CONNECTED" ELSE state
    /\ pinned' = [pinned EXCEPT ![s] = None]
    /\ UNCHANGED <<current, closed>>

CanDisconnect == sessions = 0 /\ state \in {"EXPORTING", "CONNECTED", "DISCONNECTED"}

Disconnect ==
    /\ CanDisconnect
    /\ state' = "DISCONNECTED"
    /\ UNCHANGED <<current, sessions, pinned, closed>>

MarkConnected ==
    /\ state = "EXPORTING"
    /\ state' = "CONNECTED"
    /\ UNCHANGED <<current, sessions, pinned, closed>>

\* Select, by outcome: next does not validate; next is published and the
\* previous profile closed; the same, and closing it reports an error.
CanSelect == state = "DISCONNECTED" /\ sessions = 0

SelectInvalid(next) ==
    /\ CanSelect
    /\ state' = "ERROR"
    /\ UNCHANGED <<current, sessions, pinned, closed>>

\* Mutant: the previous profile is remembered after current was replaced.
ClosedBySwapped(next) == closed \cup ({next} \ {current, Wii})

ClosedBy(next) == closed \cup ({current} \ {next, Wii})

SelectValid(next) ==
    /\ CanSelect
    /\ current' = next
    /\ state' = "EXPORTING"
    /\ closed' = ClosedBy(next)
    /\ UNCHANGED <<sessions, pinned>>

SelectUnclean(next) ==
    /\ CanSelect /\ current \notin {next, Wii}
    /\ current' = next
    /\ state' = "RECOVERY_REQUIRED"
    /\ closed' = ClosedBy(next)
    /\ UNCHANGED <<sessions, pinned>>

Recover ==
    /\ state \in {"ERROR", "RECOVERY_REQUIRED"} /\ sessions = 0
    /\ state' = "DISCONNECTED"
    /\ UNCHANGED <<current, sessions, pinned, closed>>

\* What the manager's callers do with a profile that Select did not take: they
\* close it.  After a failed cleanup that profile is the current one.
CloseRejected(next) ==
    /\ next # current \/ state = "RECOVERY_REQUIRED"
    /\ closed' = closed \cup ({next} \ {Wii})
    /\ UNCHANGED <<state, current, sessions, pinned>>

ManagerNext ==
    \/ \E s \in Session : BeginSession(s) \/ Release(s)
    \/ Disconnect \/ MarkConnected \/ Recover
    \/ \E next \in Profile \ closed :
          SelectInvalid(next) \/ SelectValid(next) \/ SelectUnclean(next)
    \/ \E next \in Profile : CloseRejected(next)

ManagerSpec == ManagerInit /\ [][ManagerNext]_managerVars

-----------------------------------------------------------------------------
\* The backend that a connection was given stays the exported one, and stays
\* open, until the connection is released: no selection, failed selection,
\* failed clean-up or recovery replaces or closes it under a running session.
PinnedBackendOpen ==
    \A s \in OpenSessions : pinned[s] = current /\ pinned[s] \notin closed

\* The session counter is exact, and the manager is ACTIVE exactly while a
\* session is open, so neither an early nor a missed release can unblock or
\* block the next switch.
ActiveWhileSessionsOpen ==
    /\ sessions = Cardinality(OpenSessions)
    /\ state = "ACTIVE" <=> OpenSessions # {}

=============================================================================
