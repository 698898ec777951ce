------------------------------- MODULE Admission -------------------------------
(* Admission of connections and the drain at shutdown: Server.activeConns,       *)
(* shuttingDown and drainDone, shared by the accept loops of every worker, the   *)
(* QUIC listener, the redirect listener and the owners of hijacked sockets       *)
(* (src/core/server.go tryTrackConn, releaseTrackedConn, Shutdown;               *)
(* src/core/epoll_backend_linux_amd64.go acceptLoop, admitAccepted).             *)
(*                                                                               *)
(* Every atomic operation is a step of its own.                                  *)
EXTENDS Integers, FiniteSets

CONSTANTS
    Conns,      \* connections that come and go
    MaxConns    \* Limits.MaxConns; 0 is no limit

ASSUME AdmissionAssumption ==
    /\ IsFiniteSet(Conns)
    /\ MaxConns \in Nat

VARIABLES
    activeConns,    \* Server.activeConns
    shuttingDown,   \* Server.shuttingDown
    drainDone,      \* Server.drainDone is closed
    st,             \* where the thread of each connection is
    added,          \* what its activeConns.Add(1) returned
    zero,           \* its activeConns.Add(-1) returned 0 or less
    shutdown        \* where Shutdown is

vars == <<activeConns, shuttingDown, drainDone, st, added, zero, shutdown>>

ConnStates == {"new", "checked", "added", "admitted", "refused", "releasing"}

\* The types; activeConns is never negative.
TypeOK ==
    /\ activeConns \in Nat
    /\ shuttingDown \in BOOLEAN
    /\ drainDone \in BOOLEAN
    /\ st \in [Conns -> ConnStates]
    /\ added \in [Conns -> Nat]
    /\ zero \in [Conns -> BOOLEAN]
    /\ shutdown \in {"idle", "stored", "empty", "waiting", "returned", "expired"}

Init ==
    /\ activeConns = 0
    /\ shuttingDown = FALSE
    /\ drainDone = FALSE
    /\ st = [c \in Conns |-> "new"]
    /\ added = [c \in Conns |-> 0]
    /\ zero = [c \in Conns |-> FALSE]
    /\ shutdown = "idle"

--------------------------------------------------------------------------------
(* A connection.                                                                *)

\* The first look at shuttingDown, in tryTrackConn and at the top of acceptLoop.
Check(c) ==
    /\ st[c] = "new"
    /\ ~shuttingDown
    /\ st' = [st EXCEPT ![c] = "checked"]
    /\ UNCHANGED <<activeConns, shuttingDown, drainDone, added, zero, shutdown>>

\* n := activeConns.Add(1).
Add(c) ==
    /\ st[c] = "checked"
    /\ activeConns' = activeConns + 1
    /\ added' = [added EXCEPT ![c] = activeConns + 1]
    /\ st' = [st EXCEPT ![c] = "added"]
    /\ UNCHANGED <<shuttingDown, drainDone, zero, shutdown>>

\* Mutant: the limit is off by one.
OverLimitByOne(n) == MaxConns > 0 /\ n > MaxConns + 1

\* limit > 0 && n > limit.
OverLimit(n) == MaxConns > 0 /\ n > MaxConns

\* Mutant: a refused connection is released here and again by its owner.
AdmitReleasesTwice(c) ==
    LET refused == shuttingDown \/ OverLimit(added[c])
    IN  /\ st[c] = "added"
        /\ st' = [st EXCEPT ![c] = IF refused THEN "refused" ELSE "admitted"]
        /\ activeConns' = IF refused THEN activeConns - 1 ELSE activeConns
        /\ UNCHANGED <<shuttingDown, drainDone, added, zero, shutdown>>

\* The second look at shuttingDown and the limit.
Admit(c) ==
    /\ st[c] = "added"
    /\ st' = [st EXCEPT ![c] = IF shuttingDown \/ OverLimit(added[c])
                               THEN "refused" ELSE "admitted"]
    /\ UNCHANGED <<activeConns, shuttingDown, drainDone, added, zero, shutdown>>

\* Mutant: a refused connection is not counted down.
ReleaseForgets(c) ==
    /\ st[c] \in {"admitted", "refused"}
    /\ activeConns' = IF st[c] = "refused" THEN activeConns ELSE activeConns - 1
    /\ zero' = [zero EXCEPT ![c] = activeConns' <= 0]
    /\ added' = [added EXCEPT ![c] = 0]
    /\ st' = [st EXCEPT ![c] = "releasing"]
    /\ UNCHANGED <<shuttingDown, drainDone, shutdown>>

\* releaseTrackedConn: activeConns.Add(-1), when the connection ends or was refused.
Release(c) ==
    /\ st[c] \in {"admitted", "refused"}
    /\ activeConns' = activeConns - 1
    /\ zero' = [zero EXCEPT ![c] = activeConns - 1 <= 0]
    /\ added' = [added EXCEPT ![c] = 0]
    /\ st' = [st EXCEPT ![c] = "releasing"]
    /\ UNCHANGED <<shuttingDown, drainDone, shutdown>>

\* Mutant: the last release leaves drainDone to Shutdown.
ReleasedSilently(c) ==
    /\ st[c] = "releasing"
    /\ zero' = [zero EXCEPT ![c] = FALSE]
    /\ st' = [st EXCEPT ![c] = "new"]
    /\ UNCHANGED <<activeConns, shuttingDown, drainDone, added, shutdown>>

\* releaseTrackedConn: the last one closes drainDone if shuttingDown is set.
Released(c) ==
    /\ st[c] = "releasing"
    /\ drainDone' = (drainDone \/ (zero[c] /\ shuttingDown))
    /\ zero' = [zero EXCEPT ![c] = FALSE]
    /\ st' = [st EXCEPT ![c] = "new"]
    /\ UNCHANGED <<activeConns, shuttingDown, added, shutdown>>

--------------------------------------------------------------------------------
(* Shutdown.                                                                    *)

\* shuttingDown.Store(true).
StoreShuttingDown ==
    /\ shutdown = "idle"
    /\ shuttingDown' = TRUE
    /\ shutdown' = "stored"
    /\ UNCHANGED <<activeConns, drainDone, st, added, zero>>

\* Mutant: Shutdown leaves drainDone to the last release.
LoadNothing ==
    /\ shutdown = "stored"
    /\ shutdown' = "waiting"
    /\ UNCHANGED <<activeConns, shuttingDown, drainDone, st, added, zero>>

\* activeConns.Load() <= 0.
LoadActive ==
    /\ shutdown = "stored"
    /\ shutdown' = IF activeConns <= 0 THEN "empty" ELSE "waiting"
    /\ UNCHANGED <<activeConns, shuttingDown, drainDone, st, added, zero>>

\* close(drainDone).
CloseDrain ==
    /\ shutdown = "empty"
    /\ drainDone' = TRUE
    /\ shutdown' = "waiting"
    /\ UNCHANGED <<activeConns, shuttingDown, st, added, zero>>

\* <-s.drainDone: Shutdown returns nil.
Return ==
    /\ shutdown = "waiting"
    /\ drainDone
    /\ shutdown' = "returned"
    /\ UNCHANGED <<activeConns, shuttingDown, drainDone, st, added, zero>>

\* <-ctx.Done(): Shutdown gives up and returns the context's error.
GiveUp ==
    /\ shutdown = "waiting"
    /\ shutdown' = "expired"
    /\ UNCHANGED <<activeConns, shuttingDown, drainDone, st, added, zero>>

Next ==
    \/ \E c \in Conns :
          Check(c) \/ Add(c) \/ Admit(c) \/ Release(c) \/ Released(c)
    \/ StoreShuttingDown \/ LoadActive \/ CloseDrain \/ Return \/ GiveUp

Spec == Init /\ [][Next]_vars

--------------------------------------------------------------------------------
(* Properties.                                                                  *)

Admitted == {c \in Conns : st[c] = "admitted"}
Counted == {c \in Conns : st[c] \in {"added", "admitted", "refused"}}

\* MaxConns holds at every moment, although activeConns itself goes over it while
\* refused connections are on their way out.
MaxConnsRespected == MaxConns > 0 => Cardinality(Admitted) <= MaxConns

\* activeConns is exactly the connections between their Add(1) and their Add(-1).
ActiveConnsExact == activeConns = Cardinality(Counted)

\* The end of the drain is not missed: while Shutdown waits on drainDone, there is
\* a connection left to release, or a releaser that is about to close drainDone.
\* Without the second look, or with the store of shuttingDown after the load of
\* activeConns, the last release and Shutdown can each miss the other.
DrainNotMissed ==
    shutdown = "waiting" /\ ~drainDone =>
        activeConns > 0 \/ \E c \in Conns : st[c] = "releasing" /\ zero[c]

\* Nothing keeps Shutdown from returning: it has not begun, or has returned nil or the
\* error of its context.
Settled == shuttingDown => shutdown \in {"returned", "expired"}

\* What the comment of Shutdown promises (src/core/server.go:1243, "gracefully drains
\* in-flight connections"): it does not return nil before they have ended.
DrainWaitsForConns == shutdown = "returned" => Admitted = {}

================================================================================
