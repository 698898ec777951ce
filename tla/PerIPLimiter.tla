----------------------------- MODULE PerIPLimiter ------------------------------
(* The per-address limiters: perIPLimiter's hold, release and sweep              *)
(* (src/core/server.go), as the accept loops, the request path and the owners of *)
(* taken-over sockets use them.                                                  *)
(*                                                                               *)
(* Addresses share nothing, so the model is of one: its entry in the map and the *)
(* counters that were ever stored there.  Every map operation and every atomic   *)
(* operation on a counter is a step of its own.                                  *)
EXTENDS Integers, FiniteSets

CONSTANTS
    Clients,    \* connections or requests of the address
    Counters,   \* ipReqCounter objects
    Limit,      \* the limit, while it is on
    Nil,        \* no counter
    Dead        \* ipCounterDead

ASSUME LimiterAssumption ==
    /\ IsFiniteSet(Clients)
    /\ Limit \in Nat \ {0}
    /\ Nil \notin Counters
    /\ Dead \in Int /\ Dead < -2 * Cardinality(Clients)

VARIABLES
    entry,      \* the counter the map holds for the address
    n,          \* ipReqCounter.n
    dynamic,    \* SetLimits switches the limit on and off
    on,         \* the limit is positive
    cl,         \* each client: where it is, its counter and what it read of n
    sweeper     \* where sweep is, and the counter Range came to

vars == <<entry, n, dynamic, on, cl, sweeper>>

\* "load" .. "cas" are in hold; "held" and "free" were admitted, with a share and
\* without; "find" .. "undo" are in release.
Steps == {"idle", "load", "store", "read", "drop", "cas", "held", "free",
          "find", "sub", "undo"}

\* The types; no counter passes the limit.
TypeOK ==
    /\ entry \in Counters \cup {Nil}
    /\ sweeper \in [at : {"idle", "mark", "unmap"}, counter : Counters \cup {Nil}]
    /\ dynamic \in BOOLEAN /\ on \in BOOLEAN
    /\ cl \in [Clients -> [at : Steps, counter : Counters \cup {Nil}, cur : Int]]
    /\ n \in [Counters -> Int]
    /\ \A c \in Counters : n[c] <= Limit

\* A client outside the limiter.
Idle == [at |-> "idle", counter |-> Nil, cur |-> 0]
\* sweep is between two entries.
Swept == [at |-> "idle", counter |-> Nil]

Init ==
    /\ entry = Nil
    /\ n = [c \in Counters |-> 0]
    /\ dynamic \in BOOLEAN
    /\ on = TRUE
    /\ cl = [p \in Clients |-> Idle]
    /\ sweeper = Swept

At(p, step) == cl[p].at = step
GoTo(p, step) == cl' = [cl EXCEPT ![p].at = step]
Take(p, c) == cl' = [cl EXCEPT ![p].at = "read", ![p].counter = c]

\* An object nothing refers to.
Fresh(c) ==
    /\ c # entry /\ c # sweeper.counter
    /\ \A p \in Clients : cl[p].counter # c

\* CompareAndDelete.
Deleted(c) == IF entry = c THEN Nil ELSE entry

--------------------------------------------------------------------------------
(* hold.                                                                        *)

\* A limit that is off admits without a share.
Arrive(p) ==
    /\ At(p, "idle")
    /\ GoTo(p, IF on THEN "load" ELSE "free")
    /\ UNCHANGED <<entry, n, on, sweeper>>

\* m.Load.
Load(p) ==
    /\ At(p, "load")
    /\ IF entry = Nil THEN GoTo(p, "store") ELSE Take(p, entry)
    /\ UNCHANGED <<entry, n, on, sweeper>>

\* Mutant: m.Store, which replaces the counter another client stored meanwhile.
StoreAlways(p) ==
    /\ At(p, "store")
    /\ \E c \in Counters : /\ Fresh(c)
                           /\ entry' = c /\ n' = [n EXCEPT ![c] = 0] /\ Take(p, c)
    /\ UNCHANGED <<on, sweeper>>

\* m.LoadOrStore of a new counter.
LoadOrStore(p) ==
    /\ At(p, "store")
    /\ \/ entry # Nil /\ Take(p, entry) /\ UNCHANGED <<entry, n>>
       \/ entry = Nil /\ \E c \in Counters :
             /\ Fresh(c)
             /\ entry' = c /\ n' = [n EXCEPT ![c] = 0] /\ Take(p, c)
    /\ UNCHANGED <<on, sweeper>>

\* cur := n.Load: a dead counter is dropped, a full one refuses.
Read(p) ==
    LET cur == n[cl[p].counter]
    IN  /\ At(p, "read")
        /\ cl' = [cl EXCEPT ![p] =
                    IF cur < 0 THEN [@ EXCEPT !.at = "drop"]
                    ELSE IF cur >= Limit THEN Idle
                    ELSE [@ EXCEPT !.at = "cas", !.cur = cur]]
        /\ UNCHANGED <<entry, n, on, sweeper>>

\* m.CompareAndDelete, and hold starts again.
Drop(p) ==
    /\ At(p, "drop")
    /\ entry' = Deleted(cl[p].counter)
    /\ cl' = [cl EXCEPT ![p].at = "load", ![p].counter = Nil]
    /\ UNCHANGED <<n, on, sweeper>>

\* Mutant: n.Add(1) of what was read, without the comparison.
AddOne(p) ==
    /\ At(p, "cas")
    /\ n' = [n EXCEPT ![cl[p].counter] = @ + 1]
    /\ cl' = [cl EXCEPT ![p].at = "held", ![p].cur = 0]
    /\ UNCHANGED <<entry, on, sweeper>>

\* n.CompareAndSwap(cur, cur+1).
Swap(p) ==
    LET c == cl[p].counter
    IN  /\ At(p, "cas")
        /\ IF n[c] = cl[p].cur
           THEN /\ n' = [n EXCEPT ![c] = @ + 1]
                /\ cl' = [cl EXCEPT ![p].at = "held", ![p].cur = 0]
           ELSE /\ cl' = [cl EXCEPT ![p].at = "read", ![p].cur = 0]
                /\ UNCHANGED n
        /\ UNCHANGED <<entry, on, sweeper>>

--------------------------------------------------------------------------------
(* release.                                                                     *)

\* Mutant: the request ends without a release.
ReleaseNothing(p) ==
    /\ At(p, "held")
    /\ cl' = [cl EXCEPT ![p] = Idle]
    /\ UNCHANGED <<entry, n, on, sweeper>>

\* The request ends and its slot is released.
ReleaseSlot(p) ==
    /\ At(p, "held")
    /\ GoTo(p, "sub")
    /\ UNCHANGED <<entry, n, on, sweeper>>

\* The connection ends, or the socket that was taken over is closed: release by
\* address.  A request admitted without a share may have been taken over too.
ReleaseAddr(p) ==
    /\ At(p, "held") \/ At(p, "free")
    /\ GoTo(p, "find")
    /\ UNCHANGED <<entry, n, on, sweeper>>

\* A request admitted without a share ends.
End(p) ==
    /\ At(p, "free")
    /\ GoTo(p, "idle")
    /\ UNCHANGED <<entry, n, on, sweeper>>

\* release: m.Load.
Find(p) ==
    /\ At(p, "find")
    /\ cl' = [cl EXCEPT ![p] = IF entry = Nil THEN Idle
                               ELSE [@ EXCEPT !.at = "sub", !.counter = entry]]
    /\ UNCHANGED <<entry, n, on, sweeper>>

\* n.Add(-1) ...
Sub(p) ==
    LET c == cl[p].counter
    IN  /\ At(p, "sub")
        /\ n' = [n EXCEPT ![c] = @ - 1]
        /\ cl' = [cl EXCEPT ![p] = IF n[c] - 1 < 0 THEN [@ EXCEPT !.at = "undo"] ELSE Idle]
        /\ UNCHANGED <<entry, on, sweeper>>

\* ... taken back if it went below zero.
Undo(p) ==
    /\ At(p, "undo")
    /\ n' = [n EXCEPT ![cl[p].counter] = @ + 1]
    /\ cl' = [cl EXCEPT ![p] = Idle]
    /\ UNCHANGED <<entry, on, sweeper>>

--------------------------------------------------------------------------------
(* sweep and SetLimits.                                                         *)

\* Range comes to the entry.
Visit ==
    /\ sweeper.at = "idle"
    /\ entry # Nil
    /\ sweeper' = [at |-> "mark", counter |-> entry]
    /\ UNCHANGED <<entry, n, on, cl>>

\* Mutant: a counter at zero is deleted without being marked.
MarkNothing ==
    /\ sweeper.at = "mark"
    /\ sweeper' = IF n[sweeper.counter] = 0 THEN [sweeper EXCEPT !.at = "unmap"] ELSE Swept
    /\ UNCHANGED <<entry, n, on, cl>>

\* n.CompareAndSwap(0, ipCounterDead).
Mark ==
    /\ sweeper.at = "mark"
    /\ IF n[sweeper.counter] = 0
       THEN /\ n' = [n EXCEPT ![sweeper.counter] = Dead]
            /\ sweeper' = [sweeper EXCEPT !.at = "unmap"]
       ELSE /\ sweeper' = Swept
            /\ UNCHANGED n
    /\ UNCHANGED <<entry, on, cl>>

\* m.CompareAndDelete.
Unmap ==
    /\ sweeper.at = "unmap"
    /\ entry' = Deleted(sweeper.counter)
    /\ sweeper' = Swept
    /\ UNCHANGED <<n, on, cl>>

\* SetLimits turns the limit on or off.
SwitchLimit ==
    /\ dynamic
    /\ on' = ~on
    /\ UNCHANGED <<entry, n, cl, sweeper>>

Next ==
    /\ \/ \E p \in Clients :
             \/ Arrive(p) \/ Load(p) \/ LoadOrStore(p) \/ Read(p) \/ Drop(p) \/ Swap(p)
             \/ ReleaseSlot(p) \/ ReleaseAddr(p) \/ End(p) \/ Find(p) \/ Sub(p) \/ Undo(p)
       \/ Visit \/ Mark \/ Unmap \/ SwitchLimit
    /\ UNCHANGED dynamic

Spec == Init /\ [][Next]_vars

--------------------------------------------------------------------------------
(* Properties.                                                                  *)

\* Clients that have a share, those about to give it back included.
Holders == {p \in Clients : cl[p].at \in {"held", "find", "sub"}}

\* MaxConnsPerIP and MaxRequestsPerIP: while the limit stays on no address has more
\* than Limit shares, whatever hold, release and sweep do to its counter.
HeldWithinLimit ==
    ~dynamic => Cardinality({p \in Clients : At(p, "held")}) <= Limit

\* hold, sweep: the counter of a client with a share stays in the map, so that the
\* release by address finds it, and counts exactly the shares, if the limit stays on.
HeldCounterIsMapped ==
    \A p \in Clients : ~dynamic /\ At(p, "held") =>
        /\ entry = cl[p].counter
        /\ n[entry] = Cardinality(Holders)

\* hold, release: with nobody in the limiter the entry is gone or at zero, so a
\* share is never lost, even if SetLimits switches the limit off and on.
NoShareLost ==
    (\A p \in Clients : At(p, "idle")) => (entry # Nil => n[entry] \in {0, Dead})

================================================================================
