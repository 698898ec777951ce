------------------------------ MODULE BodyBudget -------------------------------
(* The budget of buffered request bodies: tryReserveBodyBytes,                   *)
(* tryReserveConnBodyBytes and their releases (src/core/server.go), as HTTP/1     *)
(* connections, HTTP/2 streams and QUIC streams use them.                        *)
(*                                                                               *)
(* Every atomic operation on inFlightBodyBytes and on a connection's bodyReserved *)
(* is a step of its own.                                                         *)
EXTENDS Integers, FiniteSetsExt

CONSTANTS
    Streams,        \* bodies being received
    Conns,          \* HTTP/2 and QUIC connections
    ConnOf,         \* the connection of a stream, or NoConn for HTTP/1
    NoConn,
    Sizes,          \* numbers of bytes a read may bring
    Limit,          \* MaxInFlightBodyBytes
    MaxBodySizes    \* values of MaxBodySize that SetLimits may set; negative: none

VARIABLES
    addPath,    \* the limit is at most bodyBudgetAddPathMaxLimit
    inFlight,   \* inFlightBodyBytes
    reserved,   \* bodyReserved of each connection
    st          \* each stream: where it is, the bytes it asks for or gives back,
                \* the bytes accounted to it, and what it read of inFlight

vars == <<addPath, inFlight, reserved, st>>

\* The largest number that can be counted: all streams ask at once.
Peak == Limit + Cardinality(Streams) * Max(Sizes)

\* The types; no count is ever negative.
TypeOK ==
    /\ addPath \in BOOLEAN
    /\ inFlight \in 0..Peak
    /\ reserved \in [Conns -> 0..Peak]
    /\ st \in [Streams -> [at : {"idle", "pressure", "reserve", "swap", "undo", "backOut",
                                 "release"},
                           n : 0..Peak, held : 0..Limit, used : 0..Peak]]

Init ==
    /\ addPath \in BOOLEAN
    /\ inFlight = 0
    /\ reserved = [c \in Conns |-> 0]
    /\ st = [s \in Streams |-> [at |-> "idle", n |-> 0, held |-> 0, used |-> 0]]

At(s, step) == st[s].at = step
Multiplexed(s) == ConnOf[s] # NoConn

\* connReserved.Add, for the streams that have one.
AddReserved(s, n) ==
    reserved' = IF Multiplexed(s) THEN [reserved EXCEPT ![ConnOf[s]] = @ + n] ELSE reserved

\* bodyBudgetConnShareDivisor, bodyBudgetPressureDivisor.
ShareDivisor == 8
PressureDivisor == 2

ConnBodyShare(maxBody) ==
    IF maxBody < 0 THEN Limit ELSE Min({Max({Limit \div ShareDivisor, maxBody}), Limit})

BodyBudgetUnderPressure(n) == inFlight + n > Limit \div PressureDivisor

--------------------------------------------------------------------------------
(* tryReserveConnBodyBytes, for a stream with a connection, then                 *)
(* tryReserveBodyBytes.                                                         *)

\* connReserved.Add, and its result against the connection's share.
Ask(s, n) ==
    /\ At(s, "idle")
    /\ AddReserved(s, n)
    /\ \E maxBody \in MaxBodySizes :
          LET over == Multiplexed(s) /\ reserved[ConnOf[s]] + n > ConnBodyShare(maxBody)
          IN  st' = [st EXCEPT ![s].at = IF over THEN "pressure" ELSE "reserve", ![s].n = n]
    /\ UNCHANGED inFlight

\* Over its share, a connection is refused if the budget is half used.
CheckPressure(s) ==
    /\ At(s, "pressure")
    /\ st' = [st EXCEPT ![s].at = IF BodyBudgetUnderPressure(st[s].n) THEN "backOut" ELSE "reserve"]
    /\ UNCHANGED <<inFlight, reserved>>

\* The bytes are accounted to the stream.
Granted(s) == st' = [st EXCEPT ![s].at = "idle", ![s].n = 0, ![s].held = @ + st[s].n, ![s].used = 0]

\* More than the whole limit is refused at once.
RefuseLarge(s) ==
    /\ At(s, "reserve")
    /\ st[s].n > Limit
    /\ st' = [st EXCEPT ![s].at = "backOut"]
    /\ UNCHANGED <<inFlight, reserved>>

\* Mutant: the total before the Add is compared.
ReserveOldTotal(s) ==
    /\ At(s, "reserve") /\ st[s].n <= Limit /\ addPath
    /\ inFlight' = inFlight + st[s].n
    /\ IF inFlight > Limit THEN st' = [st EXCEPT ![s].at = "undo"] ELSE Granted(s)
    /\ UNCHANGED reserved

\* Add(n), and its result against the limit.
ReserveByAdd(s) ==
    /\ At(s, "reserve") /\ st[s].n <= Limit /\ addPath
    /\ inFlight' = inFlight + st[s].n
    /\ IF inFlight' > Limit THEN st' = [st EXCEPT ![s].at = "undo"] ELSE Granted(s)
    /\ UNCHANGED reserved

\* Add(-n) after a result over the limit.
Undo(s) ==
    /\ At(s, "undo")
    /\ inFlight' = inFlight - st[s].n
    /\ st' = [st EXCEPT ![s].at = "backOut"]
    /\ UNCHANGED reserved

\* The read of the total, for limits the sum could overflow.
ReadTotal(s) ==
    /\ At(s, "reserve") /\ st[s].n <= Limit /\ ~addPath
    /\ st' = [st EXCEPT ![s] =
                IF @.n > Limit - inFlight THEN [@ EXCEPT !.at = "backOut"]
                ELSE [@ EXCEPT !.at = "swap", !.used = inFlight]]
    /\ UNCHANGED <<inFlight, reserved>>

\* Mutant: Store of the sum, whatever was added meanwhile.
StoreSum(s) ==
    /\ At(s, "swap")
    /\ inFlight' = st[s].used + st[s].n
    /\ Granted(s)
    /\ UNCHANGED reserved

\* CompareAndSwap(used, used+n).
Swap(s) ==
    /\ At(s, "swap")
    /\ IF inFlight = st[s].used
       THEN inFlight' = inFlight + st[s].n /\ Granted(s)
       ELSE st' = [st EXCEPT ![s].at = "reserve", ![s].used = 0] /\ UNCHANGED inFlight
    /\ UNCHANGED reserved

\* Mutant: the refused bytes stay on the connection.
BackOutNothing(s) ==
    /\ At(s, "backOut")
    /\ st' = [st EXCEPT ![s].at = "idle", ![s].n = 0]
    /\ UNCHANGED <<inFlight, reserved>>

\* connReserved.Add(-n) of refused bytes.
BackOut(s) ==
    /\ At(s, "backOut")
    /\ AddReserved(s, -st[s].n)
    /\ st' = [st EXCEPT ![s].at = "idle", ![s].n = 0]
    /\ UNCHANGED inFlight

--------------------------------------------------------------------------------
(* releaseConnBodyBytes, then releaseBodyBytes.                                 *)

\* connReserved.Add(-n): a QUIC stream gives back the bytes it consumed, the others
\* all they hold; the model lets each give back any part.
Release(s, n) ==
    /\ At(s, "idle")
    /\ n <= st[s].held
    /\ AddReserved(s, -n)
    /\ st' = [st EXCEPT ![s].at = "release", ![s].n = n, ![s].held = @ - n]
    /\ UNCHANGED inFlight

\* Mutant: the bytes are given back twice.
ReleaseTwice(s) ==
    /\ At(s, "release")
    /\ inFlight' = inFlight - 2 * st[s].n
    /\ st' = [st EXCEPT ![s].at = "idle", ![s].n = 0]
    /\ UNCHANGED reserved

\* inFlightBodyBytes.Add(-n).  The code takes it back if it went below zero, which
\* TypeOK shows does not happen.
ReleaseBodyBytes(s) ==
    /\ At(s, "release")
    /\ inFlight' = inFlight - st[s].n
    /\ st' = [st EXCEPT ![s].at = "idle", ![s].n = 0]
    /\ UNCHANGED reserved

Next ==
    /\ \E s \in Streams :
          \/ \E n \in Sizes : Ask(s, n)
          \/ CheckPressure(s) \/ RefuseLarge(s) \/ ReserveByAdd(s) \/ Undo(s)
          \/ ReadTotal(s) \/ Swap(s) \/ BackOut(s)
          \/ \E n \in 1..Limit : Release(s, n)
          \/ ReleaseBodyBytes(s)
    /\ UNCHANGED addPath

Spec == Init /\ [][Next]_vars

--------------------------------------------------------------------------------
(* Properties.                                                                  *)

\* MaxInFlightBodyBytes: the bytes accounted to streams, those on their way back
\* included, never pass the limit, however reservations overlap.
BudgetHolds ==
    MapThenSumSet(
        LAMBDA s : st[s].held + (IF At(s, "release") THEN st[s].n ELSE 0), Streams) <= Limit

\* tryReserveBodyBytes, releaseBodyBytes: the total is what streams hold and what
\* is between an Add and the Add that takes it back; nothing leaks.
BudgetExact ==
    inFlight = MapThenSumSet(
        LAMBDA s : st[s].held + (IF st[s].at \in {"undo", "release"} THEN st[s].n ELSE 0), Streams)

\* tryReserveConnBodyBytes, releaseConnBodyBytes: a connection is charged for what
\* its streams hold and ask for, whichever of the three checks refused the others.
ShareExact ==
    \A c \in Conns :
        reserved[c] = MapThenSumSet(LAMBDA s : st[s].held + (IF At(s, "release") THEN 0 ELSE st[s].n),
                                    {s \in Streams : ConnOf[s] = c})

================================================================================
