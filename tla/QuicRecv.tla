-------------------------------- MODULE QuicRecv -------------------------------
(* What a QUIC connection receives on its peer's streams: reassembly, final      *)
(* sizes, the credit of streams and connection, the bytes charged to the body    *)
(* budget (src/core/quic_stream.go, quic_ooo_list.go and the receiving handlers  *)
(* of quic_conn.go).                                                             *)
(*                                                                               *)
(* recvLoop applies one frame at a time.  A byte is its offset: frames are lost, *)
(* repeated, reordered and cut anew, but a byte of a stream is always the same.  *)
EXTENDS Integers, FiniteSetsExt, SequencesExt

CONSTANTS
    Streams,
    Uni,        \* the streams that are unidirectional; the others carry requests
    Size,       \* final size of each stream
    MaxRecv,    \* maxRecv: the most a stream may carry
    Window,     \* recvWindow
    MaxData,    \* maxDataLocal
    Overhead,   \* quicOOOSegmentOverhead
    SegmentCap  \* oooSegmentCap

VARIABLES
    rx,     \* each stream as the connection has it
    cn,     \* the connection: recvFlowUsed, dataRecv, dataRecvGranted, bodyReserved, why it closed
    tx      \* each stream as the peer has it: how far it has sent, and its end

vars == <<rx, cn, tx>>

\* buf: offsets in recvBuf; out: bytes handed on.  segs: recvOOO, each <<offset, end>>.
NewStream ==
    [recvOff |-> 0, buf |-> <<>>, out |-> 0, segs |-> {}, recvMax |-> 0, finSeen |-> FALSE, finOff |-> 0,
     fin |-> FALSE, closed |-> FALSE, overflow |-> FALSE, granted |-> Window, accounted |-> 0, retired |-> FALSE]

Init ==
    /\ rx = [s \in Streams |-> NewStream]
    /\ cn = [used |-> 0, recv |-> 0, granted |-> MaxData, reserved |-> 0, closed |-> "no"]
    /\ tx = [s \in Streams |-> [sent |-> 0, fin |-> FALSE, reset |-> FALSE]]

\* The types; no reservation is ever negative.
TypeOK ==
    /\ \A s \in Streams :
          /\ rx[s].recvOff \in 0..Size[s] /\ rx[s].recvMax \in 0..Size[s]
          /\ \A g \in rx[s].segs : 0 < g[1] /\ g[1] < g[2] /\ g[2] <= Size[s]
          /\ rx[s].accounted \in Nat /\ tx[s].sent \in 0..Size[s]
    /\ cn.reserved \in Nat /\ cn.closed \in {"no", "flow", "final", "load"}

Bytes(r) == MapThenSumSet(LAMBDA g : g[2] - g[1], r.segs)
Covered(r, x) == \E g \in r.segs : g[1] <= x /\ x < g[2]
Unique(r) == r.recvOff + Bytes(r)

--------------------------------------------------------------------------------
(* A stream's buffers, of r: what a frame brings, from off to end.               *)

\* reserve; ok is the answer of the body budget.
Reserve(r, n, ok) == ok /\ Len(r.buf) + Bytes(r) + n <= MaxRecv
ReleaseReserved(r, n) == [r EXCEPT !.accounted = Max({0, @ - n})]

\* Mutant: a segment that only partly overlaps is appended whole.
AbsorbWhole(r, g) ==
    IF g[1] > r.recvOff THEN r
    ELSE [ReleaseReserved(r, Overhead) EXCEPT
             !.segs = @ \ {g}, !.recvOff = Max({@, g[2]}), !.buf = @ \o [i \in 1..(g[2] - g[1]) |-> g[1] + i - 1]]

\* coalesceOOO, for one segment.
Absorb(r, g) ==
    IF g[1] > r.recvOff THEN r
    ELSE LET dup == Min({g[2], r.recvOff}) - g[1]
             new == g[2] - g[1] - dup
         IN  [ReleaseReserved(ReleaseReserved(r, Overhead), dup) EXCEPT
                 !.segs = @ \ {g}, !.recvOff = @ + new,
                 !.buf = @ \o [i \in 1..new |-> r.recvOff + i - 1]]
CoalesceOOO(r) == FoldLeft(Absorb, r, SetToSortSeq(r.segs, LAMBDA g, h : g[1] < h[1]))

\* appendContig.
AppendContig(r, end) ==
    [r EXCEPT !.accounted = @ + end - r.recvOff, !.recvOff = end,
              !.buf = @ \o [i \in 1..(end - r.recvOff) |-> r.recvOff + i - 1]]

\* oooNewBytes: the bytes a frame adds, and whether its first is the start of a segment.
NewBytes(r, off, end) == Cardinality({x \in off..(end - 1) : ~Covered(r, x)})
OpensSegment(r, off) == ~Covered(r, off) /\ \A g \in r.segs : g[2] # off

\* What the gap after segment g makes of it.
GapEnd(r, x, end) == Min({y \in x..end : y = end \/ Covered(r, y)})
Extended(r, g, off, end) ==
    IF off <= g[2] /\ g[2] < end THEN <<g[1], GapEnd(r, g[2], end)>> ELSE g

\* Mutant: the whole frame is charged, bytes it repeats included.
InsertCharged(r, off, end) ==
    [r EXCEPT !.segs = {Extended(r, g, off, end) : g \in @}
                       \cup (IF OpensSegment(r, off) THEN {<<off, GapEnd(r, off, end)>>} ELSE {}),
              !.accounted = @ + end - off + (IF OpensSegment(r, off) THEN Overhead ELSE 0)]

\* insertOOO: its gaps extend the segments before them; the first may open one.
InsertOOO(r, off, end) ==
    [r EXCEPT !.segs = {Extended(r, g, off, end) : g \in @}
                       \cup (IF OpensSegment(r, off) THEN {<<off, GapEnd(r, off, end)>>} ELSE {}),
              !.accounted = @ + NewBytes(r, off, end) + (IF OpensSegment(r, off) THEN Overhead ELSE 0)]

\* insertOOO's limits; room is what the budget grants: nothing, the bytes, or all.
Fits(r, off, end, room) ==
    /\ OpensSegment(r, off) => Cardinality(r.segs) < SegmentCap /\ room = "all"
    /\ Reserve(r, NewBytes(r, off, end), room # "none")

\* violatesFinalSizeLocked.
ViolatesFinalSize(r, end, fin) ==
    IF r.finSeen THEN end > r.finOff \/ (fin /\ end # r.finOff) ELSE fin /\ end < r.recvMax

\* Mutant: the end of the stream is taken for all of it.
NoteEndEarly(r, end, fin) ==
    [r EXCEPT !.finSeen = @ \/ fin, !.finOff = IF fin THEN end ELSE @, !.fin = r.finSeen \/ fin]

\* The end of handleStreamFrame: the final size, all of it, or as much as is allowed.
NoteEnd(r, end, fin) ==
    LET seen == r.finSeen \/ fin
        all == seen /\ r.recvOff >= (IF fin THEN end ELSE r.finOff)
        over == ~all /\ r.recvOff >= MaxRecv
    IN  [r EXCEPT !.finSeen = seen, !.finOff = IF fin THEN end ELSE @, !.fin = all \/ over, !.overflow = over]

--------------------------------------------------------------------------------
(* The connection, of p = [r, c]: the stream and the connection.                 *)

Fail(p, why) == [p EXCEPT !.c.closed = why]

\* Mutant: only half the window is ever given back.
CreditHalf(p, n) ==
    IF p.c.recv + n + MaxData \div 2 > p.c.granted
    THEN [p EXCEPT !.c.recv = @ + n, !.c.granted = p.c.recv + n + MaxData \div 2 - 1]
    ELSE [p EXCEPT !.c.recv = @ + n]

\* appendConnectionCredit.
ConnectionCredit(p, n) ==
    IF p.c.recv + n + MaxData \div 2 > p.c.granted
    THEN [p EXCEPT !.c.recv = @ + n, !.c.granted = p.c.recv + n + MaxData]
    ELSE [p EXCEPT !.c.recv = @ + n]

\* streamCreditToGrant.
StreamCredit(r) ==
    IF r.finSeen \/ r.granted >= MaxRecv \/ r.recvOff + Window \div 2 <= r.granted THEN r
    ELSE [r EXCEPT !.granted = Min({r.recvOff + Window, MaxRecv})]

GrantReceiveCredit(p, n) == IF n = 0 THEN p ELSE ConnectionCredit([p EXCEPT !.r = StreamCredit(@)], n)

\* retireStream, releaseStream: the stream leaves the map, its bytes the budget.
Retire(p) ==
    [p EXCEPT !.r = [NewStream EXCEPT !.retired = TRUE, !.granted = p.r.granted],
              !.c.reserved = @ - p.r.accounted]

\* Mutant: what the peer may still send is not credited.
RejectUncredited(p) == Retire(p)

\* rejectRecvLocked, rejectStreamBody.
RejectRequest(p) == Retire(ConnectionCredit(p, Max({0, p.r.granted - Unique(p.r)})))
Reject(p, s) == IF s \in Uni THEN Fail(p, "load") ELSE RejectRequest(p)

\* readPeerStream, takeReceived: the bytes of a unidirectional stream are handed on at
\* once; its end retires it.
TakeReceived(p) ==
    LET n == Len(p.r.buf)
        taken == [ReleaseReserved(p.r, n) EXCEPT !.buf = <<>>, !.out = @ + n]
        q == [r |-> taken, c |-> [p.c EXCEPT !.reserved = @ - n]]
    IN  IF p.r.fin THEN Retire(q) ELSE q

\* What a stream's reservations changed is in bodyReserved too.
Charged(p, r) == [r |-> r, c |-> [p.c EXCEPT !.reserved = @ + r.accounted - p.r.accounted]]

Handed(p, s) == IF s \in Uni THEN TakeReceived(p) ELSE p

\* The part of handleStreamFrame that stores data.
Store(p, s, off, end, fin, room) ==
    IF end <= p.r.recvOff
    THEN Handed([p EXCEPT !.r = NoteEnd(@, end, fin)], s)
    ELSE IF off <= p.r.recvOff
    THEN IF Reserve(p.r, end - p.r.recvOff, room # "none")
         THEN LET r == CoalesceOOO(AppendContig(p.r, end))
              IN  Handed(GrantReceiveCredit(Charged(p, NoteEnd(r, end, fin)), end - p.r.recvOff), s)
         ELSE Reject(p, s)
    ELSE IF NewBytes(p.r, off, end) = 0
    THEN Handed([p EXCEPT !.r = NoteEnd(@, end, fin)], s)
    ELSE IF Fits(p.r, off, end, room)
    THEN Handed(GrantReceiveCredit(Charged(p, NoteEnd(InsertOOO(p.r, off, end), end, fin)),
                                   NewBytes(p.r, off, end)), s)
    ELSE Reject(p, s)

\* Mutant: bytes sent again are counted again.
UseFrame(p, end) == [p EXCEPT !.c.used = @ + end, !.r.recvMax = Max({@, end})]

\* consumeRecvFlowCredit: the bytes beyond what the stream used so far.
Use(p, end) == [p EXCEPT !.c.used = @ + Max({0, end - p.r.recvMax}), !.r.recvMax = Max({@, end})]

\* handleStreamFrame, up to there.
HandleStreamFrame(p, s, off, end, fin, room) ==
    IF p.r.retired \/ p.r.closed \/ p.r.overflow THEN p
    ELSE IF end > p.r.granted THEN Fail(p, "flow")
    ELSE IF ViolatesFinalSize(p.r, end, fin) THEN Fail(p, "final")
    ELSE IF Use(p, end).c.used > p.c.granted THEN Fail(p, "flow")
    ELSE Store(Use(p, end), s, off, end, fin, room)

\* applyPeerReset, handleResetStream: a stream whose request is served stays for its handler.
ApplyPeerReset(p, s, final) ==
    LET q == Use(p, final)
        r == [q.r EXCEPT !.finSeen = TRUE, !.finOff = final, !.closed = TRUE]
        credited == ConnectionCredit([q EXCEPT !.r = r], final - Unique(q.r))
    IN  IF p.r.retired THEN p
        ELSE IF (p.r.finSeen /\ final # p.r.finOff) \/ final < p.r.recvMax THEN Fail(p, "final")
        ELSE IF final > p.r.granted \/ q.c.used > p.c.granted THEN Fail(p, "flow")
        ELSE IF p.r.closed THEN q
        ELSE IF p.r.fin THEN credited ELSE Retire(credited)

--------------------------------------------------------------------------------
(* The system.                                                                   *)

Become(s, p) == rx' = [rx EXCEPT ![s] = p.r] /\ cn' = p.c
At(s) == [r |-> rx[s], c |-> cn]
Open == cn.closed = "no"
Sent == MapThenSumSet(LAMBDA s : tx[s].sent, Streams)

\* A STREAM frame the peer may send, or has sent before, arrives.
RecvStream(s) ==
    /\ Open
    /\ \E off \in 0..Size[s], fin \in BOOLEAN, room \in {"none", "bytes", "all"} :
       \E end \in off..Size[s] :
          /\ (end = off => fin) /\ (fin => end = Size[s])
          /\ end <= rx[s].granted
          /\ tx[s].reset => end <= tx[s].sent /\ (fin => tx[s].fin)
          /\ Sent - tx[s].sent + Max({tx[s].sent, end}) <= cn.granted
          /\ Become(s, HandleStreamFrame(At(s), s, off, end, fin, room))
          /\ tx' = [tx EXCEPT ![s].sent = Max({@, end}), ![s].fin = @ \/ fin]

\* RESET_STREAM, with the final size the peer has reached.
RecvReset(s) ==
    /\ Open
    /\ Become(s, ApplyPeerReset(At(s), s, tx[s].sent))
    /\ tx' = [tx EXCEPT ![s].reset = TRUE]

\* readRequest and the end of the handler.
ServeRequest(s) ==
    /\ Open /\ s \notin Uni /\ rx[s].fin /\ ~rx[s].retired
    /\ Become(s, Retire(At(s)))
    /\ UNCHANGED tx

Next == \E s \in Streams : RecvStream(s) \/ RecvReset(s) \/ ServeRequest(s)

Spec == Init /\ [][Next]_vars

--------------------------------------------------------------------------------
(* Properties.                                                                   *)

\* appendContig, insertOOO, coalesceOOO: however frames overlap and in whatever order
\* they come, a stream's buffer holds its bytes in order, each once, up to recvOff.
InOrder ==
    \A s \in Streams : ~rx[s].retired =>
        rx[s].buf = [i \in 1..(rx[s].recvOff - rx[s].out) |-> rx[s].out + i - 1]

\* A request is complete only when all of it, or as much as is allowed, has arrived.
CompleteWhenDispatched ==
    \A s \in Streams : rx[s].fin => rx[s].recvOff = Size[s] \/ rx[s].recvOff >= MaxRecv

\* reserve, releaseReserved, reserveSegmentOverhead: a stream is charged for the bytes it
\* holds and the segments it keeps, and the connection for its streams; overlaps leak nothing.
ChargedExact ==
    /\ \A s \in Streams : ~rx[s].retired =>
          rx[s].accounted = Len(rx[s].buf) + Bytes(rx[s]) + Overhead * Cardinality(rx[s].segs)
    /\ Open => cn.reserved = MapThenSumSet(LAMBDA s : rx[s].accounted, Streams)

\* consumeRecvFlowCredit, violatesFinalSizeLocked, applyPeerReset: a peer that keeps to
\* its credit and its final sizes is never told that it did not.
HonestPeerNotAccused == cn.closed \notin {"flow", "final"}

\* appendConnectionCredit, unreceivedCredit, streamCreditToGrant: credit comes back for
\* every byte that arrived and for every byte a stream that ended early will never need;
\* a peer whose data has arrived may send half a window more, on the connection and on a stream.
PeerNotStarved ==
    Open =>
        /\ Sent - MapThenSumSet(LAMBDA s : IF rx[s].retired \/ rx[s].closed THEN 0 ELSE tx[s].sent - Unique(rx[s]),
                                Streams)
           + MaxData \div 2 <= cn.granted
        /\ \A s \in Streams :
              rx[s].retired \/ rx[s].finSeen \/ rx[s].granted = MaxRecv
              \/ rx[s].recvOff + Window \div 2 <= rx[s].granted
================================================================================
