--------------------------------- MODULE H2Flow --------------------------------
(* What an HTTP/2 connection sends and when: windows, frames, the write buffer,   *)
(* direct sends and the socket (src/core/epoll_h2_linux_amd64.go from             *)
(* h2EmitWindowed on, epoll_h2_direct, epoll_h2_file and epoll_h2_stream).        *)
(*                                                                               *)
(* writeBuf is a sequence of units: a frame is a header and its data bytes, and   *)
(* END_STREAM is on the last unit of its frame.  The peer counts its own windows, *)
(* down with the DATA it receives and up with the WINDOW_UPDATE and SETTINGS it   *)
(* sends.                                                                         *)
EXTENDS Integers, Sequences, FiniteSets, SequencesExt

CONSTANTS
    Streams,
    Mixes,          \* TLS or not, and the streams at work: "buffered" or "streamed" answers
    MaxLen,         \* bound: bytes a handler streams
    Lens,           \* lengths of buffered bodies
    MaxWindow,      \* h2MaxWindowSize
    InitWindow,     \* H2DefaultInitialWindowSize, of streams and of the connection
    FrameLimits,    \* values of SETTINGS_MAX_FRAME_SIZE
    HighMark,       \* h2StreamSocketHighMark
    DirectMark,     \* h2DirectSendHighMark
    DirectMin,      \* h2DirectSealMinBody
    MaxPending,     \* maxPendingWrite; h2ParkedBytesHardFactor times it for parked bytes
    HardFactor,
    Rooms,          \* units the socket may take in one step of the loop
    Credits,        \* increments of WINDOW_UPDATE
    InitWindows     \* values of SETTINGS_INITIAL_WINDOW_SIZE

VARIABLES
    fc,     \* the connection
    snd,    \* its streams
    peer    \* the peer: its windows, the units and END_STREAM flags it received

vars == <<fc, snd, peer>>

Min2(a, b) == IF a < b THEN a ELSE b

\* at: "busy" with a handler, "sending" in st.sending, "draining" in h2Streaming after
\* its handler.  reg: in h2Streaming.  pend, file: what the writer buffers and what
\* is left of its file.
NewStream == [at |-> "busy", kind |-> "none", win |-> InitWindow, off |-> 0, len |-> 0, head |-> FALSE, stall |-> 0,
              parked |-> 0, reg |-> FALSE, pend |-> 0, file |-> 0, needIO |-> FALSE, ended |-> FALSE,
              err |-> FALSE, fin |-> FALSE, queued |-> FALSE]

\* buf: writeBuf from writeSent on.  due: in flushList or serviced now, "pump" with
\* h2PumpDue, "drain" inside flush.  armed: waiting for EPOLLOUT.
NewConn == [up |-> TRUE, tls |-> FALSE, conn |-> InitWindow, init |-> InitWindow, frame |-> 1, buf |-> <<>>,
            due |-> "no", armed |-> FALSE, stalled |-> 0, parked |-> 0]

Init ==
    /\ \E mix \in Mixes :
          /\ fc = [NewConn EXCEPT !.tls = mix.tls]
          /\ snd = [i \in Streams |->
                      IF i \in DOMAIN mix.kind THEN [NewStream EXCEPT !.kind = mix.kind[i]]
                      ELSE [NewStream EXCEPT !.at = "done"]]
    /\ peer = [conn |-> InitWindow, win |-> [i \in Streams |-> InitWindow],
               got |-> [i \in Streams |-> 0], ends |-> [i \in Streams |-> 0]]

\* The types; a stream's window may be negative after SETTINGS, the connection's not.
TypeOK ==
    /\ fc.conn \in 0..(2 * MaxWindow) /\ fc.frame \in FrameLimits \cup {1}
    /\ fc.stalled >= 0 /\ fc.parked >= 0
    /\ \A i \in Streams : /\ snd[i].at \in {"busy", "sending", "draining", "done"}
                          /\ fc.up => snd[i].win \in -MaxWindow..MaxWindow
                          /\ snd[i].off \in 0..MaxLen

Unit(i, data, end) == [i |-> i, data |-> data, end |-> end]
CountUnits(Test(_), buf) == Cardinality({k \in DOMAIN buf : Test(buf[k])})
DataOf(i, buf) == CountUnits(LAMBDA u : u.i = i /\ u.data, buf)
EndsOf(i, buf) == CountUnits(LAMBDA u : u.i = i /\ u.end, buf)
DataIn(buf) == CountUnits(LAMBDA u : u.data, buf)

--------------------------------------------------------------------------------
(* The socket.                                                                   *)

\* Units reach the peer.
Deliver(p, units) ==
    [p EXCEPT !.peer.conn = @ - DataIn(units),
              !.peer.win = [i \in Streams |-> @[i] - DataOf(i, units)],
              !.peer.got = [i \in Streams |-> @[i] + DataOf(i, units)],
              !.peer.ends = [i \in Streams |-> @[i] + EndsOf(i, units)]]

After(units, k) == SubSeq(units, k + 1, Len(units))

--------------------------------------------------------------------------------
(* A buffered response.                                                          *)

Consume(p, i, n) == [p EXCEPT !.s[i].off = @ + n, !.s[i].win = @ - n, !.f.conn = @ - n]

\* A frame of n bytes, its last unit marked if it ends the stream.
Frame(i, n, end) == [k \in 1..(n + 1) |-> Unit(i, k > 1, end /\ k = n + 1)]

CeilDiv(a, b) == (a + b - 1) \div b

\* Mutant: the connection's window is not consulted.
AllowedByStream(p, i, left, budget) ==
    LET bytes == Min2(left, p.s[i].win)
    IN  IF bytes <= 0 \/ budget <= 0 THEN 0
        ELSE Min2(bytes, CeilDiv(budget, p.f.frame + 1) * p.f.frame)

\* h2DataChunk and h2ConsumeData, repeated while the budget lasts: how many of the
\* bytes that are left go out, in frames of at most the frame limit.
Allowed(p, i, left, budget) ==
    LET bytes == Min2(left, Min2(p.s[i].win, p.f.conn))
    IN  IF bytes <= 0 \/ budget <= 0 THEN 0
        ELSE Min2(bytes, CeilDiv(budget, p.f.frame + 1) * p.f.frame)

\* The DATA frames of n bytes, END_STREAM on the last if end.
DataFrames(p, i, n, end) ==
    FlattenSeq([k \in 1..CeilDiv(n, p.f.frame) |->
        Frame(i, Min2(p.f.frame, n - (k - 1) * p.f.frame), end /\ k = CeilDiv(n, p.f.frame))])

\* h2AppendResponseHead.
ResponseHead(p, i) ==
    IF p.s[i].head THEN p
    ELSE [p EXCEPT !.s[i].head = TRUE, !.f.buf = @ \o Frame(i, 0, p.s[i].len = 0)]

\* h2AppendWindowed, h2SealWindowed.
AppendData(p, i, n) ==
    [Consume(p, i, n) EXCEPT !.f.buf = @ \o DataFrames(p, i, n, n = p.s[i].len - p.s[i].off)]
AppendChunks(p, i, budget) == AppendData(p, i, Allowed(p, i, p.s[i].len - p.s[i].off, budget))
AppendWindowed(p, i, budget) ==
    AppendChunks(ResponseHead(p, i), i, IF p.s[i].head THEN budget ELSE budget - 1)

\* Mutant: a frame of which nothing was sent is not kept.
KeepStarted(units) ==
    IF units = <<>> \/ ~units[1].data THEN <<>>
    ELSE LET next == {k \in 2..Len(units) : ~units[k].data}
         IN  IF next = {} THEN units ELSE SubSeq(units, 1, Min(next) - 1)

\* h2KeepPartialFrame: of the units that were not sent, the rest of a frame or the
\* first frame goes to writeBuf.
KeepPartialFrame(units) ==
    LET next == {k \in 2..Len(units) : ~units[k].data}
    IN  IF next = {} THEN units ELSE SubSeq(units, 1, Min(next) - 1)

\* Mutant: what was not sent is not taken back.
UnconsumeNothing(p, i, units) == p

\* h2UnconsumeFrames.
UnconsumeFrames(p, i, units) == Consume(p, i, -DataIn(units))

\* h2SendFrames: the units of writeBuf and the new ones in one sendmsg, of which the
\* socket takes some.
SendUnits(p, i, all, sent) ==
    LET rest == After(all, sent)
        kept == IF sent < Len(p.f.buf) THEN After(p.f.buf, sent) ELSE KeepPartialFrame(rest)
    IN  [UnconsumeFrames(Deliver(p, SubSeq(all, 1, sent)), i, After(rest, Len(kept)))
            EXCEPT !.f.buf = kept, !.room = @ - sent, !.direct = @ + sent]
SendFrames(p, i, new) == SendUnits(p, i, p.f.buf \o new, Min2(p.room, Len(p.f.buf) + Len(new)))

\* h2SendWindowed.
SendData(p, i, n) ==
    IF n = 0 THEN p ELSE SendFrames(Consume(p, i, n), i, DataFrames(p, i, n, n = p.s[i].len - p.s[i].off))
SendChunks(p, i, budget) == SendData(p, i, Allowed(p, i, p.s[i].len - p.s[i].off, budget))
SendWindowed(p, i, budget) == SendChunks(ResponseHead(p, i), i, budget)

\* Mutant: what writeBuf holds is not taken from the budget.
EmitIgnoringBacklog(p, i) ==
    IF ~p.f.tls /\ ~p.f.armed /\ p.s[i].len - p.s[i].off >= DirectMin THEN SendWindowed(p, i, DirectMark)
    ELSE AppendWindowed(p, i, HighMark)

\* h2EmitWindowed.
EmitWindowed(p, i) ==
    LET backlog == Len(p.f.buf)
        direct == /\ ~p.f.tls /\ ~p.f.armed
                  /\ DirectMark - backlog >= DirectMin /\ p.s[i].len - p.s[i].off >= DirectMin
    IN  IF direct THEN SendWindowed(p, i, DirectMark - backlog)
        ELSE AppendWindowed(p, i, HighMark - backlog)

\* releaseSending; a stream that is reset or answered is given back.
Release(p, i) ==
    [p EXCEPT !.s[i] = [NewStream EXCEPT !.at = "done", !.kind = p.s[i].kind, !.off = p.s[i].off, !.len = p.s[i].len, !.err = p.s[i].err],
              !.f.stalled = @ - p.s[i].stall, !.f.parked = @ - p.s[i].parked]

\* emitH2Reset.
Reset(p, i) == [p EXCEPT !.f.buf = @ \o Frame(i, 0, FALSE)]

\* The bytes of a parked stream that wait, and that wait for a window.
Pending(p, i) == p.s[i].len - p.s[i].off
Stalled(p, i) == IF p.s[i].win <= 0 \/ p.f.conn <= 0 THEN Pending(p, i) ELSE 0

\* Mutant: the bytes of a stream are added again each time it is settled.
ParkAgain(p, i, stall, pending) ==
    [p EXCEPT !.s[i].stall = stall, !.s[i].parked = pending, !.f.stalled = @ + stall, !.f.parked = @ + pending]

\* h2SettleParked: sendingBytes and parkedBytes follow the stream ...
Park(p, i, stall, pending) ==
    [p EXCEPT !.s[i].stall = stall, !.s[i].parked = pending,
              !.f.stalled = @ + stall - p.s[i].stall, !.f.parked = @ + pending - p.s[i].parked]

\* ... and a stream too many is reset.
Capped(p, i) ==
    \/ p.s[i].stall > 0 /\ p.f.stalled > MaxPending
    \/ p.f.parked > MaxPending * HardFactor
CapParked(p, i) == IF Capped(p, i) THEN Release(Reset([p EXCEPT !.s[i].err = TRUE], i), i) ELSE p
SettleParked(p, i) == CapParked(Park(p, i, Stalled(p, i), Pending(p, i)), i)

\* closeConn, after GOAWAY or with too much in writeBuf: the streams are given back.
Dead(p) == [p EXCEPT !.f = [NewConn EXCEPT !.up = FALSE],
                     !.s = [i \in Streams |-> [NewStream EXCEPT !.at = "done"]]]

\* A response after h2EmitWindowed: done, or parked in st.sending.
Settle(p, i) == IF p.s[i].off = p.s[i].len THEN Release(p, i) ELSE SettleParked(p, i)

\* h2ResumeStream.
ResumeStream(p, i) == Settle(EmitWindowed(p, i), i)

\* h2ResumeSending(0), in an order that a Go map may give.
ResumeSending(p, order) ==
    FoldSeq(LAMBDA i, q : IF q.s[i].at = "sending" THEN ResumeStream(q, i) ELSE q, p, order)

--------------------------------------------------------------------------------
(* A streamed response.                                                          *)

\* h2PumpFrames: the header block ...
PumpHead(p, i, end) ==
    IF p.s[i].head THEN p
    ELSE [p EXCEPT !.s[i].head = TRUE, !.s[i].fin = end, !.f.buf = @ \o Frame(i, 0, end)]

\* ... what the writer buffers ...
PumpBytes(p, i, n, end) ==
    IF n = 0 THEN p
    ELSE [Consume(p, i, n) EXCEPT !.s[i].pend = @ - n, !.s[i].fin = end, !.f.buf = @ \o DataFrames(p, i, n, end)]
PumpAllowed(p, i, n) == PumpBytes(p, i, n, p.s[i].ended /\ n = p.s[i].pend)
PumpPending(p, i) == PumpAllowed(p, i, Allowed(p, i, p.s[i].pend, HighMark - Len(p.f.buf)))

\* ... the file, of which preadv reads what windows and room allow, or nothing ...
FileBytes(p, i) == Min2(Min2(p.s[i].win, p.f.conn), Min2(p.s[i].file, HighMark - Len(p.f.buf)))
PumpFile(p, i, io) ==
    IF p.s[i].pend > 0 \/ FileBytes(p, i) <= 0 \/ p.s[i].needIO THEN p
    ELSE CASE io = "again" -> [p EXCEPT !.s[i].needIO = TRUE]
           [] io = "error" -> [p EXCEPT !.s[i].file = 0, !.s[i].err = TRUE]
           [] io = "full" -> [Consume(p, i, FileBytes(p, i)) EXCEPT
                                 !.s[i].file = @ - FileBytes(p, i),
                                 !.f.buf = @ \o DataFrames(p, i, FileBytes(p, i), FALSE)]

\* Mutant: END_STREAM although bytes are buffered.
PumpEndEarly(p, i) ==
    IF p.s[i].fin \/ ~p.s[i].ended THEN p
    ELSE [p EXCEPT !.s[i].fin = TRUE, !.f.buf = @ \o Frame(i, 0, TRUE)]

\* ... and an empty frame with END_STREAM when there was none to carry it.
PumpEnd(p, i) ==
    IF p.s[i].fin \/ ~p.s[i].ended \/ p.s[i].pend > 0 THEN p
    ELSE [p EXCEPT !.s[i].fin = TRUE, !.f.buf = @ \o Frame(i, 0, TRUE)]

PumpBody(p, i, io) == IF p.s[i].fin THEN p ELSE PumpEnd(PumpFile(PumpPending(p, i), i, io), i)
PumpFrames(p, i, io) ==
    IF p.s[i].fin THEN p
    ELSE IF p.s[i].err THEN Reset([p EXCEPT !.s[i].fin = TRUE, !.s[i].pend = 0], i)
    ELSE PumpBody(PumpHead(p, i, p.s[i].ended /\ p.s[i].pend = 0), i, io)

\* h2SettleStream.
SettleStream(p, i) == IF p.s[i].fin /\ p.s[i].at = "draining" THEN Release(p, i) ELSE p

\* h2PumpSealed; a pump clears pumpQueued.
PumpSealed(p, i, io) == SettleStream(PumpFrames([p EXCEPT !.s[i].queued = FALSE], i, io), i)

\* h2PumpAll.
PumpStreaming(p, order, io) == FoldSeq(LAMBDA i, a : IF a.s[i].reg THEN PumpSealed(a, i, io) ELSE a, p, order)
PumpAll(p, order, io) == ResumeSending(PumpStreaming(p, order, io), order)

--------------------------------------------------------------------------------
(* Steps of the loop.                                                            *)

Now(room) == [f |-> fc, s |-> snd, peer |-> peer, new |-> <<>>, direct |-> 0, room |-> room]
Become(p) == fc' = p.f /\ snd' = p.s /\ peer' = p.peer
\* The choices that matter: only cleartext is sent directly, only live streams have an
\* order, only a file is read.
Room == IF fc.tls THEN {0} ELSE Rooms
Orders == SetToSeqs({i \in Streams : snd[i].at # "done"})
IO == IF \E i \in Streams : snd[i].file > 0 THEN {"full", "again", "error"} ELSE {"full"}

MarkFlush(p) == [p EXCEPT !.f.due = IF @ = "no" THEN "flush" ELSE @]

\* flushPending, or serviceConn on EPOLLOUT: flush begins.
Flush == \E room \in Room, order \in Orders, io \in IO :
    /\ fc.up /\ (fc.due \in {"flush", "pump"} \/ (fc.due = "no" /\ fc.armed))
    /\ LET p == [Now(room) EXCEPT !.f.due = "drain"]
       IN  Become(IF fc.due = "pump" THEN PumpAll(p, order, io) ELSE p)

\* flush: the buffer drains while the socket takes it; EAGAIN arms EPOLLOUT, or closes a
\* connection with too much behind it; an empty buffer is filled again.
Blocked(p) == IF Len(p.f.buf) > MaxPending THEN Dead(p) ELSE [p EXCEPT !.f.due = "no", !.f.armed = TRUE]
Refilled(p) ==
    IF p.f.buf # <<>> \/ p.direct > 0 THEN p ELSE [p EXCEPT !.f.due = "no", !.f.armed = FALSE]
Sent(p, n) == [Deliver(p, SubSeq(p.f.buf, 1, n)) EXCEPT !.f.buf = After(@, n)]
Drain == \E n \in 0..Len(fc.buf), room \in Room, order \in Orders, io \in IO :
    /\ fc.up /\ fc.due = "drain"
    /\ Become(IF n < Len(fc.buf) THEN Blocked(Sent(Now(room), n))
              ELSE Refilled(PumpAll(Sent(Now(room), n), order, io)))

\* finishH2Dispatch of a buffered response.
Respond(i) == \E n \in Lens, room \in Room :
    /\ fc.up /\ fc.due # "drain" /\ snd[i].at = "busy" /\ snd[i].kind = "buffered"
    /\ Become(MarkFlush(ResumeStream([Now(room) EXCEPT !.s[i].len = n, !.s[i].at = "sending"], i)))

\* WriteHeader and WriteChunk, sendFileRange, and the end of their wait: an error
\* that is sent as RST_STREAM.
Writes(i, w) ==
    /\ fc.up /\ snd[i].at = "busy" /\ snd[i].kind = "streamed"
    /\ snd' = [snd EXCEPT ![i] = [w EXCEPT !.queued = ~w.fin]]
    /\ UNCHANGED <<fc, peer>>
WriteChunk(i) == \E n \in 1..MaxLen :
    /\ snd[i].len + n <= MaxLen /\ snd[i].file = 0 /\ ~snd[i].err
    /\ Writes(i, [snd[i] EXCEPT !.pend = @ + n, !.len = @ + n])
SendFileRange(i) == \E n \in 1..MaxLen :
    /\ snd[i].len + n <= MaxLen /\ snd[i].file = 0 /\ ~snd[i].err /\ (snd[i].reg \/ snd[i].queued)
    /\ Writes(i, [snd[i] EXCEPT !.file = n, !.len = @ + n])
WarmFile(i) == snd[i].needIO /\ Writes(i, [snd[i] EXCEPT !.needIO = FALSE])
Stall(i) ==
    /\ snd[i].pend + snd[i].file > 0 /\ ~snd[i].err
    /\ Writes(i, [snd[i] EXCEPT !.err = TRUE, !.file = 0, !.needIO = FALSE])

\* h2PumpTask.
PumpTask(i) == \E io \in IO :
    /\ fc.up /\ fc.due # "drain" /\ snd[i].queued
    /\ Become(MarkFlush(PumpSealed([Now(0) EXCEPT !.s[i].reg = TRUE], i, io)))

\* The handler closes its writer and returns; its pump tasks have run: h2FinishStreamed.
Return(i) ==
    /\ fc.up /\ fc.due # "drain" /\ snd[i].at = "busy" /\ snd[i].reg /\ ~snd[i].queued /\ snd[i].file = 0
    /\ LET p == [Now(0) EXCEPT !.s[i].ended = TRUE, !.s[i].at = "draining"]
       IN  Become(MarkFlush(PumpSealed(p, i, "full")))

--------------------------------------------------------------------------------
(* The peer's frames.                                                            *)

WindowOpened(p) == IF \E i \in Streams : p.s[i].reg THEN [p EXCEPT !.f.due = "pump"] ELSE MarkFlush(p)

\* epollH2WindowUpdate for the connection.
ConnWindowUpdate == \E n \in Credits, room \in Room, order \in Orders :
    /\ fc.up /\ fc.due # "drain"
    /\ LET p == [Now(room) EXCEPT !.f.conn = @ + n, !.peer.conn = @ + n]
       IN  Become(IF p.f.conn > MaxWindow THEN Dead(p) ELSE WindowOpened(ResumeSending(p, order)))

\* Mutant: only streams in st.streams and st.sending are credited.
CreditSending(p, i, n) ==
    IF p.s[i].win + n > MaxWindow THEN Release(Reset([p EXCEPT !.s[i].err = TRUE], i), i)
    ELSE IF p.s[i].reg THEN p ELSE [p EXCEPT !.s[i].win = @ + n]

\* h2CreditWindow; a window that overflows resets its stream.
CreditWindow(p, i, n) ==
    IF p.s[i].win + n > MaxWindow THEN Release(Reset([p EXCEPT !.s[i].err = TRUE], i), i)
    ELSE [p EXCEPT !.s[i].win = @ + n]

\* epollH2WindowUpdate for a stream.
WindowUpdate(i) == \E n \in Credits, room \in Room :
    /\ fc.up /\ fc.due # "drain" /\ snd[i].at # "done"
    /\ LET p == CreditWindow([Now(room) EXCEPT !.peer.win[i] = @ + n], i, n)
       IN  Become(IF p.s[i].at = "sending" THEN MarkFlush(ResumeStream(p, i))
                  ELSE IF p.s[i].reg THEN WindowOpened(p) ELSE MarkFlush(p))

\* Mutant: a writer whose handler runs is shifted with the writers and the busy streams.
ShiftTwice(p, delta) ==
    [p EXCEPT !.s = [i \in Streams |->
        IF @[i].at = "done" THEN @[i]
        ELSE [@[i] EXCEPT !.win = @ + delta * (IF p.s[i].reg /\ p.s[i].at = "busy" THEN 2 ELSE 1)]]]

\* h2ShiftStreamWindows.
ShiftStreamWindows(p, delta) ==
    [p EXCEPT !.s = [i \in Streams |-> IF @[i].at = "done" THEN @[i] ELSE [@[i] EXCEPT !.win = @ + delta]]]

\* epollH2Settings: SETTINGS_INITIAL_WINDOW_SIZE and SETTINGS_MAX_FRAME_SIZE.
Settings == \E win \in InitWindows, limit \in FrameLimits, room \in Room, order \in Orders :
    /\ fc.up /\ fc.due # "drain"
    /\ LET delta == win - fc.init
           p == [Now(room) EXCEPT !.f.init = win, !.f.frame = limit,
                                  !.peer.win = [i \in Streams |-> @[i] + delta]]
           q == ShiftStreamWindows(p, delta)
       IN  Become(IF delta = 0 THEN MarkFlush(p)
                  ELSE IF \E i \in Streams : q.s[i].win > MaxWindow THEN Dead(q)
                  ELSE WindowOpened(IF delta > 0 THEN ResumeSending(q, order) ELSE q))

Next ==
    \/ Flush \/ Drain \/ ConnWindowUpdate \/ Settings
    \/ \E i \in Streams : \/ Respond(i) \/ WriteChunk(i) \/ SendFileRange(i) \/ WarmFile(i) \/ Stall(i)
                          \/ PumpTask(i) \/ Return(i) \/ WindowUpdate(i)

Spec == Init /\ [][Next]_vars

--------------------------------------------------------------------------------
(* Properties.                                                                   *)

\* h2ConsumeData, h2UnconsumeFrames, h2PumpFrames: the windows the server keeps are
\* the peer's own, less the DATA that is still in writeBuf, after every partial send,
\* reset and change of the initial window.
WindowsAgree ==
    fc.up => /\ fc.conn = peer.conn - DataIn(fc.buf)
             /\ \A i \in Streams : snd[i].at # "done" => snd[i].win = peer.win[i] - DataOf(i, fc.buf)

\* h2DataChunk, h2PumpFile: DATA is framed only within both windows.
StaysWithin == \A i \in Streams : snd'[i].off > snd[i].off => fc'.conn >= 0 /\ (snd'[i].at = "done" \/ snd'[i].win >= 0)
WithinWindows == [][StaysWithin]_vars

\* h2SendFrames, h2KeepPartialFrame: every unit that was framed is sent or still in
\* writeBuf, none twice.
NoByteLost == fc.up => \A i \in Streams : peer.got[i] + DataOf(i, fc.buf) = snd[i].off

\* END_STREAM is framed once, after the last byte and never on a stream that failed;
\* a stream that ends well has it.
EndStreamOnce ==
    \A i \in Streams :
        LET ends == peer.ends[i] + EndsOf(i, fc.buf)
        IN  fc.up => /\ ends <= 1
                     /\ ends = 1 => snd[i].off = snd[i].len /\ ~snd[i].err
                     /\ snd[i].at = "done" /\ ~snd[i].err => ends = 1 \/ snd[i].kind = "none"

\* flush, h2PumpAll, h2WindowOpened, h2KeepPartialFrame: when the loop has nothing left
\* to do for the connection, nothing can be sent.
NothingStuck ==
    fc.up /\ fc.due = "no" /\ ~fc.armed =>
        /\ fc.buf = <<>>
        /\ \A i \in Streams :
              LET w == snd[i]
                  open == w.win > 0 /\ fc.conn > 0
              IN  /\ w.at = "sending" => ~open
                  /\ (w.reg /\ ~w.queued /\ ~w.fin) =>
                        /\ w.err => w.at = "busy"
                        /\ w.pend > 0 /\ ~w.err => ~open
                        /\ (w.pend = 0 /\ w.file > 0 /\ ~w.err) => (~open \/ w.needIO)
                        /\ w.pend = 0 => ~w.ended

\* h2EmitWindowed, h2PumpFrames: the data of all streams together passes the mark of
\* writeBuf by less than a frame.
BacklogBounded == DataIn(fc.buf) < HighMark + fc.frame

\* h2SettleParked, releaseSending: sendingBytes and parkedBytes are the parked streams'.
ParkedExact ==
    /\ fc.stalled = FoldSet(LAMBDA i, t : t + snd[i].stall, 0, Streams)
    /\ fc.parked = FoldSet(LAMBDA i, t : t + snd[i].parked, 0, Streams)
================================================================================
