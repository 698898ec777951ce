------------------------------- MODULE WsLoop -------------------------------
(***************************************************************************)
(* An event-driven WebSocket on the epoll loop (epoll_ws_linux_amd64.go):  *)
(* the loop parses whatever bytes have arrived and runs OnMessage itself,  *)
(* while the application's goroutines write and close through the same     *)
(* outbox under ev.mu.  The loop and a goroutine interleave at every lock, *)
(* at every atomic operation and between two frames the loop parses.       *)
(*                                                                         *)
(* Input is counted in units: a frame is one unit for its first two bytes, *)
(* one for an extended length, one for the mask and one per payload byte.  *)
(* Output is a sequence of units <<frame, k>>, so that a torn, reordered,  *)
(* repeated or lost frame shows.                                           *)
(***************************************************************************)
EXTENDS Integers, Sequences, SequencesExt, FiniteSets

CONSTANTS
    Scripts, Deflate, MaxMessage, MaxControl, PingMax, Growth, ResetCost, ResetBudget,
    KeyLen,         \* bytes of a masking key
    BufCap,         \* wsReadBufLimit
    MinFree,        \* plainReadMinFree
    High, Low,      \* wsOutHighWater, wsOutLowWater
    DirectMin,      \* wsDirectSendMin
    MaxPending,     \* w.maxPendingWrite, the outbox limit too
    SockCap,        \* what the socket's send buffer holds
    Writers,        \* the application's goroutines
    Mixes

VARIABLES
    script,         \* the frames the peer sends
    mix,            \* transport, what OnMessage answers, what else may happen
    t,              \* the connection: parser, loop side, outbox, logs
    g               \* the goroutines

vars == <<script, mix, t, g>>

May(x) == x \in mix.may

\* What the blocking reader would have of the input by now.  A frame taken in
\* pieces counts when its last piece is in.
ReaderState ==
    LET f == script[t.fi]
        part == t.inFrame /\ f.op \in {"cont", "text", "bin"}
        first == part /\ f.op # "cont"
    IN  [at |-> t.fi, in |-> t.in /\ ~first, op |-> IF first THEN "" ELSE t.op,
         comp |-> t.comp /\ ~first,
         msg |-> IF part THEN SubSeq(t.msg, 1, Len(t.msg) - (f.len - t.rem)) ELSE t.msg,
         pings |-> t.pings, got |-> t.got, pongs |-> t.pongs, end |-> t.end, app |-> t.by = "app"]

\* The specification of reading, whose judgements are this connection's too.
Judge == INSTANCE WsReader WITH rd <- ReaderState

Fine == Judge!Fine
Small(a, b) == IF a < b THEN a ELSE b

HeadUnits(f) == IF f.long THEN 3 ELSE 2
FrameUnits(f) == HeadUnits(f) + Len(f.body)
Total == FoldLeft(LAMBDA n, f : n + FrameUnits(f), 0, script)

NewConn ==
    [st |-> "pending", pc |-> "idle", open |-> TRUE, lingering |-> FALSE,
     \* input: units arrived, read, consumed, and where the buffer starts
     arrived |-> 0, read |-> 0, pos |-> 0, base |-> 0, hup |-> "no",
     fullAt |-> -1, peerClosed |-> FALSE, readPending |-> FALSE, full |-> FALSE,
     \* parser
     fi |-> 1, inFrame |-> FALSE, rem |-> 0, moff |-> 0, ctrl |-> <<>>,
     in |-> FALSE, op |-> "", comp |-> FALSE, msg |-> <<>>, pings |-> 0, closing |-> FALSE,
     got |-> <<>>, pongs |-> 0, end |-> Fine, by |-> "nobody",
     \* output
     wbuf |-> <<>>, sent |-> <<>>, room |-> SockCap, armed |-> FALSE, closeAfter |-> FALSE,
     paused |-> FALSE, due |-> FALSE, dl |-> "header",
     \* shared with the goroutines
     outbox |-> <<>>, queued |-> FALSE, wake |-> FALSE, holding |-> FALSE, closeQueued |-> FALSE,
     dead |-> FALSE, direct |-> FALSE, closed |-> FALSE, code |-> 0,
     \* what was accepted for sending, and what the application was told
     acc |-> <<>>, onclose |-> 0, shares |-> 1]

Live == t.st = "live"
Become(s) == t' = s
Note(s, code) == IF s.code = 0 THEN [s EXCEPT !.code = code] ELSE s

-----------------------------------------------------------------------------
(* Writing: ev.write, writeClose and what they leave in the outbox.         *)

OutUnits(id, n) == [k \in 1..n |-> <<id, k>>]
FrameSize(kind, n) == [kind |-> kind, size |-> n]
Accept(s, f) == [s EXCEPT !.acc = Append(@, f)]

\* claimWake: a wake-up is owed unless one is queued or the loop holds them.
Claims(s) == ~s.queued /\ ~s.holding

Claim(s) == IF Claims(s) THEN [s EXCEPT !.queued = TRUE] ELSE s

\* The frame straight to the socket, whatever still waits in the outbox.
DirectAnyway(s, n) == s.direct /\ n >= DirectMin
DirectReady(s, n) == s.direct /\ s.outbox = <<>> /\ n >= DirectMin /\ n <= MaxPending

SendDirect(s, n) ==
    /\ DirectReady(s, n)
    /\ s.room > 0

\* What an accepted frame of n units leaves behind: sent directly as far as
\* the socket takes it, the rest in the outbox.
Put(s, n) ==
    LET u == OutUnits(Len(s.acc) + 1, n)
        k == Small(s.room, n)
        a == Accept(s, FrameSize("data", n))
    IN  IF SendDirect(s, n)
        THEN [a EXCEPT !.sent = @ \o SubSeq(u, 1, k), !.room = @ - k,
                       !.outbox = @ \o SubSeq(u, k + 1, n), !.direct = k = n]
        ELSE [a EXCEPT !.outbox = @ \o u, !.direct = @ /\ ~DirectReady(s, n)]

RefusesDead(s) == s.dead
Refuses(s) == s.dead \/ s.closeQueued
OverflowsNever(s, n) == FALSE
Overflows(s, n) == ~SendDirect(s, n) /\ Len(s.outbox) + n > MaxPending

\* writeClose, under ev.mu.
WriteClose(s) ==
    IF Refuses(s) THEN s
    ELSE [Accept(s, FrameSize("close", 1)) EXCEPT
             !.outbox = Append(@, <<Len(s.acc) + 1, 1>>), !.closeQueued = TRUE]

\* closeWithPayload on the loop thread, which holds the wake-ups.
\* A close without a status notes its code whether or not it wins the close.
CloseWith(s, v, by) ==
    LET n == IF s.closed /\ v.said # 0 THEN s ELSE Note(s, v.note)
    IN  IF s.closed THEN n
        ELSE WriteClose([n EXCEPT !.closed = TRUE, !.by = by, !.end = IF by = "reader" THEN v ELSE @])

\* WriteMessage by the loop's own code: OnMessage, or a pong.
LoopWrite(s, n) ==
    IF Refuses(s) THEN s
    ELSE IF Overflows(s, n) THEN CloseWith(s, Judge!Status(1008), "app")
    ELSE Put(s, n)

-----------------------------------------------------------------------------
(* Closing the connection.                                                  *)

\* wsSendFinalClose: one attempt at what is pending and a bare close frame.
SendFinalClose(s) ==
    LET a == Accept(s, FrameSize("close", 1))
        w == Append(s.wbuf, <<Len(s.acc) + 1, 1>>)
        k == Small(s.room, Len(w))
    IN  [a EXCEPT !.sent = @ \o SubSeq(w, 1, k), !.room = @ - k, !.wbuf = SubSeq(w, k + 1, Len(w))]

\* wsAbandon: what waits in the outbox is dropped, the application is told.
Abandon(s) ==
    [s EXCEPT !.dead = TRUE, !.outbox = <<>>, !.closed = TRUE, !.st = "gone",
              !.shares = @ - 1, !.onclose = @ + 1]

\* The frames of the outbox are numbered after all the others.
Undelivered(s) == {s.outbox[i][1] : i \in 1..Len(s.outbox)}
Kept(s) == SubSeq(s.acc, 1, Len(s.acc) - Cardinality(Undelivered(s)))

Teardown(s) ==
    LET q == [s EXCEPT !.acc = Kept(s), !.outbox = <<>>, !.paused = FALSE]
        f == IF s.closed THEN q
             ELSE SendFinalClose([Note(q, Judge!Abnormal) EXCEPT !.closed = TRUE, !.by = "app"])
    IN  Abandon(f)

\* The socket is closed and the WebSocket on it never hears of it.
CloseConnOnly(s) == [s EXCEPT !.open = FALSE, !.pc = "idle", !.due = FALSE]
CloseConn(s) ==
    LET z == IF s.st = "live" THEN Teardown(s) ELSE s
    IN  [z EXCEPT !.open = FALSE, !.pc = "idle", !.due = FALSE, !.armed = FALSE, !.wbuf = <<>>]

\* closeAfterResponse: the write side is shut and the rest of the input
\* discarded; the WebSocket ends with the socket.
CloseAfterResponse(s) == [s EXCEPT !.lingering = TRUE, !.pc = "idle", !.dl = "linger", !.due = FALSE]

-----------------------------------------------------------------------------
(* flush, and the relief of a paused connection.                            *)

\* A pause is never lifted.
ResumeNever(s) == s
ResumeIfDrained(s) ==
    IF s.paused /\ Len(s.wbuf) <= Low THEN [s EXCEPT !.paused = FALSE, !.due = TRUE] ELSE s

Flush(s) ==
    LET k == Small(s.room, Len(s.wbuf))
        a == [s EXCEPT !.sent = @ \o SubSeq(s.wbuf, 1, k), !.room = @ - k,
                       !.wbuf = SubSeq(s.wbuf, k + 1, Len(s.wbuf))]
        blocked == ResumeIfDrained(a)
        done == ResumeIfDrained([a EXCEPT !.armed = FALSE, !.dl = IF s.armed THEN "read" ELSE @])
    IN  IF s.lingering \/ ~s.open THEN s
        ELSE IF a.wbuf # <<>>
        THEN IF Len(a.wbuf) > MaxPending THEN CloseConn(a)
             ELSE [blocked EXCEPT !.armed = TRUE, !.dl = "write"]
        ELSE IF s.closeAfter THEN CloseAfterResponse(done) ELSE done

-----------------------------------------------------------------------------
(* Parsing: startFrame, continueFrame, and what a complete frame does.      *)

Frame(s) == script[s.fi]
Unread(s) == s.read - s.pos

\* maskXOR and wsMaskAt: a byte comes out right when the key was turned to
\* the byte's place in the frame.
UnmaskFromStart(f, from, n, off) ==
    [k \in 1..n |-> IF (from + k - 2) % KeyLen = (k - 1) % KeyLen THEN f.body[from + k - 1] ELSE "?"]
Unmask(f, from, n, off) ==
    [k \in 1..n |-> IF (from + k - 2) % KeyLen = (off + k - 1) % KeyLen THEN f.body[from + k - 1] ELSE "?"]

\* A frame larger than the buffer can ever hold is waited for.
AwaitsAnyFrame(s, f) == ~mix.tls /\ ~s.in /\ f.fin /\ ~Judge!Control(f.op)
AwaitsWholeFrame(s, f) ==
    /\ ~mix.tls /\ ~s.in /\ f.fin /\ f.rsv # "1" /\ ~Judge!Control(f.op)
    /\ HeadUnits(f) + f.len <= BufCap - MinFree

\* OnMessage: the application answers, closes or panics.
Deliver(s, op, body) ==
    LET d == [s EXCEPT !.got = Append(@, [op |-> op, body |-> body])]
    IN  CASE mix.does = "close" -> CloseWith(d, [note |-> Judge!NoStatus, said |-> 0], "app")
          [] mix.does = "panic" -> CloseWith(d, Judge!Status(1011), "app")
          [] OTHER -> FoldLeft(LAMBDA x, n : LoopWrite(x, n), d, mix.reply)

FinishMessage(s, body) ==
    LET d == Judge!Complete(s.op, s.comp, body)
        q == [s EXCEPT !.in = FALSE, !.op = "", !.comp = FALSE, !.msg = <<>>]
    IN  IF d.bad # Fine THEN CloseWith(q, d.bad, "reader") ELSE Deliver(q, s.op, d.out)

ControlFrame(s, op, gap, body) ==
    LET v == IF op = "close" THEN Judge!CloseVerdict(body)
             ELSE IF op = "ping" THEN Judge!PingVerdict(s.pings, gap) ELSE Fine
        p == IF op = "ping" THEN [s EXCEPT !.pings = Judge!PingCount(s.pings, gap)] ELSE s
    IN  IF v # Fine THEN CloseWith(p, v, "reader")
        ELSE IF op = "ping" THEN [LoopWrite(p, 1) EXCEPT !.pongs = @ + 1] ELSE p

FrameOver(s) == [s EXCEPT !.inFrame = FALSE, !.rem = 0, !.moff = 0, !.ctrl = <<>>, !.fi = @ + 1]

\* A frame the buffer holds only a part of: what is there is taken.
ContinueFrame(s) ==
    LET f == Frame(s)
        take == Small(Unread(s), s.rem)
        chunk == Unmask(f, f.len - s.rem + 1, take, s.moff)
        a == [s EXCEPT !.pos = @ + take, !.rem = @ - take, !.moff = @ + take]
        b == IF Judge!Control(f.op) THEN [a EXCEPT !.ctrl = @ \o chunk] ELSE [a EXCEPT !.msg = @ \o chunk]
    IN  IF b.rem > 0 THEN b
        ELSE IF Judge!Control(f.op) THEN ControlFrame(FrameOver(b), f.op, f.gap, b.ctrl)
        ELSE IF f.fin THEN FinishMessage(FrameOver(b), b.msg)
        ELSE FrameOver(b)

HeadVerdict(s, f) == Judge!VetHead(f, s.in)
LengthVerdict(s, f) == Judge!VetLength(f, IF Judge!Control(f.op) THEN 0 ELSE Len(s.msg))

\* startFrame has all it needs of the next frame to go on with it.
StartsFrame(s) ==
    LET f == Frame(s)
    IN  /\ Unread(s) >= 1
        /\ \/ HeadVerdict(s, f) # Fine
           \/ /\ Unread(s) >= HeadUnits(f) - 1
              /\ LengthVerdict(s, f) # Fine
           \/ /\ Unread(s) >= HeadUnits(f)
              /\ Unread(s) >= HeadUnits(f) + f.len \/ ~AwaitsWholeFrame(s, f)

StartFrame(s) ==
    LET f == Frame(s)
        h == [s EXCEPT !.pos = @ + HeadUnits(f)]
        o == IF ~Judge!Control(f.op) /\ ~s.in
             THEN [h EXCEPT !.in = TRUE, !.op = f.op, !.comp = f.rsv = "1"] ELSE h
        body == Unmask(f, 1, f.len, 0)
        w == FrameOver([o EXCEPT !.pos = @ + f.len])
    IN  IF HeadVerdict(s, f) # Fine THEN CloseWith(s, HeadVerdict(s, f), "reader")
        ELSE IF LengthVerdict(s, f) # Fine THEN CloseWith(s, LengthVerdict(s, f), "reader")
        ELSE IF Unread(o) < f.len THEN ContinueFrame([o EXCEPT !.inFrame = TRUE, !.rem = f.len, !.moff = 0])
        ELSE IF Judge!Control(f.op) THEN ControlFrame(w, f.op, f.gap, body)
        ELSE IF f.fin THEN FinishMessage(w, o.msg \o body)
        ELSE [w EXCEPT !.msg = @ \o body]

-----------------------------------------------------------------------------
(* The loop: wsServe, and the read and flush around it.                     *)

SetDirect(s) == [s EXCEPT !.direct = ~mix.tls /\ s.wbuf = <<>>]

\* takeOutbox without its release: the loop goes on parsing.
TakeOutbox(s) == SetDirect([s EXCEPT !.wbuf = @ \o s.outbox, !.outbox = <<>>, !.closing = @ \/ s.closeQueued])
\* The wake-ups stay with the loop after it has left.
TakeHolding(s) == [TakeOutbox(s) EXCEPT !.direct = FALSE]
TakeLast(s) == [TakeOutbox(s) EXCEPT !.holding = FALSE, !.direct = FALSE]

HoldWakes(s) == SetDirect([s EXCEPT !.holding = TRUE, !.pc = "serve"])

\* The end of readOnce after serviceBuffered: a full buffer is read again
\* when something of it was consumed, and is the end of the connection if not.
AfterService(s) ==
    LET h == [s EXCEPT !.pc = "idle", !.fullAt = -1, !.peerClosed = FALSE]
        p == IF s.peerClosed THEN [h EXCEPT !.closeAfter = TRUE] ELSE h
    IN  IF ~s.open \/ s.lingering THEN h
        ELSE IF s.peerClosed /\ s.wbuf = <<>> THEN CloseConn(h)
        ELSE IF s.fullAt < 0 THEN p
        ELSE IF s.paused THEN [p EXCEPT !.readPending = TRUE]
        ELSE IF Unread(s) < s.fullAt THEN [p EXCEPT !.pc = "again", !.peerClosed = s.peerClosed]
        ELSE [CloseConn(p) EXCEPT !.full = ~s.closing]

\* The end of wsServe: the outbox is taken, the buffer compacted unless the
\* connection is paused, and what there is to send is flushed.
ServeEnd(s) ==
    LET k == TakeLast(s)
        d == [k EXCEPT !.dl = IF k.armed THEN "write" ELSE "read"]
        z == IF d.closing THEN [d EXCEPT !.closeAfter = TRUE]
             ELSE IF d.paused /\ ~mix.tls THEN d ELSE [d EXCEPT !.base = d.pos]
    IN  AfterService(Flush(z))

\* serviceBuffered: wsServe runs when something is buffered.
Service(s) ==
    IF s.read > s.base THEN HoldWakes(s) ELSE AfterService(Flush(s))

ReadOnce(s, hup) ==
    LET free == IF mix.tls THEN s.arrived - s.read + MinFree ELSE BufCap - (s.read - s.base)
        n == Small(s.arrived - s.read, free)
        r == [s EXCEPT !.readPending = FALSE, !.peerClosed = hup, !.pc = "idle"]
    IN  IF s.paused
        THEN IF hup THEN CloseConn(s) ELSE [s EXCEPT !.readPending = TRUE, !.pc = "idle"]
        ELSE IF free < MinFree THEN Service([r EXCEPT !.fullAt = Unread(s)])
        ELSE Service([r EXCEPT !.read = @ + n, !.fullAt = IF n = free THEN Unread(s) + n ELSE -1])

ResumeConn(s) == IF s.readPending THEN ReadOnce(s, FALSE) ELSE Service(s)

\* finishWSUpgrade, once the handler that called ServeWebSocketEvents is back.
Upgrade ==
    /\ t.st = "pending"
    /\ t.pc = "idle"
    /\ LET l == [Accept(t, FrameSize("101", 1)) EXCEPT !.st = "live", !.dl = "read", !.wbuf = <<<<1, 1>>>>]
           f == Flush(l)
       IN  Become(IF ~t.open THEN Abandon(t) ELSE IF f.open THEN ResumeConn(f) ELSE f)
    /\ UNCHANGED <<script, mix, g>>

\* A lingering connection's input is discarded.
AtRest == t.open /\ t.pc = "idle" /\ t.st = "live" /\ ~t.lingering

\* An input edge.
Readable ==
    /\ AtRest
    /\ \/ t.arrived > t.read /\ ~(t.paused /\ t.readPending)
       \/ t.hup = "edge"
    /\ Become(ReadOnce([t EXCEPT !.hup = IF @ = "edge" THEN "seen" ELSE @], t.hup = "edge"))
    /\ UNCHANGED <<script, mix, g>>

ReadAgain ==
    /\ t.pc = "again"
    /\ Become(ReadOnce(t, t.peerClosed))
    /\ UNCHANGED <<script, mix, g>>

\* One turn of wsServe's loop.
Pauses(s) == Len(s.wbuf) > High
CanParse(s) == Unread(s) > 0 /\ (s.inFrame \/ StartsFrame(s))

Parse ==
    /\ t.pc = "serve"
    /\ ~t.closing
    /\ ~Pauses(t)
    /\ CanParse(t)
    /\ LET s == IF t.inFrame THEN ContinueFrame(t) ELSE StartFrame(t)
           done == ~s.inFrame
       IN  IF done /\ Unread(s) = 0 THEN Become([s EXCEPT !.pc = "end"])
           ELSE IF done THEN Become([s EXCEPT !.pc = "take"]) ELSE Become(s)
    /\ UNCHANGED <<script, mix, g>>

Take ==
    /\ t.pc = "take"
    /\ Become([TakeOutbox(t) EXCEPT !.pc = "serve"])
    /\ UNCHANGED <<script, mix, g>>

Leave ==
    /\ \/ t.pc = "end"
       \/ /\ t.pc = "serve"
          /\ t.closing \/ Pauses(t) \/ ~CanParse(t)
    /\ LET s == IF t.pc = "serve" /\ ~t.closing /\ Pauses(t) THEN [t EXCEPT !.paused = TRUE] ELSE t
       IN  Become(ServeEnd(s))
    /\ UNCHANGED <<script, mix, g>>

Writable ==
    /\ AtRest
    /\ t.armed /\ t.room > 0
    /\ Become(Flush(t))
    /\ UNCHANGED <<script, mix, g>>

\* flushPending for a connection that wsResumeIfDrained marked.
Resume ==
    /\ AtRest
    /\ t.due
    /\ LET f == Flush([t EXCEPT !.due = FALSE])
       IN  Become(IF f.open /\ ~f.lingering THEN ResumeConn([f EXCEPT !.due = FALSE]) ELSE f)
    /\ UNCHANGED <<script, mix, g>>

\* runWSWakes and wsFlushOutbox.
RunWake ==
    /\ t.wake
    /\ t.pc = "idle"
    /\ LET s == [t EXCEPT !.wake = FALSE, !.queued = FALSE]
           k == [s EXCEPT !.wbuf = @ \o s.outbox, !.outbox = <<>>,
                          !.closing = @ \/ s.closeQueued, !.closeAfter = @ \/ s.closeQueued]
       IN  Become(IF t.st = "live" THEN Flush(k) ELSE [s EXCEPT !.outbox = <<>>])
    /\ UNCHANGED <<script, mix, g>>

\* drainForShutdown sends the peer away with 1001.
GoingAway ==
    /\ May("shutdown")
    /\ AtRest
    /\ ~t.closing /\ ~t.closed
    /\ LET s == CloseWith(t, Judge!Status(1001), "app")
       IN  Become(IF Claims(s) THEN [Claim(s) EXCEPT !.wake = TRUE] ELSE s)
    /\ UNCHANGED <<script, mix, g>>

\* sweepDeadlines, or an error on the socket, or the end of the linger.
Expire ==
    /\ t.open /\ t.pc = "idle"
    /\ \/ t.lingering
       \/ May("expire")
    /\ Become(CloseConn(t))
    /\ UNCHANGED <<script, mix, g>>

-----------------------------------------------------------------------------
(* The application's goroutines, which learned of the connection from        *)
(* OnMessage.                                                               *)

Goes(i, pc) == g[i].pc = pc
Go(i, pc) == g' = [g EXCEPT ![i].pc = pc]

Write(i) ==
    /\ Goes(i, "idle")
    /\ t.got # <<>>
    /\ g[i].n < mix.writes
    /\ \/ /\ Refuses(t)
          /\ g' = [g EXCEPT ![i].n = mix.writes]
          /\ UNCHANGED t
       \/ /\ ~Refuses(t) /\ Overflows(t, DirectMin)
          /\ g' = [g EXCEPT ![i] = [pc |-> "close", n |-> mix.writes, code |-> 1008]]
          /\ UNCHANGED t
       \/ /\ ~Refuses(t) /\ ~Overflows(t, DirectMin)
          /\ g' = [g EXCEPT ![i].n = @ + 1, ![i].pc = IF Claims(t) THEN "push" ELSE "idle"]
          /\ Become(Claim(Put(t, DirectMin)))
    /\ UNCHANGED <<script, mix>>

\* Close notes a code before it competes for the close.
AppClose(i) ==
    /\ May("close")
    /\ Goes(i, "idle")
    /\ t.got # <<>>
    /\ g[i].n < mix.writes
    /\ g' = [g EXCEPT ![i] = [pc |-> "close", n |-> mix.writes, code |-> 0]]
    /\ Become(Note(t, Judge!NoStatus))
    /\ UNCHANGED <<script, mix>>

WinClose(i) ==
    /\ Goes(i, "close")
    /\ Go(i, IF t.closed THEN "idle" ELSE "send")
    /\ Become(IF t.closed THEN t
              ELSE [(IF g[i].code = 0 THEN t ELSE Note(t, g[i].code)) EXCEPT !.closed = TRUE, !.by = "app"])
    /\ UNCHANGED <<script, mix>>

QueueClose(i) ==
    /\ Goes(i, "send")
    /\ Become(IF Refuses(t) THEN t ELSE Claim(WriteClose(t)))
    /\ Go(i, IF ~Refuses(t) /\ Claims(t) THEN "push" ELSE "idle")
    /\ UNCHANGED <<script, mix>>

PushWake(i) ==
    /\ Goes(i, "push")
    /\ Go(i, "idle")
    /\ Become([t EXCEPT !.wake = TRUE])
    /\ UNCHANGED <<script, mix>>

-----------------------------------------------------------------------------
(* The peer and the network.                                                *)

PeerSends ==
    /\ t.open /\ t.hup = "no" /\ ~t.lingering
    /\ \E n \in (t.arrived + 1)..Total : Become([t EXCEPT !.arrived = n])
    /\ UNCHANGED <<script, mix, g>>

PeerReads ==
    /\ t.open /\ ~t.lingering
    /\ t.room < SockCap
    /\ Become([t EXCEPT !.room = SockCap])
    /\ UNCHANGED <<script, mix, g>>

PeerCloses ==
    /\ May("hup")
    /\ t.open /\ t.hup = "no" /\ ~t.lingering
    /\ Become([t EXCEPT !.hup = "edge"])
    /\ UNCHANGED <<script, mix, g>>

Init ==
    /\ mix \in Mixes
    /\ script = mix.script
    /\ t = NewConn
    /\ g = [i \in Writers |-> [pc |-> "idle", n |-> 0, code |-> 0]]

Next ==
    \/ Upgrade \/ Readable \/ ReadAgain \/ Parse \/ Take \/ Leave
    \/ Writable \/ Resume \/ RunWake \/ GoingAway \/ Expire
    \/ \E i \in Writers : Write(i) \/ AppClose(i) \/ WinClose(i) \/ QueueClose(i) \/ PushWake(i)
    \/ PeerSends \/ PeerReads \/ PeerCloses

Spec == Init /\ [][Next]_vars

-----------------------------------------------------------------------------
(* Properties.                                                              *)

TypeOK ==
    /\ t.st \in {"pending", "live", "gone"}
    /\ t.pc \in {"idle", "serve", "take", "end", "again"}
    /\ 0 <= t.base /\ t.base <= t.pos /\ t.pos <= t.read /\ t.read <= t.arrived
    /\ ~mix.tls => t.read - t.base <= BufCap
    /\ Len(t.outbox) <= MaxPending + 1
    /\ t.room \in 0..SockCap
    /\ t.shares \in 0..1

\* However the bytes of the frames are cut up, and whoever writes or closes
\* meanwhile, the loop delivers, answers and refuses what the blocking reader
\* would.
ReadsAsBlocking == Judge!Spec

FlatFrames(acc) == FlattenSeq([i \in 1..Len(acc) |-> OutUnits(i, acc[i].size)])

\* The peer gets the frames that were accepted, whole, once and in order,
\* whichever of the socket, the write buffer and the outbox they go through.
IntactStream ==
    IF t.st = "gone" THEN IsPrefix(t.sent, FlatFrames(t.acc))
    ELSE t.sent \o t.wbuf \o t.outbox = FlatFrames(t.acc)

\* One close frame at most is sent, and nothing follows it.
CloseIsLast == \A i \in 1..Len(t.acc) : t.acc[i].kind = "close" => i = Len(t.acc)

Pushing == {i \in Writers : Goes(i, "push")}

\* What waits in the outbox has a wake-up on its way or a loop that will take
\* it, and the connection is never on the wake list twice.
WakeOwed ==
    /\ Cardinality(Pushing) + (IF t.wake THEN 1 ELSE 0) = (IF t.queued THEN 1 ELSE 0)
    /\ t.st = "live" /\ (t.outbox # <<>> \/ (t.closeQueued /\ ~t.closing)) => t.queued \/ t.holding
    /\ t.holding => t.pc # "idle" \/ ~t.open

\* A paused connection has output to drain, and resumes when it has drained;
\* one that is not paused has left no frame it could have read.
NothingStuck ==
    t.st = "live" /\ t.open /\ t.pc = "idle" /\ ~t.lingering =>
        /\ t.paused => t.armed /\ Len(t.wbuf) > Low
        /\ t.wbuf # <<>> => t.armed
        /\ ~t.paused /\ ~t.due /\ ~t.closing => ~CanParse(t)
        /\ t.closing => t.closeAfter

\* The application hears of the end once, with the connection's share of its
\* client's limit given back, and is handed no message after it.
EndedOnce ==
    /\ t.onclose = 1 - t.shares
    /\ t.onclose = 1 <=> t.st = "gone"
    /\ ~t.open /\ t.st # "pending" => t.st = "gone"

\* A peer that has sent whole and lawful frames is not dropped for a full
\* read buffer.
BufferNeverJams == ~t.full
=============================================================================
