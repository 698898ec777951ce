------------------------------- MODULE BodyStream ------------------------------
(* A request body that streams to its handler: BodyReader                        *)
(* (src/core/request_body_stream.go), fed by an HTTP/1 connection                *)
(* (epoll_h1_body_linux_amd64.go) or an HTTP/2 stream                            *)
(* (epoll_h2_body_linux_amd64.go), with its acknowledgements and its read        *)
(* deadline.                                                                     *)
(*                                                                               *)
(* The handler's goroutine and the loop meet under the reader's mutex; a unit    *)
(* stands for some bytes.                                                        *)
EXTENDS Integers

CONSTANTS
    Total,      \* units of the body
    Threshold,  \* bodyStreamAckThreshold
    Cap,        \* h1BodyStreamCap
    ReadAhead,  \* h1BodyReadAhead
    Window,     \* the stream's receive window
    MaxTime     \* bound: the clock of read deadlines

\* What the sizes are assumed to be: a read and the reader's buffer hold at least a unit.
Sizes ==
    /\ Total \in Nat /\ Threshold \in Nat /\ Window \in Nat
    /\ Cap \in Nat \ {0} /\ ReadAhead \in Nat \ {0} /\ MaxTime \in Nat \ {0}

VARIABLES
    br,     \* the BodyReader
    inn,    \* h1BodyIn or h2BodyIn, and its connection
    net,    \* the peer and the socket
    acks,   \* 1 if an ack task is in taskCh, 2 if the handler is about to post it
    clock,  \* time, and the reader's deadline timer
    hd      \* the handler runs, or has returned

vars == <<br, inn, net, acks, clock, hd>>

\* inn.done: the body ended or was abandoned.  left: units the peer still has to send;
\* h2 keeps its receive window.  unread: bytes of the body in the connection's buffer.
Init ==
    /\ br = [buf |-> 0, eof |-> FALSE, err |-> FALSE, closed |-> FALSE, unacked |-> 0, ackQueued |-> FALSE,
             hit |-> FALSE, at |-> 0]
    /\ \E proto \in {"h1", "h2"}, broken \in BOOLEAN :
          inn = [proto |-> proto, broken |-> broken, up |-> TRUE, done |-> FALSE, left |-> Total, large |-> FALSE,
                 window |-> Window, unread |-> 0, pending |-> FALSE, eof |-> FALSE, hup |-> FALSE,
                 deadline |-> proto = "h1", settle |-> FALSE]
    /\ net = [left |-> Total, bytes |-> 0, fin |-> FALSE, edge |-> FALSE]
    /\ acks = 0
    /\ clock = [now |-> 1, timer |-> 0, firing |-> 0]
    /\ hd = "run"

\* The types; nothing is acknowledged that was not received.
TypeOK ==
    /\ br.buf \in 0..Total /\ br.unacked \in 0..Total
    /\ inn.left \in 0..Total /\ inn.unread \in 0..ReadAhead /\ inn.window \in 0..Window
    /\ net.left \in 0..Total /\ net.bytes \in 0..Total
    /\ acks \in 0..2 /\ hd \in {"run", "returned"}
    /\ clock.now \in 1..MaxTime /\ clock.timer \in 0..MaxTime /\ clock.firing \in 0..2

Over == br.eof \/ br.err \/ br.closed \/ br.hit

--------------------------------------------------------------------------------
(* The reader, under its mutex.                                                  *)

\* Mutant: only a full threshold is acknowledged.
ClaimAtThreshold(b) ==
    IF b.ackQueued \/ b.unacked < Threshold THEN b ELSE [b EXCEPT !.ackQueued = TRUE]

\* claimAckLocked.
ClaimAck(b) ==
    IF b.ackQueued \/ b.unacked = 0 \/ (b.unacked < Threshold /\ b.buf > 0 /\ ~b.closed) THEN b
    ELSE [b EXCEPT !.ackQueued = TRUE]

Push(b, n) ==
    IF b.closed THEN [b EXCEPT !.unacked = @ + n] ELSE [b EXCEPT !.buf = @ + n]

\* finish, finishWithTrailers.
FinishBody(b, err) ==
    IF b.eof \/ b.err THEN b ELSE IF err THEN [b EXCEPT !.err = TRUE] ELSE [b EXCEPT !.eof = TRUE]

\* Mutant: what was acknowledged stays to be acknowledged.
TakeAckKeeps(b) == [b EXCEPT !.ackQueued = FALSE]

TakeAck(b) == [b EXCEPT !.unacked = 0, !.ackQueued = FALSE]

--------------------------------------------------------------------------------
(* The handler.                                                                  *)

Claimed(b) == br' = b /\ acks' = IF b.ackQueued /\ ~br.ackQueued THEN 2 ELSE acks

\* Read, when it does not have to wait: bytes, or the end.
Read ==
    /\ hd = "run" /\ acks # 2 /\ br.buf > 0
    /\ \E n \in 1..br.buf : Claimed(ClaimAck([br EXCEPT !.buf = @ - n, !.unacked = @ + n]))
    /\ UNCHANGED <<inn, net, clock, hd>>

\* onAck, after the throttle: postTask.
PostAck == acks = 2 /\ acks' = 1 /\ UNCHANGED <<br, inn, net, clock, hd>>

\* BodyReader.Close, h2StreamConn.Close.
CloseReader ==
    /\ hd = "run" /\ acks # 2 /\ ~br.closed
    /\ Claimed(ClaimAck([br EXCEPT !.closed = TRUE, !.unacked = @ + br.buf, !.buf = 0, !.at = 0]))
    /\ clock' = [clock EXCEPT !.timer = 0]
    /\ UNCHANGED <<inn, net, hd>>

\* setReadDeadline, of a tunnel's connection: none, past or to come.
SetReadDeadline ==
    /\ inn.proto = "h2" /\ hd = "run" /\ acks # 2 /\ ~br.closed
    /\ \E t \in 0..MaxTime :
          /\ br' = [br EXCEPT !.at = t, !.hit = t # 0 /\ t <= clock.now]
          /\ clock' = [clock EXCEPT !.timer = IF t = 0 THEN 0 ELSE IF t > clock.now THEN t ELSE @]
    /\ UNCHANGED <<inn, net, acks, hd>>

Tick ==
    /\ inn.proto = "h2" /\ clock.now < MaxTime /\ clock' = [clock EXCEPT !.now = @ + 1]
    /\ UNCHANGED <<br, inn, net, acks, hd>>

\* The timer starts its goroutine, which Stop and Reset do not take back.
TimerFires ==
    /\ clock.timer # 0 /\ clock.timer <= clock.now /\ clock.firing < 2
    /\ clock' = [clock EXCEPT !.timer = 0, !.firing = @ + 1]
    /\ UNCHANGED <<br, inn, net, acks, hd>>

\* Mutant: a deadline that was moved while the timer fired is hit.
FiredBlindly ==
    /\ clock.firing > 0
    /\ clock' = [clock EXCEPT !.firing = @ - 1]
    /\ br' = [br EXCEPT !.hit = TRUE]
    /\ UNCHANGED <<inn, net, acks, hd>>

DeadlineFired ==
    /\ clock.firing > 0
    /\ clock' = [clock EXCEPT !.firing = @ - 1, !.timer = IF br.at > clock.now THEN br.at ELSE @]
    /\ br' = [br EXCEPT !.hit = @ \/ (br.at # 0 /\ br.at <= clock.now)]
    /\ UNCHANGED <<inn, net, acks, hd>>

\* The handler returns and the loop ends the body: h1EndBodyStream, h2AbortBodyIn.
Return ==
    /\ hd = "run" /\ acks # 2 /\ ~inn.settle
    /\ hd' = "returned"
    /\ br' = IF inn.done THEN br ELSE FinishBody(br, TRUE)
    /\ inn' = [inn EXCEPT !.done = TRUE]
    /\ UNCHANGED <<net, acks, clock>>

--------------------------------------------------------------------------------
(* HTTP/2.                                                                       *)

\* h2StreamBodyData: DATA within the window, with its end when it is the last; a
\* broken body does not fit its declared length, a large one is cut off.
H2Data ==
    /\ inn.proto = "h2" /\ inn.up /\ ~inn.done /\ net.left > 0
    /\ \E n \in 1..net.left, large \in BOOLEAN :
          LET end == n = net.left
              cut == inn.large \/ large
              pushed == IF cut THEN FinishBody(br, TRUE) ELSE Push(br, n)
          IN  /\ n <= inn.window
              /\ net' = [net EXCEPT !.left = @ - n]
              /\ inn' = [inn EXCEPT !.window = @ - n, !.left = @ - n, !.large = cut, !.done = end]
              /\ br' = IF end THEN FinishBody(pushed, inn.broken) ELSE pushed
    /\ UNCHANGED <<acks, clock, hd>>

\* h2BodyAcked: WINDOW_UPDATE for what the handler has read.
H2Acked ==
    /\ inn.proto = "h2" /\ acks = 1
    /\ acks' = 0
    /\ br' = TakeAck(br)
    /\ inn' = IF inn.done \/ inn.large THEN inn ELSE [inn EXCEPT !.window = @ + br.unacked]
    /\ UNCHANGED <<net, clock, hd>>

--------------------------------------------------------------------------------
(* HTTP/1.                                                                       *)

Min2(a, b) == IF a < b THEN a ELSE b

\* h1BodyWantsInput, of p = [b, i, n]: reader, connection and socket.
WantsInput(p) == ~p.i.done /\ p.b.buf < Cap

\* h1FeedBody, h1BodyIn.end: the last unit of a broken body is an error.
FeedUnits(p, n) ==
    IF p.i.left > n
    THEN [p EXCEPT !.i = [p.i EXCEPT !.unread = p.i.unread - n, !.left = p.i.left - n],
                   !.b = Push(p.b, n)]
    ELSE [p EXCEPT !.i = [p.i EXCEPT !.unread = p.i.unread - n, !.left = 0, !.done = TRUE],
                   !.b = IF p.i.broken THEN FinishBody(p.b, TRUE) ELSE FinishBody(Push(p.b, n), FALSE)]
FeedBody(p) == IF p.i.done THEN p ELSE FeedUnits(p, Min2(p.i.unread, Cap - p.b.buf))

\* closeConn, with h1AbortIn.
Closed(p) ==
    [p EXCEPT !.i = [p.i EXCEPT !.up = FALSE, !.done = TRUE, !.settle = FALSE],
              !.b = IF p.i.done THEN p.b ELSE FinishBody(p.b, TRUE)]

\* abortStarvedBody.
AbortStarved(p) == IF p.i.up /\ p.i.eof /\ ~p.i.done /\ p.i.unread = 0 THEN Closed(p) ELSE p

\* serviceBuffered of a dispatched request; its deadline is left to Settle, the handler
\* may read before it.
Service(p) == [FeedBody(p) EXCEPT !.i.settle = TRUE]

\* readOnce: the socket is read until it is empty, its end is seen or ReadAhead units
\* are there; not at all while the reader is full.
Drained(p, n) ==
    LET full == n > 0 /\ p.i.unread + n = ReadAhead
        ended == p.n.fin /\ p.i.hup /\ n = p.n.bytes /\ ~full
    IN  [p EXCEPT !.i = [p.i EXCEPT !.pending = n < p.n.bytes \/ (full /\ p.i.hup),
                                    !.unread = p.i.unread + n, !.eof = p.i.eof \/ ended],
                  !.n.bytes = @ - n]
ReadOnce(p, hup) ==
    LET q == [p EXCEPT !.i.hup = @ \/ hup]
    IN  IF ~WantsInput(q) THEN [q EXCEPT !.i.pending = TRUE]
        ELSE Service(Drained(q, Min2(q.n.bytes, ReadAhead - q.i.unread)))

\* Mutant: the ack does not look at what was left in the socket.
AckFeeds(p) == AbortStarved(FeedBody(p))

\* h1BodyAcked, after takeAck.
Acked(p) ==
    LET fed == AbortStarved(FeedBody(p))
    IN  IF ~fed.i.up \/ ~WantsInput(fed) THEN fed
        ELSE IF fed.i.pending \/ (fed.i.hup /\ ~fed.i.eof) THEN ReadOnce(fed, FALSE) ELSE Service(fed)

Become(p) == br' = p.b /\ inn' = p.i /\ net' = p.n
Now == [b |-> br, i |-> inn, n |-> net]

\* serviceConn for an edge.
Readable ==
    /\ inn.proto = "h1" /\ inn.up /\ net.edge /\ ~inn.settle
    /\ Become(ReadOnce([Now EXCEPT !.n.edge = FALSE], net.fin))
    /\ UNCHANGED <<acks, clock, hd>>

H1Acked ==
    /\ inn.proto = "h1" /\ acks = 1 /\ ~inn.settle
    /\ acks' = 0
    /\ LET p == [Now EXCEPT !.b = TakeAck(br)]
       IN  Become(IF inn.up /\ ~inn.done THEN Acked(p) ELSE p)
    /\ UNCHANGED <<clock, hd>>

\* The end of serviceBuffered, and of readOnce.
Settle ==
    /\ inn.settle
    /\ Become(AbortStarved([Now EXCEPT !.i = [inn EXCEPT !.settle = FALSE, !.deadline = WantsInput(Now)]]))
    /\ UNCHANGED <<acks, clock, hd>>

\* sweepDeadlines closes a connection whose body does not come.
Sweep ==
    /\ inn.proto = "h1" /\ inn.up /\ inn.deadline /\ ~inn.settle
    /\ Become(Closed(Now))
    /\ UNCHANGED <<acks, clock, hd>>

\* The peer sends part of the body, or goes away; each is an edge.
PeerSends ==
    /\ inn.proto = "h1" /\ ~net.fin
    /\ \E n \in 1..net.left : net' = [net EXCEPT !.left = @ - n, !.bytes = @ + n, !.edge = TRUE]
    /\ UNCHANGED <<br, inn, acks, clock, hd>>

PeerGone ==
    /\ inn.proto = "h1" /\ ~net.fin
    /\ net' = [net EXCEPT !.fin = TRUE, !.edge = TRUE]
    /\ UNCHANGED <<br, inn, acks, clock, hd>>

\* An HTTP/2 connection closes: h2AbortAllBodyIn; or the stream is reset.
H2Gone ==
    /\ inn.proto = "h2" /\ inn.up /\ ~inn.done
    /\ Become(Closed(Now))
    /\ UNCHANGED <<acks, clock, hd>>

Next ==
    \/ Read \/ PostAck \/ CloseReader \/ SetReadDeadline \/ Tick \/ TimerFires \/ DeadlineFired \/ Return
    \/ H2Data \/ H2Acked \/ H2Gone \/ Readable \/ H1Acked \/ Settle \/ Sweep \/ PeerSends \/ PeerGone

Spec == Init /\ [][Next]_vars

--------------------------------------------------------------------------------
(* Properties.                                                                   *)

\* h2StreamBodyData, h2BodyAcked, takeAck: while a stream's body is open, what the peer
\* may send, what the handler has not read and what is not acknowledged make the whole
\* window; no ack is lost or given twice.
WindowConserved ==
    inn.proto = "h2" /\ ~inn.done /\ ~inn.large => inn.window + br.buf + br.unacked = Window

\* claimAckLocked: a reader that is open and empty has everything it read on its way
\* back to the peer, so the peer is never blocked by a handler that waits for it.
EmptyReaderAcks == br.buf = 0 /\ br.unacked > 0 /\ ~br.closed => br.ackQueued

\* h1BodyAcked, readOnce, abortStarvedBody: a handler that waits for bytes has all that
\* arrived, or the loop is about to look at the socket; and the connection has a
\* deadline for the rest.
ReaderNotStarved ==
    inn.proto = "h1" /\ hd = "run" /\ br.buf = 0 /\ ~Over =>
        \/ net.edge \/ acks # 0 \/ inn.settle
        \/ net.bytes = 0 /\ inn.unread = 0 /\ ~net.fin /\ inn.deadline

\* setReadDeadline, deadlineFired: a read fails only for a deadline that is set and has
\* passed, and a deadline that is set has a timer, whichever fires late.
DeadlineHonest ==
    ~br.closed => /\ br.hit => br.at # 0 /\ br.at <= clock.now
                  /\ br.at # 0 /\ ~br.hit => clock.timer # 0 \/ clock.firing > 0
================================================================================
