----------------------------- MODULE ConnLifecycle -----------------------------
(* The life of an HTTP/1 connection on one epoll worker: accept, edge-triggered  *)
(* reads, dispatch to a handler goroutine, the completion, flushing, lingering   *)
(* close, hijacking, and the return of the pooled object                         *)
(* (src/core/epoll_backend_linux_amd64.go, epoll_h1_linux_amd64.go,              *)
(* epoll_linger_linux_amd64.go, epoll_hijack_linux_amd64.go).                    *)
(*                                                                               *)
(* The loop is one thread, so an event, a completion or a task is one step.      *)
(* Between them run the handlers, the peer and the owner of a hijacked socket.   *)
(* An epollConn outlives its socket while a handler uses it; c is the record of  *)
(* the pooled object together with the kernel's side of its socket.              *)
EXTENDS Integers, Sequences

CONSTANTS
    Slots,      \* epollConn objects of the worker's pool
    MaxGen,     \* bound: sockets a slot carries
    MaxUnits,   \* bound: units a peer sends on one socket
    BufCap,     \* units readBuf holds (effectiveReadCap)
    MaxPending, \* responses writeBuf may hold back (maxPendingWrite)
    Units       \* what peers send, of AllUnits

\* A request, one that asks to close the connection, one that is refused, and the
\* parts of a request whose head does not arrive at once.
AllUnits == {"req", "bye", "bad", "half", "more", "rest"}

ASSUME ConnAssumption ==
    /\ MaxGen \in Nat \ {0}
    /\ MaxUnits \in Nat \ {0}
    /\ BufCap \in Nat \ {0}
    /\ MaxPending \in Nat
    /\ Units \subseteq AllUnits

VARIABLES
    conn,       \* the slots
    shut        \* "no", "draining" (done is closed), "expired" (drainExpired), "exited"

vars == <<conn, shut>>

Blank == [fd |-> FALSE, gen |-> 0, dispatching |-> FALSE, inFlight |-> 0,
          buf |-> <<>>, readPending |-> FALSE, out |-> 0, outArmed |-> FALSE,
          closeAfter |-> FALSE, lingering |-> FALSE, deadline |-> FALSE,
          flushQueued |-> FALSE, speaksH1 |-> FALSE,
          \* the handler, what it was dispatched with and what it asked for
          handler |-> "none", dispGen |-> 0, dispClose |-> FALSE,
          taken |-> FALSE, hijacked |-> FALSE,
          \* resources: entries on the free list, shares of activeConns and of the
          \* per-IP limiter, the hijacked socket and what is left of its pin
          free |-> 1, counted |-> 0, ip |-> 0, tracked |-> FALSE,
          pinned |-> FALSE, parked |-> FALSE, unpin |-> FALSE,
          \* the kernel: unread units, the peer's end, a pending edge, send buffer
          kin |-> <<>>, sent |-> 0, inHead |-> FALSE,
          peer |-> "gone", edge |-> FALSE, full |-> FALSE]

\* The types, and the counts that can only be 0 or 1.
TypeOK ==
    /\ shut \in {"no", "draining", "expired", "exited"}
    /\ DOMAIN conn = Slots
    /\ \A c \in Slots :
          /\ conn[c].gen \in 0..MaxGen
          /\ conn[c].inFlight \in 0..1
          /\ conn[c].buf \in Seq(Units) /\ Len(conn[c].buf) <= BufCap
          /\ conn[c].kin \in Seq(Units) /\ Len(conn[c].kin) <= MaxUnits
          /\ conn[c].out \in 0..(MaxPending + 1)
          /\ conn[c].handler \in {"none", "running", "done"}
          /\ conn[c].peer \in {"gone", "open", "fin", "reset"}

Init ==
    /\ conn = [c \in Slots |-> Blank]
    /\ shut = "no"

ShuttingDown == shut # "no"

--------------------------------------------------------------------------------
(* The loop's helpers, on the record of one connection.                         *)

\* epollConnPool.put: the share of activeConns goes back, then recycle, which
\* gives back a per-IP share that is still held.
Put(s) == [s EXCEPT !.counted = @ - 1, !.free = @ + 1, !.ip = IF s.fd THEN @ ELSE 0,
                    !.deadline = FALSE]

\* closeConn.
CloseConn(s) ==
    IF ~s.fd THEN s
    ELSE LET t == [s EXCEPT !.fd = FALSE, !.gen = @ + 1, !.flushQueued = FALSE,
                            !.lingering = FALSE, !.buf = <<>>, !.out = 0,
                            !.closeAfter = FALSE, !.outArmed = FALSE,
                            !.dispatching = FALSE, !.readPending = FALSE,
                            !.speaksH1 = FALSE, !.ip = @ - 1,
                            !.kin = <<>>, !.sent = 0, !.inHead = FALSE,
                            !.peer = "gone", !.edge = FALSE, !.full = FALSE]
         IN  IF t.inFlight > 0 THEN t ELSE Put(t)

\* discardLingering: what the peer still sends is thrown away until it closes.
DiscardLingering(s) ==
    IF s.peer = "open" THEN [s EXCEPT !.kin = <<>>] ELSE CloseConn(s)

\* closeAfterResponse: a quiet connection shuts down its sending side and waits
\* for the peer; one with a handler, or that never spoke, is closed.
CloseAfterResponse(s) ==
    IF s.lingering THEN s
    ELSE IF s.speaksH1 /\ s.inFlight = 0 /\ ~s.dispatching
    THEN DiscardLingering([s EXCEPT !.lingering = TRUE, !.deadline = TRUE])
    ELSE CloseConn(s)

\* send fails on a reset connection; a full send buffer is one when more than
\* maxPendingWrite waits.
SendFails(s) == s.out > 0 /\ (s.peer = "reset" \/ (s.full /\ s.out > MaxPending))

\* flush returns true: the connection lives on.
Flushes(s) ==
    /\ ~s.lingering
    /\ ~SendFails(s)
    /\ (s.out > 0 /\ s.full) \/ ~s.closeAfter

\* Mutant: disarmOut leaves the deadline as it is.
FlushKeepsDeadline(s) ==
    IF s.lingering THEN s
    ELSE IF SendFails(s) THEN CloseConn(s)
    ELSE IF s.out > 0 /\ s.full
    THEN [s EXCEPT !.outArmed = TRUE, !.deadline = IF s.outArmed THEN @ ELSE TRUE]
    ELSE LET t == [s EXCEPT !.out = 0, !.outArmed = FALSE]
         IN  IF t.closeAfter THEN CloseAfterResponse(t) ELSE t

\* flush: sends what the kernel takes; a full send buffer arms EPOLLOUT (armOut),
\* one that drained disarms it (disarmOut).
Flush(s) ==
    IF s.lingering THEN s
    ELSE IF SendFails(s) THEN CloseConn(s)
    ELSE IF s.out > 0 /\ s.full
    THEN [s EXCEPT !.outArmed = TRUE, !.deadline = IF s.outArmed THEN @ ELSE TRUE]
    ELSE LET t == [s EXCEPT !.out = 0, !.outArmed = FALSE,
                            !.deadline = IF s.outArmed THEN ~(s.inFlight > 0 \/ s.dispatching)
                                         ELSE @]
         IN  IF t.closeAfter THEN CloseAfterResponse(t) ELSE t

\* The units the request at the head of the buffer takes; 0 if it is incomplete.
RequestUnits(buf) ==
    LET ends == {i \in 1..Len(buf) : buf[i] \notin {"half", "more"}}
    IN  IF ends = {} THEN 0 ELSE CHOOSE i \in ends : \A j \in ends : i <= j

\* serveH1: at most one request is dispatched; a bad one is answered and ends the
\* connection; an incomplete one waits for input.  Too many responses held back
\* end the connection.
ServeH1(s) ==
    LET n == RequestUnits(s.buf)
    IN  IF s.dispatching \/ s.buf = <<>> THEN s
        ELSE IF s.out > MaxPending THEN [s EXCEPT !.closeAfter = TRUE]
        ELSE IF n = 0 THEN s
        ELSE IF Head(s.buf) = "bad"
        THEN [s EXCEPT !.out = @ + 1, !.closeAfter = TRUE]
        ELSE [s EXCEPT !.buf = SubSeq(@, n + 1, Len(@)), !.dispatching = TRUE,
                       !.inFlight = @ + 1, !.handler = "running", !.dispGen = s.gen,
                       !.dispClose = (Head(s.buf) = "bye" \/ ShuttingDown),
                       !.taken = FALSE, !.hijacked = FALSE]

\* The end of serviceBuffered, when the flush left the connection alive.
Settle(s, closed, peerClosed) ==
    IF closed THEN CloseConn(s)
    ELSE IF ~s.fd THEN s
    ELSE IF s.inFlight > 0 \/ s.dispatching THEN [s EXCEPT !.deadline = FALSE]
    ELSE IF peerClosed /\ ~s.outArmed /\ s.out = 0 THEN CloseConn(s)
    ELSE LET t == [s EXCEPT !.closeAfter = @ \/ peerClosed]
         IN  IF t.buf = <<>> /\ ~t.outArmed /\ t.out = 0
             THEN [t EXCEPT !.deadline = TRUE] ELSE t

\* serviceBuffered: serves what is buffered and sends what there is to send.
ServiceBuffered(s, closed, peerClosed) ==
    LET t == ServeH1(s)
        wait == IF s.buf # <<>> THEN t.dispatching /\ ~t.closeAfter
                ELSE t.dispatching \/ t.out = 0
    IN  IF wait
        THEN Settle([t EXCEPT !.flushQueued = @ \/ (s.buf # <<>> /\ t.out > 0)],
                    closed, peerClosed)
        ELSE IF Flushes(t) THEN Settle(Flush(t), closed, peerClosed) ELSE Flush(t)

\* readOnce: recv until a short read, then serviceBuffered.  A read that happens to
\* fill the space offered (exact) is followed by another, which sees the end of
\* the input.  A buffer that is full and does not empty ends the connection.
ReadOnce(s, peerClosed, exact) ==
    IF s.lingering THEN DiscardLingering(s)
    ELSE IF s.dispatching
    THEN [s EXCEPT !.readPending = TRUE]
    ELSE LET room == BufCap - Len(s.buf)
             n    == IF Len(s.kin) < room THEN Len(s.kin) ELSE room
             bufferFull == Len(s.kin) >= room
             read == [s EXCEPT !.readPending = FALSE,
                               !.buf = @ \o SubSeq(s.kin, 1, n),
                               !.kin = SubSeq(@, n + 1, Len(@)),
                               !.speaksH1 = @ \/ n > 0,
                               !.deadline = @ \/ (s.buf = <<>> /\ n > 0)]
             ended == ~bufferFull /\ (n = 0 \/ exact)
             closed == ended /\ s.peer = "fin"
             t == ServiceBuffered(read, closed, peerClosed)
         IN  IF ended /\ s.peer = "reset" THEN CloseConn(s)
             ELSE IF ~bufferFull \/ closed \/ ~t.fd \/ t.lingering THEN t
             ELSE IF t.dispatching THEN [t EXCEPT !.readPending = TRUE]
             ELSE CloseConn(t)

\* Mutant: readPending is not looked at.
ResumeBuffered(s, exact) == ServiceBuffered(s, FALSE, FALSE)

\* resumeConn: an edge that came while the handler ran is honoured by a read.
ResumeConn(s, exact) ==
    IF s.readPending THEN ReadOnce(s, FALSE, exact) ELSE ServiceBuffered(s, FALSE, FALSE)

\* Mutant: the pin is not looked at.
PutAlways(s) == Put(s)

\* putTakenOver: a slot whose hijacked socket is still open is parked; it leaves
\* activeConns but not yet to the free list.
PutTakenOver(s) ==
    IF s.pinned THEN [s EXCEPT !.counted = @ - 1, !.parked = TRUE] ELSE Put(s)

\* Mutant: the per-IP share of a hijacked socket is not given back.
CloseTrackedKeepsShare(s) ==
    IF s.tracked THEN [s EXCEPT !.tracked = FALSE, !.unpin = TRUE] ELSE s

\* The owner's Close of a hijacked socket: the share of the per-IP limiter and
\* of activeConns go back, and the loop is asked to unpin the slot.
CloseTracked(s) ==
    IF s.tracked THEN [s EXCEPT !.tracked = FALSE, !.ip = @ - 1, !.unpin = TRUE] ELSE s

\* Mutant: inFlight is not counted down.
FinishKeepsInFlight(s, exact) ==
    LET t == [s EXCEPT !.handler = "none"]
    IN  IF s.gen # s.dispGen \/ ~s.fd THEN t
        ELSE ResumeConn([t EXCEPT !.dispatching = FALSE, !.out = @ + 1,
                                  !.flushQueued = TRUE], exact)

\* Mutant: the slot of a connection closed under its handler is not put back.
FinishLeaks(s, exact) ==
    LET t == [s EXCEPT !.handler = "none", !.inFlight = @ - 1]
    IN  IF s.taken THEN PutTakenOver([t EXCEPT !.dispatching = FALSE])
        ELSE IF s.gen # s.dispGen \/ ~s.fd THEN t
        ELSE ResumeConn([t EXCEPT !.dispatching = FALSE, !.out = @ + 1,
                                  !.flushQueued = TRUE], exact)

\* finishH1Dispatch.
FinishH1(s, exact) ==
    LET t == [s EXCEPT !.handler = "none", !.inFlight = @ - 1]
        answered == [t EXCEPT !.dispatching = FALSE, !.out = @ + 1, !.flushQueued = TRUE]
    IN  IF s.taken
        THEN PutTakenOver(LET u == [t EXCEPT !.dispatching = FALSE]
                          IN  IF s.hijacked THEN u ELSE CloseTracked(u))
        ELSE IF s.gen # s.dispGen \/ ~s.fd
        THEN IF ~t.fd /\ t.inFlight = 0 THEN Put(t) ELSE t
        ELSE IF s.dispClose \/ ShuttingDown
        THEN [answered EXCEPT !.closeAfter = TRUE]
        ELSE ResumeConn(answered, exact)

--------------------------------------------------------------------------------
(* Accepting.                                                                   *)

\* acceptLoop, for a connection the limits admit.
Accept(c) ==
    /\ shut = "no"
    /\ conn[c].free > 0
    /\ conn[c].gen < MaxGen
    /\ conn' = [conn EXCEPT ![c] = [Blank EXCEPT !.fd = TRUE, !.gen = conn[c].gen,
                                      !.deadline = TRUE, !.free = conn[c].free - 1,
                                      !.counted = conn[c].counted + 1, !.ip = 1,
                                      !.peer = "open"]]
    /\ UNCHANGED shut

--------------------------------------------------------------------------------
(* The loop.                                                                    *)

\* Mutant: EPOLLRDHUP alone does not lead to a read.
ServiceIgnoresHup(c) ==
    LET s == [conn[c] EXCEPT !.edge = FALSE]
        writable == s.outArmed /\ ~s.full
        t == IF writable THEN Flush(s) ELSE s
    IN  /\ s.fd /\ conn[c].edge /\ ~s.flushQueued
        /\ \E exact \in BOOLEAN :
             conn' = [conn EXCEPT ![c] =
                        IF s.kin # <<>> /\ (writable => Flushes(s))
                        THEN ReadOnce(t, s.peer # "open", exact) ELSE t]
        /\ UNCHANGED shut

\* serviceConn: an edge of the connection.  A reset may be reported without
\* EPOLLIN.  flushPending ran since the last event of the connection.
ServiceConn(c) ==
    LET s == [conn[c] EXCEPT !.edge = FALSE]
        writable == s.outArmed /\ ~s.full
        readable == s.kin # <<>> \/ s.peer # "open"
        t == IF writable THEN Flush(s) ELSE s
    IN  /\ s.fd /\ conn[c].edge /\ ~s.flushQueued
        /\ \/ /\ s.peer = "reset"
              /\ conn' = [conn EXCEPT ![c] = CloseConn(s)]
           \/ \E exact \in BOOLEAN :
                conn' = [conn EXCEPT ![c] =
                           IF readable /\ (writable => Flushes(s))
                           THEN ReadOnce(t, s.peer # "open", exact) ELSE t]
        /\ UNCHANGED shut

\* drainTasks runs the completion of c's handler.
FinishDispatch(c) ==
    /\ conn[c].handler = "done"
    /\ \E exact \in BOOLEAN : conn' = [conn EXCEPT ![c] = FinishH1(conn[c], exact)]
    /\ UNCHANGED shut

\* flushPending, for one connection of flushList.
FlushPending(c) ==
    LET s == [conn[c] EXCEPT !.flushQueued = FALSE]
        t == Flush(s)
    IN  /\ conn[c].flushQueued
        /\ conn' = [conn EXCEPT ![c] =
                      IF ~s.fd THEN s
                      ELSE IF /\ Flushes(s)
                              /\ ~t.closeAfter /\ t.buf = <<>> /\ t.inFlight = 0
                              /\ ~t.dispatching /\ ~t.outArmed /\ t.out = 0
                      THEN [t EXCEPT !.deadline = TRUE] ELSE t]
        /\ UNCHANGED shut

\* sweepDeadlines: the deadline of c passed.
Sweep(c) ==
    /\ conn[c].fd /\ conn[c].deadline /\ ~conn[c].flushQueued
    /\ conn' = [conn EXCEPT ![c] = CloseConn(conn[c])]
    /\ UNCHANGED shut

\* attachH1Async's task: handoffH1Conn takes the socket out of the loop for the
\* handler; trackHandoffConn may refuse it, which closes the socket.
Handoff(c) ==
    LET s == conn[c]
        detached == [s EXCEPT !.fd = FALSE, !.buf = <<>>, !.out = 0, !.kin = <<>>,
                              !.sent = 0, !.inHead = FALSE, !.peer = "gone",
                              !.edge = FALSE, !.full = FALSE]
    IN  /\ s.handler = "running" /\ ~s.taken
        /\ s.fd /\ s.gen = s.dispGen
        /\ \/ conn' = [conn EXCEPT ![c] = detached]
           \/ \E hijacked \in BOOLEAN :
                conn' = [conn EXCEPT ![c] = [detached EXCEPT !.taken = TRUE,
                            !.hijacked = hijacked, !.tracked = TRUE, !.pinned = TRUE]]
        /\ UNCHANGED shut

\* Mutant: the slot is recycled whether or not it is parked.
UnpinRecycles(c) ==
    /\ conn[c].unpin /\ shut # "exited"
    /\ conn' = [conn EXCEPT ![c].unpin = FALSE, ![c].pinned = FALSE,
                            ![c].parked = FALSE, ![c].free = @ + 1]
    /\ UNCHANGED shut

\* runTakeoverUnpins, for one slot: unpinTakenOver recycles a parked one.
UnpinTakenOver(c) ==
    LET s == [conn[c] EXCEPT !.unpin = FALSE, !.pinned = FALSE]
    IN  /\ conn[c].unpin /\ shut # "exited"
        /\ conn' = [conn EXCEPT ![c] =
                      IF s.parked THEN [s EXCEPT !.parked = FALSE, !.free = @ + 1] ELSE s]
        /\ UNCHANGED shut

\* idle.
Idle(s) ==
    /\ s.fd /\ s.inFlight = 0 /\ ~s.dispatching
    /\ s.buf = <<>> /\ ~s.outArmed /\ s.out = 0

\* drainForShutdown, for one connection.
DrainForShutdown(c) ==
    LET s == conn[c]
    IN  /\ shut \in {"draining", "expired"}
        /\ s.fd
        /\ \/ /\ s.lingering
              /\ conn' = [conn EXCEPT ![c] = CloseConn(s)]
           \/ /\ ~s.lingering /\ shut = "expired" /\ s.inFlight = 0 /\ ~s.dispatching
              /\ conn' = [conn EXCEPT ![c] = CloseConn(s)]
           \/ /\ ~s.lingering /\ shut = "draining" /\ Idle(s)
              /\ conn' = [conn EXCEPT ![c] = CloseAfterResponse(s)]
        /\ UNCHANGED shut

\* loop returns once no connection and no slot is held.
Exit ==
    /\ shut \in {"draining", "expired"}
    /\ \A c \in Slots : ~conn[c].fd /\ (conn[c].free > 0 \/ conn[c].parked)
    /\ shut' = "exited"
    /\ UNCHANGED conn

--------------------------------------------------------------------------------
(* Handlers, Shutdown, and the owners of hijacked sockets.                      *)

\* The handler returns and its completion is pushed.
HandlerEnds(c) ==
    /\ conn[c].handler = "running"
    /\ conn' = [conn EXCEPT ![c].handler = "done"]
    /\ UNCHANGED shut

\* trackedHandoffConn.Close, by the handler, by whoever it gave the socket to, or
\* by closeTrackedHandoffConns.
CloseHandoff(c) ==
    /\ conn[c].tracked
    /\ conn' = [conn EXCEPT ![c] = CloseTracked(conn[c])]
    /\ UNCHANGED shut

\* Shutdown closes done; if its context ends first, cancelInFlight tells the
\* worker to stop waiting.
BeginShutdown == shut = "no" /\ shut' = "draining" /\ UNCHANGED conn
ExpireShutdown == shut = "draining" /\ shut' = "expired" /\ UNCHANGED conn

--------------------------------------------------------------------------------
(* The peer and the kernel.                                                     *)

\* A peer sends the next unit; parts of a head come in their order.
PeerSends(c) ==
    LET s == conn[c]
    IN  /\ s.peer = "open" /\ s.sent < MaxUnits
        /\ \E u \in Units :
             /\ s.inHead <=> u \in {"more", "rest"}
             /\ conn' = [conn EXCEPT ![c].kin = Append(@, u), ![c].edge = TRUE,
                                     ![c].sent = @ + 1, ![c].inHead = u \in {"half", "more"}]
        /\ UNCHANGED shut

PeerEnds(c) ==
    /\ conn[c].peer \in {"open", "fin"}
    /\ \E p \in {"fin", "reset"} \ {conn[c].peer} :
         conn' = [conn EXCEPT ![c].peer = p, ![c].edge = TRUE]
    /\ UNCHANGED shut

\* The send buffer fills because the peer does not read, and drains.
PeerStalls(c) ==
    /\ conn[c].fd /\ ~conn[c].full
    /\ conn' = [conn EXCEPT ![c].full = TRUE]
    /\ UNCHANGED shut

PeerReads(c) ==
    /\ conn[c].fd /\ conn[c].full
    /\ conn' = [conn EXCEPT ![c].full = FALSE, ![c].edge = @ \/ conn[c].outArmed]
    /\ UNCHANGED shut

Next ==
    \/ \E c \in Slots :
          \/ Accept(c) \/ ServiceConn(c) \/ FinishDispatch(c) \/ FlushPending(c)
          \/ Sweep(c) \/ Handoff(c) \/ UnpinTakenOver(c) \/ DrainForShutdown(c)
          \/ HandlerEnds(c) \/ CloseHandoff(c)
          \/ PeerSends(c) \/ PeerEnds(c) \/ PeerStalls(c) \/ PeerReads(c)
    \/ BeginShutdown \/ ExpireShutdown \/ Exit

Spec == Init /\ [][Next]_vars

--------------------------------------------------------------------------------
(* Properties.                                                                  *)

\* Pool accounting: a slot is on the free list at most once, and it holds exactly
\* one share of activeConns from get until put or until it is parked, whichever
\* of closeConn, finishH1Dispatch and unpinTakenOver comes last.
SlotAccounting ==
    \A c \in Slots :
        /\ conn[c].free \in {0, 1}
        /\ conn[c].counted = IF conn[c].free = 1 \/ conn[c].parked THEN 0 ELSE 1

\* A slot on the free list is used by nobody: no socket, no handler and no
\* completion still to come, no hijacked socket whose owner reads the request,
\* and no unpin on its way.
FreeSlotIsUnused ==
    \A c \in Slots : conn[c].free > 0 =>
        /\ ~conn[c].fd /\ conn[c].handler = "none" /\ conn[c].inFlight = 0
        /\ ~conn[c].tracked /\ ~conn[c].unpin

\* Per-IP accounting: a connection holds one share while its socket is open, in
\* the loop or hijacked, and gives it back exactly once; a refused takeover keeps
\* it until its handler is done.
IPShareHeldOnce ==
    \A c \in Slots :
        /\ conn[c].ip \in {0, 1}
        /\ conn[c].fd \/ conn[c].tracked => conn[c].ip = 1
        /\ conn[c].ip = 1 => \/ conn[c].fd \/ conn[c].tracked
                             \/ conn[c].inFlight > 0 /\ ~conn[c].taken

\* Edge-triggered input is never stranded: what the kernel holds unread has an
\* edge on its way, or readOnce put it off until the running handler is done,
\* unless the connection is closing.
InputNotStranded ==
    \A c \in Slots :
        /\ conn[c].fd /\ conn[c].kin # <<>> /\ ~conn[c].edge
        /\ ~conn[c].lingering /\ ~conn[c].closeAfter
        => conn[c].dispatching /\ conn[c].readPending

\* A connection with nothing to do has a deadline (IdleTimeout, or the time of a
\* lingering close), so that sweepDeadlines ends it.
IdleDeadlineArmed ==
    \A c \in Slots :
        conn[c].lingering \/ (Idle(conn[c]) /\ ~conn[c].flushQueued) => conn[c].deadline

\* A connection whose peer is gone is closed, even when EPOLLRDHUP came with the
\* last request and its end is never read.  (A half-closed peer that does not read
\* its response can hold the connection: see WriteDeadlineArmed.)
GonePeersClosed ==
    \A c \in Slots : conn[c].peer \in {"fin", "reset"} =>
        ~conn[c].fd \/ (conn[c].peer = "fin" /\ conn[c].outArmed /\ conn[c].full)

\* The loop has exited if Shutdown began.
ShutdownExited == ShuttingDown => shut = "exited"

\* ReadHeaderTimeout as src/core/server.go:46 documents it: while a request head is
\* incomplete and no output waits, a deadline bounds the wait for the rest.
HeaderDeadlineArmed ==
    \A c \in Slots :
        /\ conn[c].fd /\ ~conn[c].dispatching /\ conn[c].buf # <<>>
        /\ ~conn[c].outArmed /\ ~conn[c].flushQueued
        => conn[c].deadline

\* WriteTimeout as src/core/server.go:42 documents it: while a response waits for
\* room in the send buffer and no handler runs, a deadline bounds the wait.
WriteDeadlineArmed ==
    \A c \in Slots :
        conn[c].fd /\ conn[c].outArmed /\ ~conn[c].dispatching => conn[c].deadline

================================================================================
