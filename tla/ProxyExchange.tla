----------------------------- MODULE ProxyExchange -----------------------------
(* Reverse proxying inside a worker's event loop: the exchange of a proxied       *)
(* request (epoll_proxy_exchange, epoll_proxy_be, epoll_proxy_h2 and             *)
(* epoll_proxy_tunnel in src/core) and the pool of backend connections that       *)
(* carries it (fp_conn.go, fp_beloop.go, fp_h1.go).                              *)
(*                                                                               *)
(* The worker is one thread: each action is one event and every callback that     *)
(* runs before the event's handler returns.  A callback may come back into the    *)
(* exchange it was called from, so every handler is an operator from a state p to *)
(* the state it leaves.  What the sockets do meanwhile is the record io.  A unit   *)
(* of data is a response head, a body chunk or a piece of tunnelled data.         *)
EXTENDS Integers, FiniteSetsExt, SequencesExt

CONSTANTS
    Conns,          \* client connections
    Reqs,           \* requests, numbered in the order a connection brings them
    ConnOf,         \* the connection of a request
    Backends,       \* the backends of the domain
    BConns,         \* backend connections: fpMaxBackendConns of them
    MaxRetries,
    MaxIdle,        \* idle connections kept per backend
    MaxRequests,    \* request slots
    High, Low,      \* proxyStreamHighWater, proxyStreamLowWater
    ConnBudget, ServerBudget,   \* proxyH2ConnBufferBudget, proxyH2ServerBufferBudget
    MaxChunks,      \* bound: chunks of a response, pieces of tunnelled data
    Mixes           \* what may happen: the HTTP/2 connections, the requests that come,
                    \* those that may be replayed, those that keep the connection, and
                    \* the events

VARIABLES p, mix

vars == <<p, mix>>

None == 0
Dead == -1          \* a pointer to a backend connection that was closed
Exchanges == 1..Cardinality(Reqs)
Events == {"reuse", "stream", "eof", "tunnel", "slow", "cut", "gone", "error", "timeout", "down",
           "ejected", "broken", "hit", "hook", "late", "reset"}

\* pxGet's proxyExchange{}: wrote, replay, retried, done and bc are those of Exchange.
Blank == [used |-> FALSE, c |-> None, gen |-> 0, h2 |-> FALSE, r |-> None, b |-> None,
          attempt |-> 0, tried |-> {}, slot |-> FALSE, kept |-> 0, refused |-> FALSE,
          out |-> FALSE, wrote |-> FALSE, retried |-> FALSE, done |-> FALSE, err |-> FALSE,
          bc |-> None, res |-> "none"]

Closed == [st |-> "closed", b |-> None, cur |-> None, reused |-> FALSE, got |-> FALSE,
           paused |-> FALSE, tun |-> None, wbuf |-> 0, phase |-> "head", stream |-> FALSE,
           left |-> 0]

NewClient == [open |-> TRUE, gen |-> 0, ex |-> None, inFlight |-> 0, unsent |-> 0,
              paused |-> None, tun |-> None, tunPaused |-> FALSE, pending |-> FALSE,
              closeAfter |-> FALSE, buffered |-> 0, left |-> MaxChunks + 1]

Init ==
    /\ mix \in Mixes
    /\ p = [px |-> [x \in Exchanges |-> Blank], free |-> <<>>, made |-> 0,
            bc |-> [k \in BConns |-> Closed], idle |-> [b \in Backends |-> <<>>],
            active |-> [b \in Backends |-> 0], held |-> 0, srv |-> 0,
            cl |-> [c \in Conns |-> NewClient],
            rq |-> [r \in Reqs |-> [st |-> IF r \in mix.reqs THEN "new" ELSE "over", sent |-> 0, ans |-> 0]]]

May(event) == event \in mix.may
H2(c) == c \in mix.h2
Replayable(r) == r \in mix.replay
Keeps(r) == r \in mix.keep

--------------------------------------------------------------------------------
(* The free list, and what an exchange holds.                                   *)

\* discardH2Buffer.
Discard(q, x) ==
    LET e == q.px[x]
    IN  [q EXCEPT !.px[x].kept = 0, !.px[x].refused = FALSE, !.srv = @ - e.kept,
                  !.cl = IF e.c = None THEN @ ELSE [@ EXCEPT ![e.c].buffered = @ - e.kept]]

\* Mutant: the admission is not released.
PutKeepsSlot(q, x) == LET d == Discard(q, x) IN [d EXCEPT !.px[x] = Blank, !.free = <<x>> \o @]

\* pxPut.
Put(q, x) ==
    LET d == Discard(q, x)
    IN  [d EXCEPT !.held = @ - (IF q.px[x].slot THEN 1 ELSE 0), !.px[x] = Blank, !.free = <<x>> \o @]

\* pxGet.
Get(q) == IF q.free # <<>> THEN Head(q.free) ELSE q.made + 1
Got(q, x) ==
    [q EXCEPT !.px[x] = [Blank EXCEPT !.used = TRUE],
              !.free = IF @ = <<>> THEN @ ELSE Tail(@),
              !.made = IF q.free = <<>> THEN @ + 1 ELSE @]

\* reserveH2Buffer of one unit: the connection's budget, then the server's.
CanReserve(q, x) ==
    q.cl[q.px[x].c].buffered + 1 <= ConnBudget /\ q.srv + 1 <= ServerBudget
Reserve(q, x) == [q EXCEPT !.px[x].kept = @ + 1, !.srv = @ + 1, !.cl[q.px[x].c].buffered = @ + 1]

\* px.b.ActiveConns.Add(-1).
Leave(q, x) ==
    IF q.px[x].b = None THEN q ELSE [q EXCEPT !.active[q.px[x].b] = @ - 1]
NoBackend(q, x) == [q EXCEPT !.px[x].b = None]

--------------------------------------------------------------------------------
(* Backend connections: startExchange, newConn, assign, attach, closeConn.       *)

\* closeConn up to its exchange: the socket, the idle list.  Clients that point to it
\* are left as they are.
Kill(q, k) ==
    IF q.bc[k].st = "closed" THEN q
    ELSE [q EXCEPT !.bc[k] = Closed, !.idle[q.bc[k].b] = Remove(@, k),
                   !.cl = [c \in Conns |-> [@[c] EXCEPT !.paused = IF @ = k THEN Dead ELSE @,
                                                       !.tun = IF @ = k THEN Dead ELSE @]]]

\* finish, without the callback.
Finish(q, x) == [q EXCEPT !.px[x].done = TRUE, !.px[x].err = TRUE]

\* The bytes of the request that leave on a connection.
Wrote(q, x) ==
    [q EXCEPT !.px[x].wrote = TRUE, !.rq[q.px[x].r].sent = @ + 1]

\* Mutant: a request that was written is sent again whatever its method.
MayResendAny(q, x, k) == q.bc[k].reused /\ ~q.bc[k].got /\ ~q.px[x].retried

\* failOrRetry's condition, but for the timeout.
MayResend(q, x, k) ==
    /\ q.bc[k].reused /\ ~q.bc[k].got /\ ~q.px[x].retried
    /\ ~q.px[x].wrote \/ Replayable(q.px[x].r)

\* attach: the request is written, blocked, or meets an error (before or after some
\* bytes went out).  The error closes the connection; failOrRetry starts again or
\* finishes.
Attach(q, x, k, io) ==
    LET a == [q EXCEPT !.bc[k].got = FALSE, !.bc[k].phase = "head", !.bc[k].stream = FALSE]
        w == IF io.wrote THEN [Wrote(a, x) EXCEPT !.bc[k].wbuf = 0] ELSE a
    IN  IF k \notin io.broken
        THEN IF io.wrote THEN w ELSE [a EXCEPT !.bc[k].wbuf = 1]
        ELSE IF MayResend(w, x, k) THEN [Kill(w, k) EXCEPT !.px[x].retried = TRUE, !.px[x].res = "again"]
        ELSE Finish(Kill(w, k), x)

\* newConn and dialBackend: too many connections, or a dial that fails, finish it.
Dial(q, x, io) ==
    LET b == q.px[x].b
        none == {k \in BConns : q.bc[k].st = "closed"}
    IN  IF none = {} \/ io.be[b] = "down" THEN Finish(q, x)
        ELSE [q EXCEPT !.bc[Min(none)] = [Closed EXCEPT !.st = "connecting", !.b = b, !.cur = x],
                       !.px[x].bc = Min(none)]

\* startExchange, once.  An idle connection past its deadline is closed here; that is
\* Sweep before it.
Launch(q, x, b, io) ==
    IF q.idle[b] = <<>> THEN Dial([q EXCEPT !.px[x].b = b], x, io)
    ELSE LET k == Last(q.idle[b])
         IN  Attach([q EXCEPT !.idle[b] = Front(@), !.bc[k].reused = TRUE, !.bc[k].cur = x,
                              !.px[x].bc = k], x, k, io)

\* startExchange, and the second one of failOrRetry.  b is the backend of the exchange's
\* pool key, which an exchange whose client left still has.
Relaunch(q, x, b, io) ==
    IF q.px[x].res = "again" THEN Launch([q EXCEPT !.px[x].res = "none"], x, b, io) ELSE q
StartExchange(q, x, b, io) ==
    [Relaunch(Launch(q, x, b, io), x, b, io) EXCEPT !.px[x].b = q.px[x].b]

--------------------------------------------------------------------------------
(* Attempts: proxyAttempt, proxyStartBackend, proxyNextAttempt.                  *)

\* pickRetryBackend: the balancer's choice if it is untried, else the first.
Untried(q, x, io) == {b \in Backends \ q.px[x].tried : io.be[b] # "ejected"}
Pick(q, x, io) == IF io.first \in Untried(q, x, io) THEN io.first ELSE Min(Untried(q, x, io))

\* proxyStartBackend; Started is what it makes of startExchange's result.
Started(q, x) ==
    IF q.px[x].done THEN [Leave(q, x) EXCEPT !.px[x].res = "failed"] ELSE [q EXCEPT !.px[x].res = "pending"]
StartBackend(q, x, io) ==
    LET b == Pick(q, x, io)
        a == [Discard(q, x) EXCEPT !.px[x].tried = @ \cup {b}, !.px[x].b = b]
    IN  IF Untried(q, x, io) = {} THEN [q EXCEPT !.px[x].res = "refused"]
        ELSE IF ~io.hook THEN [NoBackend(a, x) EXCEPT !.px[x].res = "refused"]
        ELSE Started(StartExchange([a EXCEPT !.px[x].wrote = FALSE, !.px[x].done = FALSE, !.px[x].err = FALSE,
                                             !.px[x].retried = FALSE, !.active[b] = @ + 1], x, b, io), x)

\* proxyNextAttempt, with proxyMayRetry.
NextAttempt(q, x) ==
    IF \/ q.px[x].attempt >= Min({MaxRetries, Cardinality(Backends) - 1})
       \/ q.px[x].wrote /\ ~Replayable(q.px[x].r)
    THEN [q EXCEPT !.px[x].res = "refused"]
    ELSE [q EXCEPT !.px[x].attempt = @ + 1, !.px[x].res = "none"]

\* proxyAttempt's loop, with proxyRecordFailure between the rounds.
AfterFailure(q, x) == IF q.px[x].res = "failed" THEN NextAttempt(NoBackend(q, x), x) ELSE q
Attempt(q, x, io) ==
    FoldLeft(LAMBDA a, i : IF a.px[x].res \in {"pending", "refused"} THEN a
                           ELSE AfterFailure(StartBackend(a, x, io), x),
             q, [i \in 1..(MaxRetries + 1) |-> i])

\* proxyRetry.
AttemptUnlessRefused(q, x, io) == IF q.px[x].res = "refused" THEN q ELSE Attempt(q, x, io)
Retry(q, x, io) == AttemptUnlessRefused(NextAttempt(q, x), x, io)

--------------------------------------------------------------------------------
(* The client's side: closeConn, flush, abortProxyExchange.                      *)

\* closeConn of a backend connection whose exchange has lost its client: failOrRetry,
\* and proxyRetryOrFail with nobody to answer.
PutIfDone(q, x) == IF q.px[x].done THEN Put(q, x) ELSE q
CloseOrphaned(q, k, io) ==
    LET x == q.bc[k].cur
    IN  IF ~MayResend(q, x, k) THEN Put(Leave(Kill(q, k), x), x)
        ELSE PutIfDone(StartExchange([Kill(q, k) EXCEPT !.px[x].retried = TRUE], x, q.bc[k].b, io), x)

\* resumeBackendRead, up to the read.
Resumed(q, k) == IF k = Dead THEN q ELSE [q EXCEPT !.bc[k].paused = FALSE]
Unpause(q, c) ==
    IF q.cl[c].paused = None THEN q ELSE [Resumed(q, q.cl[c].paused) EXCEPT !.cl[c].paused = None]

\* The read that resumeBackendRead does at once, when the client's exchange is gone:
\* streamResponseChunk, or the end of the response, closes the connection and frees
\* the exchange.
ReadOrphaned(q, k, io) ==
    IF io.late /\ k # Dead /\ q.bc[k].cur # None
    THEN CloseOrphaned([q EXCEPT !.bc[k].got = TRUE], k, io) ELSE q

\* abortProxyExchange.  Detached: the client lets go and the paused backend is read;
\* then the exchange's connection is closed, or the exchange is free.
Detached(q, c, io) ==
    LET k == q.cl[c].paused
        a == [q EXCEPT !.cl[c].ex = None, !.cl[c].inFlight = @ - 1, !.px[q.cl[c].ex].c = None]
    IN  IF k = None THEN a ELSE ReadOrphaned(Unpause(a, c), k, io)
Abandon(q, x, k, io) == IF k # None /\ q.bc[k].cur = x THEN CloseOrphaned(q, k, io) ELSE Put(q, x)
LeaveFor(q, x, io) == Abandon(NoBackend(Leave(q, x), x), x, q.px[x].bc, io)
Abort(q, c, io) == IF q.cl[c].ex = None THEN q ELSE LeaveFor(Detached(q, c, io), q.cl[c].ex, io)

\* closeTunnelFromClient.
CutTunnel(q, c) ==
    IF q.cl[c].tun = None THEN q
    ELSE [(IF q.cl[c].tun = Dead THEN q ELSE Kill(q, q.cl[c].tun)) EXCEPT !.cl[c].tun = None, !.cl[c].paused = None, !.cl[c].tunPaused = FALSE]

\* closeConn of the client: its requests are over.
CloseClient(q, c, io) ==
    IF ~q.cl[c].open THEN q
    ELSE LET a == CutTunnel(Abort([q EXCEPT !.cl[c].open = FALSE, !.cl[c].gen = @ + 1], c, io), c)
         IN  [a EXCEPT !.cl[c].unsent = 0, !.cl[c].closeAfter = FALSE, !.cl[c].pending = FALSE,
                       !.rq = [r \in Reqs |-> IF ConnOf[r] = c /\ @[r].st = "open"
                                            THEN [@[r] EXCEPT !.st = "over"] ELSE @[r]]]

\* flush: everything goes out, nothing does, or the socket fails.
Written(q, c, room) ==
    IF room = "all" THEN Unpause([q EXCEPT !.cl[c].unsent = 0], c)
    ELSE IF room = "none" /\ q.cl[c].unsent <= Low THEN Unpause(q, c) ELSE q
Flushed(q, c, room, io) ==
    IF room = "error" \/ (room = "all" /\ q.cl[c].closeAfter) THEN CloseClient(q, c, io) ELSE q
Flush(q, c, io) ==
    LET room == IF q.cl[c].unsent = 0 THEN "all" ELSE io.room
    IN  IF q.cl[c].open THEN Flushed(Written(q, c, room), c, room, io) ELSE q

\* Bytes of a response to request r: the first ones commit the client to it.
Buffer(q, c) == [q EXCEPT !.cl[c].unsent = @ + 1]
Answer(q, c, r) == [Buffer(q, c) EXCEPT !.rq[r].ans = @ + 1]

--------------------------------------------------------------------------------
(* beginProxy and beginProxyH2.                                                  *)

\* The connection's next request; an HTTP/2 connection has several at once.
Waiting(q, c) == {r \in Reqs : ConnOf[r] = c /\ q.rq[r].st = "new"}
Ready(q, c) == q.cl[c].open /\ ~q.cl[c].closeAfter /\ q.cl[c].tun = None /\ Waiting(q, c) # {}
Idle(q, c) == q.cl[c].inFlight = 0

\* proxyFailNow, serveProxyCacheHit: the answer is in the write buffer, flushed next.
Served(q, c, r, io) ==
    LET a == [q EXCEPT !.cl[c].inFlight = @ - 1, !.rq[r].st = "over"]
    IN  IF H2(c) THEN [a EXCEPT !.rq[r].ans = @ + 1]
        ELSE Flush([Answer(a, c, r) EXCEPT !.cl[c].closeAfter = ~Keeps(r)], c, io)

Admitted(q, c, r) ==
    LET x == Get(q)
        e == [Blank EXCEPT !.used = TRUE, !.slot = TRUE, !.c = c, !.gen = q.cl[c].gen, !.h2 = H2(c), !.r = r]
    IN  [Got(q, x) EXCEPT !.px[x] = e, !.held = @ + 1]
Begun(q, x, c, r, io) ==
    IF ~q.px[x].used THEN Served(q, c, r, io)
    ELSE IF H2(c) THEN q ELSE [q EXCEPT !.cl[c].ex = x]
PutIfRefused(q, x) == IF q.px[x].res = "refused" THEN Put(q, x) ELSE q
BeginProxy(q, c, io) ==
    LET r == Min(Waiting(q, c))
        d == [q EXCEPT !.cl[c].inFlight = @ + 1, !.rq[r].st = "open"]
    IN  Begun(IF q.held >= MaxRequests \/ io.hit THEN d
              ELSE PutIfRefused(Attempt(Admitted(d, c, r), Get(q), io), Get(q)), Get(q), c, r, io)

--------------------------------------------------------------------------------
(* The end of an exchange: exchangeDone and what it calls.                       *)

\* proxyResume: a request that arrived meanwhile is begun before the caller goes on.
BeginIfReady(q, c, io) == IF Ready(q, c) /\ Idle(q, c) THEN BeginProxy(q, c, io) ELSE q
ProxyResume(q, c, io) == BeginIfReady(Flush(q, c, io), c, io)

\* The client is free again.
Release(q, x) ==
    LET e == q.px[x]
    IN  [q EXCEPT !.cl[e.c].ex = None, !.cl[e.c].inFlight = @ - 1, !.rq[e.r].st = "over",
                  !.cl[e.c].closeAfter = @ \/ ~Keeps(e.r)]

\* proxyFinishClient.
FinishClient(q, x, io) ==
    LET e == q.px[x]
    IN  IF e.c = None THEN Put(q, x)
        ELSE ProxyResume(Put(Release(Answer(q, e.c, e.r), x), x), e.c, io)

\* finishProxyStream and finishH2Dispatch: a connection that was closed meanwhile is
\* not answered, but its structure is free once nothing is in flight.
FinishStream(q, x) ==
    LET e == q.px[x]
        d == Put(q, x)
    IN  [d EXCEPT !.cl[e.c].inFlight = @ - 1, !.rq[e.r].st = "over",
                  !.rq[e.r].ans = IF q.cl[e.c].gen = e.gen THEN @ + 1 ELSE @]

\* proxyRefuse, and the delivery of a buffered response.
Deliver(q, x, io) == IF q.px[x].h2 THEN FinishStream(q, x) ELSE FinishClient(q, x, io)

\* proxyAbort.
ProxyAbort(q, x, io) ==
    LET e == q.px[x]
    IN  Put(Flush([Release(q, x) EXCEPT !.cl[e.c].closeAfter = TRUE], e.c, io), x)

\* proxyRetryOrFail and proxyRetryOrFailH2, up to the answer when the retry is refused.
RetryOrFail(q, x, io) ==
    LET f == NoBackend(q, x)
    IN  IF ~q.px[x].h2 /\ q.px[x].c = None THEN Put(f, x)
        ELSE IF q.px[x].out THEN ProxyAbort(f, x, io)
        ELSE Retry(f, x, io)

\* proxyEndStream.
EndStream(q, x, io) ==
    LET c == q.px[x].c
    IN  IF c = None THEN Put(q, x)
        ELSE ProxyResume(Put([Release(q, x) EXCEPT !.cl[c].paused = None], x), c, io)

\* exchangeDone: an answer that is complete, and a failure that is not retried, are
\* delivered.
DeliverUnlessRetried(q, x, io) ==
    IF q.px[x].used /\ q.px[x].res # "pending" THEN Deliver(q, x, io) ELSE q
ExchangeDone(q, x, io) ==
    LET l == Leave(q, x)
    IN  IF q.px[x].out /\ ~q.px[x].refused /\ ~q.px[x].err THEN EndStream(l, x, io)
        ELSE DeliverUnlessRetried(
                IF q.px[x].err /\ ~q.px[x].refused THEN RetryOrFail(l, x, io)
                ELSE [NoBackend(l, x) EXCEPT !.px[x].res = "over"], x, io)

\* closeConn of a backend connection; failOrRetry never sends again after a timeout.
DoneIfFailed(q, x, io) == IF q.px[x].done THEN ExchangeDone(q, x, io) ELSE q
CloseConn(q, k, timeout, io) ==
    LET x == q.bc[k].cur
        dead == Kill(q, k)
    IN  IF x = None THEN dead
        ELSE DoneIfFailed(IF timeout \/ ~MayResend(q, x, k) THEN Finish(dead, x)
                          ELSE StartExchange([dead EXCEPT !.px[x].retried = TRUE], x, q.bc[k].b, io), x, io)

\* canIdle, idlePut.
IdlePut(q, k, io) ==
    IF ~io.keep \/ Len(q.idle[q.bc[k].b]) >= MaxIdle THEN Kill(q, k)
    ELSE [q EXCEPT !.idle[q.bc[k].b] = @ \o <<k>>, !.bc[k].reused = FALSE, !.bc[k].paused = FALSE,
                   !.bc[k].stream = FALSE, !.bc[k].phase = "head", !.bc[k].got = FALSE]

\* completeH1.
Complete(q, k, io) ==
    LET x == q.bc[k].cur
        d == [q EXCEPT !.bc[k].cur = None, !.px[x].done = TRUE]
    IN  IF x = None THEN q
        ELSE IdlePut(IF q.bc[k].stream /\ ~q.px[x].h2
                     THEN EndStream(NoBackend(Leave(d, x), x), x, io)
                     ELSE ExchangeDone(d, x, io), k, io)

--------------------------------------------------------------------------------
(* What a backend connection reads: readLoop, advance, the sink's callbacks.  Each *)
(* says how the read goes on: not at all, the response is complete (the connection *)
(* reusable or not), or the connection is closed.                                 *)

Then(do, q) == [do |-> do, q |-> q]
Proceed(step, k, io) ==
    IF step.do = "close" THEN CloseConn(step.q, k, FALSE, io)
    ELSE IF step.do = "nothing" THEN step.q
    ELSE Complete(step.q, k, [io EXCEPT !.keep = @ /\ step.do = "complete"])

\* refuseResponse.
RefuseResponse(q, x) == Then("close", [q EXCEPT !.px[x].refused = TRUE])

\* beginStreamResponse of an HTTP/1 client.
BeginStream(q, x, io) ==
    LET e == q.px[x]
    IN  IF e.c = None THEN Then("nothing", q)
        ELSE IF ~io.hook THEN RefuseResponse(q, x)
        ELSE Then("nothing", Flush(NoBackend(Leave([Answer(q, e.c, e.r) EXCEPT !.px[x].out = TRUE], x), x), e.c, io))

\* beginTunnel.
BeginTunnel(q, x, k, io) ==
    LET e == q.px[x]
        u == NoBackend(Leave([q EXCEPT !.bc[k].cur = None], x), x)
        t == [Put(Release(Answer(u, e.c, e.r), x), x) EXCEPT
                 !.cl[e.c].tun = k, !.bc[k].tun = e.c, !.bc[k].left = MaxChunks, !.cl[e.c].closeAfter = FALSE]
    IN  IF e.c = None \/ e.h2 THEN Then("close", q) ELSE Then("nothing", Flush(t, e.c, io))

\* The head of a response: no body, a body that is buffered, one that is relayed or,
\* for an HTTP/2 client, collected, one that ends with the connection, an upgrade.
Head1(q, k, shape, io) ==
    LET x == q.bc[k].cur
        g == [q EXCEPT !.bc[k].got = TRUE]
        body(stream) == [g EXCEPT !.bc[k].phase = IF shape = "eof" THEN "eof" ELSE "body",
                                  !.bc[k].stream = stream, !.bc[k].left = MaxChunks]
    IN  CASE shape = "bad" -> Then("close", g)
          [] shape = "tunnel" -> BeginTunnel(g, x, k, io)
          [] shape = "empty" -> Then("complete", g)
          [] shape = "buffered" ->
                IF ~q.px[x].h2 THEN Then("nothing", body(FALSE))
                ELSE IF CanReserve(g, x) THEN Then("nothing", Reserve(body(FALSE), x))
                ELSE RefuseResponse(body(TRUE), x)
          [] OTHER -> IF q.px[x].h2 THEN Then("nothing", body(TRUE)) ELSE BeginStream(body(TRUE), x, io)

\* Mutant: a client that falls behind does not pause the backend.
PauseNever(q, c, k) == q
\* pauseBackendRead, for a client that falls behind.
Pause(q, c, k) ==
    IF q.cl[c].open /\ q.cl[c].unsent > High /\ q.cl[c].paused = None /\ q.bc[k].st # "closed"
    THEN [q EXCEPT !.cl[c].paused = k, !.bc[k].paused = TRUE] ELSE q

\* streamResponseChunk and bufferH2Chunk.
StreamChunk(q, x, k, io) ==
    LET e == q.px[x]
    IN  CASE ~q.bc[k].stream -> Then("nothing", q)
          [] q.bc[k].stream /\ e.h2 ->
                IF CanReserve(q, x) THEN Then("nothing", Reserve(q, x)) ELSE RefuseResponse(q, x)
          [] q.bc[k].stream /\ ~e.h2 ->
                IF e.c = None THEN Then("close", q)
                ELSE Then("nothing", Pause(Flush(Buffer(q, e.c), e.c, io), e.c, k))

\* A piece of the body; last: the response is complete, if the piece did not close it.
Ending(step, x, k, last) ==
    IF last /\ step.do = "nothing" /\ step.q.bc[k].cur = x THEN Then("complete", step.q) ELSE step
Chunk1(q, k, last, io) ==
    LET x == q.bc[k].cur
    IN  Ending(StreamChunk([q EXCEPT !.bc[k].got = TRUE, !.bc[k].left = @ - 1], x, k, io), x, k, last)

\* tunnelToClient.
TunnelToClient(q, k, io) ==
    LET c == q.bc[k].tun
    IN  Pause(Flush([Buffer(q, c) EXCEPT !.bc[k].left = @ - 1], c, io), c, k)

\* closeTunnelPeer, then closeConn.
EndTunnel(q, k, io) ==
    LET c == q.bc[k].tun
        a == [q EXCEPT !.bc[k].tun = None, !.cl[c].tun = None, !.cl[c].paused = None,
                       !.cl[c].tunPaused = FALSE, !.cl[c].closeAfter = TRUE]
    IN  Kill(Flush(a, c, io), k)

\* peerClosed.
PeerClosed(q, k, io) ==
    CASE q.bc[k].tun # None -> Then("nothing", EndTunnel(q, k, io))
      [] q.bc[k].tun = None /\ q.bc[k].cur # None /\ q.bc[k].phase = "eof" -> Then("complete and close", q)
      [] OTHER -> Then("close", q)

\* One read, as the event loop or resumeBackendRead does it.
Found(q, k, ev, io) ==
    CASE ev = "none" -> Then("nothing", q)
      [] ev = "chunk" /\ q.bc[k].tun # None -> Then("nothing", TunnelToClient(q, k, io))
      [] ev = "end" -> PeerClosed(q, k, io)
      [] OTHER -> Chunk1(q, k, ev = "last", io)
Read(q, k, ev, io) == Proceed(Found(q, k, ev, io), k, io)

\* What a read may find on a connection.
Readings(q, k) ==
    LET body == q.bc[k].cur # None /\ q.bc[k].phase # "head"
        more == q.bc[k].left > 0
    IN  {"none", "end"} \cup (IF more /\ (body \/ q.bc[k].tun # None) THEN {"chunk"} ELSE {})
                       \cup (IF more /\ body /\ q.bc[k].phase = "body" THEN {"last"} ELSE {})

--------------------------------------------------------------------------------
(* Events.                                                                      *)

Fine == [be |-> [b \in Backends |-> "up"], first |-> Min(Backends), broken |-> {}, wrote |-> TRUE,
         room |-> "all", hook |-> TRUE, hit |-> FALSE, keep |-> TRUE, late |-> FALSE]

\* What the sockets, the hooks and the cache may do during a handler: the state of the
\* backends and of the connections written to, and at most one thing more.
States == {"up"} \cup (IF May("down") THEN {"down"} ELSE {}) \cup (IF May("ejected") THEN {"ejected"} ELSE {})
Breaks ==
    {{}} \cup (IF May("broken") THEN {{k} : k \in {j \in BConns : p.bc[j].st # "closed"}} \cup {BConns}
              ELSE {})
Sockets ==
    {[Fine EXCEPT !.be = be, !.broken = k, !.first = b] :
        be \in [Backends -> States], k \in Breaks, b \in Backends}
    \cup (IF May("broken") THEN {[Fine EXCEPT !.broken = k, !.wrote = FALSE] : k \in Breaks} ELSE {})
Moods ==
    {Fine} \cup (IF May("slow") THEN {[Fine EXCEPT !.room = "none"]} ELSE {})
    \cup (IF May("cut") THEN {[Fine EXCEPT !.room = "error"]} ELSE {})
    \cup (IF May("hook") THEN {[Fine EXCEPT !.hook = FALSE]} ELSE {})
    \cup (IF May("hit") THEN {[Fine EXCEPT !.hit = TRUE]} ELSE {})
    \cup (IF May("reuse") THEN {} ELSE {[Fine EXCEPT !.keep = FALSE]})
IOs == Sockets \cup Moods
LateIOs == Sockets \cup (IF May("late") THEN {[Fine EXCEPT !.late = TRUE]} ELSE {})

Become(q) == p' = q /\ UNCHANGED mix

\* A proxied request reaches the worker.
Request(c) ==
    /\ Ready(p, c) /\ (H2(c) \/ Idle(p, c))
    /\ \E io \in IOs : Become(BeginProxy(p, c, io))

\* EPOLLOUT of a connect: onConnConnected, or the error.
Connected(k) ==
    /\ p.bc[k].st = "connecting"
    /\ \E io \in IOs :
          LET a == Attach([p EXCEPT !.bc[k].st = "ready"], p.bc[k].cur, k, io)
              x == p.bc[k].cur
          IN  Become(IF a.px[x].done THEN ExchangeDone(a, x, io) ELSE a)

\* EPOLLOUT with a request still to be written: flushWrites.
BackendWritable(k) ==
    /\ p.bc[k].st = "ready" /\ p.bc[k].wbuf > 0 /\ p.bc[k].tun = None
    /\ LET a == [p EXCEPT !.bc[k].wbuf = 0]
       IN  Become(IF a.bc[k].cur = None THEN a ELSE Wrote(a, a.bc[k].cur))

\* The response begins.
RecvHead(k, shape) ==
    /\ p.bc[k].st = "ready" /\ p.bc[k].cur # None /\ p.bc[k].phase = "head" /\ ~p.bc[k].paused
    /\ \E io \in IOs : Become(Proceed(Head1(p, k, shape, io), k, io))

\* More of the response, or the end of the connection.
RecvBody(k) ==
    /\ p.bc[k].st = "ready" /\ ~p.bc[k].paused
    /\ \E ev \in Readings(p, k) \ {"none"}, io \in IOs :
          (ev = "end" => May("error")) /\ Become(Read(p, k, ev, io))

\* EPOLLERR: closeConn, which leaves the client of a tunnel as it is.
BackendError(k) ==
    /\ p.bc[k].st # "closed" /\ May(IF p.bc[k].tun = None THEN "error" ELSE "reset")
    /\ \E io \in IOs : Become(IF p.bc[k].tun = None THEN CloseConn(p, k, FALSE, io) ELSE Kill(p, k))

\* sweepConn: the deadline of an exchange, or of an idle connection.
Sweep(k) ==
    /\ May("timeout") /\ p.bc[k].st # "closed" /\ p.bc[k].tun = None
    /\ \E io \in IOs : Become(CloseConn(p, k, TRUE, io))

\* EPOLLOUT of the client: flush, and the backend it had paused is read at once.
ClientWritable(c) ==
    /\ p.cl[c].open /\ p.cl[c].unsent > 0
    /\ LET k == p.cl[c].paused
           f == Flush(p, c, Fine)
       IN  IF k \in {None, Dead} \/ f.bc[k].st # "ready" THEN Become(f)
           ELSE \E ev \in Readings(p, k), io \in Moods : Become(Read(f, k, ev, io))

\* The client goes away, or its deadline passes.
ClientGone(c) ==
    /\ May("gone") /\ p.cl[c].open
    /\ \E io \in LateIOs : Become(CloseClient(p, c, io))

\* The structure of a closed connection serves another one.
Reopen(c) ==
    /\ ~p.cl[c].open /\ p.cl[c].inFlight = 0 /\ p.cl[c].gen = 1
    /\ Become([p EXCEPT !.cl[c].open = TRUE])

\* tunnelToBackend: what the client sent goes to the backend, which may be full.
TunnelToBackend(c) ==
    /\ p.cl[c].open /\ p.cl[c].tun # None /\ p.cl[c].left > 0
    /\ LET k == p.cl[c].tun
           n == p.bc[k].wbuf + 1
           rest == [p EXCEPT !.cl[c].left = @ - 1]
       IN  IF k = Dead THEN Become(Flush([rest EXCEPT !.cl[c].closeAfter = TRUE], c, Fine))
           ELSE IF p.cl[c].tunPaused THEN Become([rest EXCEPT !.cl[c].pending = TRUE])
           ELSE \/ Become([rest EXCEPT !.bc[k].wbuf = 0])
                \/ May("slow") /\ Become([rest EXCEPT !.bc[k].wbuf = n, !.cl[c].tunPaused = n > High])

\* resumeTunnelIfDrained: a read edge seen meanwhile is honoured.
TunnelDrained(k) ==
    /\ p.bc[k].tun # None /\ p.bc[k].wbuf > 0
    /\ Become([p EXCEPT !.bc[k].wbuf = 0, !.cl[p.bc[k].tun].tunPaused = FALSE,
                        !.cl[p.bc[k].tun].pending = FALSE])

Shapes == {"empty", "bad", "buffered"}
          \cup (IF May("stream") THEN {"stream"} ELSE {})
          \cup (IF May("eof") THEN {"eof"} ELSE {})
          \cup (IF May("tunnel") THEN {"tunnel"} ELSE {})

Next ==
    \/ \E c \in Conns : Request(c) \/ ClientWritable(c) \/ ClientGone(c) \/ Reopen(c) \/ TunnelToBackend(c)
    \/ \E k \in BConns :
          \/ Connected(k) \/ BackendWritable(k) \/ RecvBody(k) \/ BackendError(k) \/ Sweep(k)
          \/ TunnelDrained(k) \/ \E shape \in Shapes : RecvHead(k, shape)

Spec == Init /\ [][Next]_vars

--------------------------------------------------------------------------------
(* Properties.                                                                  *)

TypeOK ==
    /\ p.free \in Seq(Exchanges) /\ p.made \in 0..Cardinality(Reqs)
    /\ \A x \in Exchanges :
          /\ p.px[x].c \in Conns \cup {None} /\ p.px[x].b \in Backends \cup {None}
          /\ p.px[x].bc \in BConns \cup {None} /\ p.px[x].kept \in Nat
    /\ \A k \in BConns :
          /\ p.bc[k].st \in {"closed", "connecting", "ready"}
          /\ p.bc[k].cur \in Exchanges \cup {None} /\ p.bc[k].tun \in Conns \cup {None}
    /\ \A c \in Conns : p.cl[c].inFlight \in Nat /\ p.cl[c].unsent \in Nat
    /\ mix.may \subseteq Events

Used == {x \in Exchanges : p.px[x].used}

\* ActiveConns, the request slots and the two buffer budgets are what the exchanges in
\* use hold, however an attempt ended: refused, failed over, streamed, upgraded,
\* abandoned by its client, or answered after its connection was closed.
HoldingsExact ==
    /\ \A b \in Backends : p.active[b] = Cardinality({x \in Used : p.px[x].b = b})
    /\ p.held = Cardinality(Used)
    /\ p.srv = MapThenSumSet(LAMBDA x : p.px[x].kept, Used)
    /\ \A c \in Conns : p.cl[c].buffered = MapThenSumSet(LAMBDA x : p.px[x].kept,
                                                          {x \in Used : p.px[x].c = c})

\* proxyRequestReplayable: a request that must not be repeated reaches at most one
\* backend connection, whatever pooled connections and backends fail.
NotRepeated == \A r \in Reqs : Replayable(r) \/ p.rq[r].sent <= 1

\* A request is answered once: after the head of a response went to the client neither
\* another attempt nor an error answer does.
AnsweredOnce == \A r \in Reqs : p.rq[r].ans <= 1

\* Between events every exchange in use is driven by one live connection, so that data,
\* an error or its deadline ends it; and every request of an open client has one.
ExchangesDriven ==
    /\ \A x \in Used : p.px[x].bc # None /\ p.bc[p.px[x].bc].cur = x
    /\ \A r \in Reqs : p.rq[r].st = "open" => \E x \in Used : p.px[x].r = r /\ p.px[x].c = ConnOf[r]
    /\ \A c \in Conns : p.cl[c].ex # None => p.cl[c].ex \in Used /\ p.px[p.cl[c].ex].c = c

\* A connection that has relayed data to an HTTP/1 client.
Relaying(k) ==
    /\ p.bc[k].left < MaxChunks /\ p.bc[k].st = "ready"
    /\ \/ p.bc[k].tun # None
       \/ p.bc[k].cur # None /\ p.bc[k].stream /\ ~p.px[p.bc[k].cur].h2

\* pauseBackendRead, tunnelPaused: whoever is paused waits for bytes that are still to
\* be written; and a client beyond the high-water mark has paused its backend.
PausesEnd ==
    /\ \A k \in BConns : p.bc[k].paused =>
          \E c \in Conns : p.cl[c].paused = k /\ p.cl[c].open /\ p.cl[c].unsent > Low
    /\ \A c \in Conns : p.cl[c].tunPaused => p.cl[c].tun \in BConns /\ p.bc[p.cl[c].tun].wbuf > Low
    /\ \A c \in Conns : p.cl[c].pending /\ ~p.cl[c].closeAfter => p.cl[c].tunPaused
    /\ \A k \in BConns : Relaying(k) =>
          LET c == IF p.bc[k].tun = None THEN p.px[p.bc[k].cur].c ELSE p.bc[k].tun
          IN  c # None => (p.bc[k].paused \/ p.cl[c].unsent <= High)

\* The idle list: a connection is in it at most once, ready, without an exchange, a
\* tunnel or a pause; and every open one is idle, a tunnel's or has an exchange.
PoolClean ==
    /\ \A b \in Backends : IsInjective(p.idle[b]) /\ Len(p.idle[b]) <= MaxIdle
    /\ \A b \in Backends, k \in BConns :
          k \in ToSet(p.idle[b]) <=>
             p.bc[k].b = b /\ p.bc[k].st = "ready" /\ p.bc[k].cur = None /\ p.bc[k].tun = None
    /\ \A b \in Backends : \A k \in ToSet(p.idle[b]) : ~p.bc[k].paused

\* pxPut: no exchange is on the free list twice or while it is in use, so no two
\* requests ever share one ("complete an exchange the outer frame still holds").
FreedOnce == IsInjective(p.free) /\ ToSet(p.free) \cap Used = {}

\* closeTunnelPeer: when the backend end of a tunnel goes away, the client half is
\* torn down.
TunnelJoined == \A c \in Conns : p.cl[c].tun # Dead

================================================================================
