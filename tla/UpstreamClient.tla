---------------------------- MODULE UpstreamClient -----------------------------
(* The outbound HTTP client: callers hand exchanges to an event loop through a   *)
(* lock-free queue (fp_client.go, fp_loop.go, fp_queue.go), the loop asks a       *)
(* goroutine for the pieces of a request body (fp_body.go), and a response that   *)
(* is read as it arrives crosses a bounded pipe back to its caller (fp_pipe.go).  *)
(*                                                                               *)
(* Every atomic operation of the queue and of an exchange's flags is a step.  The *)
(* HTTP/1 connection of an exchange is what the loop's socket events say of it.   *)
EXTENDS Integers, FiniteSets

CONSTANTS
    Exs,        \* exchanges, positive
    MaxPieces,  \* bound: chunks of a response, and pieces of a request body
    High, Low,  \* respPipeHighMark, respPipeLowMark, in chunks
    Mark,       \* upstreamBodyLowMark, in pieces
    Mixes       \* which exchanges come, which are opened as streams, which have a
                \* body, which take a pooled connection; whether sockets and body
                \* sources fail; whether Close is called; how many pieces a body has

VARIABLES q, loop, ex, pipe, caller, pump, closer, mix

vars == <<q, loop, ex, pipe, caller, pump, closer, mix>>

Stub == 0
Nil == -1

Opened(e) == e \in mix.open

NewExchange(e) ==
    [queued |-> FALSE, started |-> FALSE, bodyReady |-> FALSE, resumeWanted |-> FALSE,
     abortWanted |-> FALSE, finished |-> FALSE, done |-> FALSE, ok |-> FALSE,
     bc |-> "none", reused |-> FALSE, retried |-> e \in mix.body, got |-> FALSE,
     paused |-> FALSE, left |-> MaxPieces, wbuf |-> 0,
     body |-> e \in mix.body, want |-> 0, requested |-> FALSE, waiting |-> FALSE,
     chunk |-> 0, eof |-> FALSE, err |-> FALSE, sent |-> 0, bodyDone |-> FALSE]

Init ==
    /\ mix \in Mixes
    /\ q = [head |-> Stub, tail |-> Stub, next |-> [n \in Exs \cup {Stub} |-> Nil]]
    /\ loop = [at |-> "top", n |-> Nil, prev |-> Nil, check |-> FALSE, drained |-> FALSE,
               sleeping |-> FALSE, quit |-> FALSE, wake |-> FALSE, saw |-> FALSE]
    /\ ex = [e \in Exs |-> NewExchange(e)]
    /\ pipe = [e \in Exs |-> [head |-> FALSE, buf |-> 0, done |-> FALSE, closed |-> FALSE,
                              paused |-> FALSE]]
    /\ caller = [e \in Exs |-> [at |-> IF e \in mix.exs THEN "new" ELSE "over", prev |-> Nil]]
    /\ pump = [e \in Exs |-> [at |-> IF e \in mix.body THEN "idle" ELSE "over", prev |-> Nil]]
    /\ closer = [at |-> IF mix.close THEN "new" ELSE "over", closed |-> FALSE]

--------------------------------------------------------------------------------
(* mpscQueue.push and eventLoop.submit, by a caller or a pump: a is its record,   *)
(* e the exchange and next what it does afterwards.                              *)

\* SwapPointer of the head.
PushSwap(a, e) ==
    /\ a.at = "swap"
    /\ q' = [q EXCEPT !.next[e] = Nil, !.head = e]
    /\ UNCHANGED loop

\* The predecessor is linked to the node.
PushLink(a, e) ==
    /\ a.at = "link"
    /\ q' = [q EXCEPT !.next[a.prev] = e]
    /\ UNCHANGED loop

\* sleeping.Swap(0).
PushWake(a) ==
    /\ a.at = "wake"
    /\ loop' = [loop EXCEPT !.sleeping = FALSE]
    /\ UNCHANGED q

\* The write to the eventfd, if the loop was asleep.
PushWrite(a) ==
    /\ a.at = "write"
    /\ loop' = [loop EXCEPT !.wake = TRUE]
    /\ UNCHANGED q

\* notify: queued.CompareAndSwap(false, true).
Claim(a, e) ==
    /\ a.at = "cas"
    /\ ex' = [ex EXCEPT ![e].queued = TRUE]
    /\ UNCHANGED <<q, loop>>

\* Where a submitting goroutine goes next.
Submitted(a, e, then) ==
    CASE a.at = "cas" -> IF ex[e].queued THEN [a EXCEPT !.at = then] ELSE [a EXCEPT !.at = "swap"]
      [] a.at = "swap" -> [at |-> "link", prev |-> q.head]
      [] a.at = "link" -> [at |-> "wake", prev |-> Nil]
      [] a.at = "wake" -> [a EXCEPT !.at = IF loop.sleeping THEN "write" ELSE then]
      [] a.at = "write" -> [a EXCEPT !.at = then]

Submit(a, e) ==
    \/ Claim(a, e)
    \/ (PushSwap(a, e) \/ PushLink(a, e) \/ PushWake(a) \/ PushWrite(a)) /\ UNCHANGED ex

--------------------------------------------------------------------------------
(* The caller: start, then Do or Open, Read and Close.                           *)

\* start: the exchange is refused by a closed client.
Start(e) ==
    /\ caller[e].at = "new"
    /\ IF closer.closed
       THEN caller' = [caller EXCEPT ![e].at = "over"] /\ UNCHANGED ex
       ELSE /\ ex' = [ex EXCEPT ![e].queued = TRUE]
            /\ caller' = [caller EXCEPT ![e].at = "swap"]
    /\ UNCHANGED <<q, loop, pipe, pump, closer, mix>>

\* What a caller does once its submission is made: wait for the exchange or for the
\* head of the response, or go on with the body.
Afterwards(e) ==
    IF ~Opened(e) THEN "wait" ELSE IF ~pipe[e].head THEN "head" ELSE IF pipe[e].closed THEN "over" ELSE "body"

CallerSubmits(e) ==
    /\ Submit(caller[e], e)
    /\ caller' = [caller EXCEPT ![e] = Submitted(@, e, Afterwards(e))]
    /\ UNCHANGED <<pipe, pump, closer, mix>>

\* exchange: the wait for done; waitHead.
Answered(e) ==
    /\ \/ caller[e].at = "wait" /\ ex[e].done /\ caller' = [caller EXCEPT ![e].at = "over"]
       \/ /\ caller[e].at = "head" /\ (pipe[e].head \/ pipe[e].done)
          /\ caller' = [caller EXCEPT ![e].at = IF pipe[e].head THEN "body" ELSE "over"]
    /\ UNCHANGED <<q, loop, ex, pipe, pump, closer, mix>>

\* respPipe.read of n chunks; the wait for data, the end or Close is the guard.
ReadBody(e, n) ==
    /\ caller[e].at = "body"
    /\ LET left == pipe[e].buf - n
           resume == pipe[e].paused /\ left <= Low
       IN  IF pipe[e].buf = 0
           THEN /\ pipe[e].done \/ pipe[e].closed
                /\ caller' = [caller EXCEPT ![e].at = "over"] /\ UNCHANGED pipe
           ELSE /\ left >= 0
                /\ pipe' = [pipe EXCEPT ![e].buf = left, ![e].paused = @ /\ ~resume]
                /\ caller' = [caller EXCEPT ![e].at = IF resume THEN "resume" ELSE "body"]
    /\ UNCHANGED <<q, loop, ex, pump, closer, mix>>

\* resumeWanted.Store(true), abortWanted.Store(true).
Flag(e) ==
    /\ caller[e].at \in {"resume", "abort"}
    /\ ex' = IF caller[e].at = "resume" THEN [ex EXCEPT ![e].resumeWanted = TRUE]
             ELSE [ex EXCEPT ![e].abortWanted = TRUE]
    /\ caller' = [caller EXCEPT ![e].at = "cas"]
    /\ UNCHANGED <<q, loop, pipe, pump, closer, mix>>

\* UpstreamBody.Close.
CloseBody(e) ==
    /\ caller[e].at = "body"
    /\ pipe' = [pipe EXCEPT ![e].closed = TRUE, ![e].buf = 0]
    /\ caller' = [caller EXCEPT ![e].at = IF pipe[e].done THEN "over" ELSE "abort"]
    /\ UNCHANGED <<q, loop, ex, pump, closer, mix>>

--------------------------------------------------------------------------------
(* upstreamBody.pump.                                                           *)

\* The select on want and done.
PumpWaits(e) ==
    /\ pump[e].at = "idle"
    /\ \/ /\ ex[e].want > 0
          /\ ex' = [ex EXCEPT ![e].want = @ - 1]
          /\ pump' = [pump EXCEPT ![e].at = "read"]
       \/ /\ ex[e].done
          /\ pump' = [pump EXCEPT ![e].at = "over"] /\ UNCHANGED ex
    /\ UNCHANGED <<q, loop, pipe, caller, closer, mix>>

\* The source is read into the one buffer of the body.
PumpReads(e) ==
    /\ pump[e].at = "read"
    /\ \E end \in {"more", "eof", "err"} :
          /\ end = "more" => ex[e].chunk + 1 < mix.pieces
          /\ end = "err" => mix.errors
          /\ ex' = [ex EXCEPT ![e].chunk = @ + 1, ![e].eof = end = "eof", ![e].err = end = "err"]
    /\ pump' = [pump EXCEPT ![e].at = "ready"]
    /\ UNCHANGED <<q, loop, pipe, caller, closer, mix>>

\* The select on done, then bodyReady.Store(true).
PumpReady(e) ==
    /\ pump[e].at = "ready"
    /\ IF ex[e].done THEN pump' = [pump EXCEPT ![e].at = "over"] /\ UNCHANGED ex
       ELSE /\ ex' = [ex EXCEPT ![e].bodyReady = TRUE]
            /\ pump' = [pump EXCEPT ![e].at = "cas"]
    /\ UNCHANGED <<q, loop, pipe, caller, closer, mix>>

\* Mutant: the next piece is read ahead.
PumpAhead(e) == IF ex[e].eof \/ ex[e].err THEN "over" ELSE "read"

PumpNext(e) == IF ex[e].eof \/ ex[e].err THEN "over" ELSE "idle"

PumpSubmits(e) ==
    /\ Submit(pump[e], e)
    /\ pump' = [pump EXCEPT ![e] = Submitted(@, e, PumpNext(e))]
    /\ UNCHANGED <<pipe, caller, closer, mix>>

--------------------------------------------------------------------------------
(* What the loop does to an exchange x with its pipe p: operators from            *)
(* s = [x, p] to what they leave.                                                *)

\* finish: an error ends the pipe, and done is closed.
Finish(s, ok) ==
    IF s.x.finished THEN s
    ELSE [s EXCEPT !.x.finished = TRUE, !.x.done = TRUE, !.x.ok = ok, !.p.done = TRUE]

\* startExchange, which takes a pooled connection for a request without a body.
Begin(s, pooled) ==
    [s EXCEPT !.x.bc = IF pooled THEN "ready" ELSE "dial", !.x.reused = pooled, !.x.got = FALSE,
              !.x.wbuf = 0]

\* closeConn and failOrRetry: a pooled connection that failed before it answered
\* is replaced once, unless the request timed out.
CloseConn(s, timeout) ==
    LET c == [s EXCEPT !.x.bc = "closed", !.x.paused = FALSE]
    IN  IF c.x.reused /\ ~c.x.got /\ ~c.x.retried /\ ~timeout
        THEN Begin([c EXCEPT !.x.retried = TRUE], FALSE)
        ELSE Finish(c, FALSE)

\* requestBody.
RequestBody(s) ==
    IF s.x.requested \/ s.x.waiting THEN s
    ELSE IF s.x.wbuf > Mark THEN [s EXCEPT !.x.waiting = TRUE]
    ELSE [s EXCEPT !.x.requested = TRUE, !.x.want = @ + 1]

\* Mutant: a body that waits is not woken.
WakeNobody(s) == s

\* wakeWaitingUploads, at the end of every flushWrites.
WakeUpload(s) ==
    IF s.x.waiting /\ s.x.wbuf <= Mark THEN RequestBody([s EXCEPT !.x.waiting = FALSE]) ELSE s

\* onBodyChunk, h1SendBodyChunk; kept: what stays in the write buffer.
BodyChunk(s, kept) ==
    LET a == [s EXCEPT !.x.requested = FALSE]
        b == [a EXCEPT !.x.sent = @ + 1, !.x.bodyDone = a.x.eof, !.x.wbuf = kept]
        c == WakeUpload(b)
    IN  IF a.x.finished \/ a.x.bc \in {"none", "closed"} THEN a
        ELSE IF a.x.err THEN CloseConn(a, FALSE)
        ELSE IF c.x.bodyDone THEN c ELSE RequestBody(c)

\* onConnConnected, attach.
Connected(s) ==
    LET a == [s EXCEPT !.x.bc = "ready"] IN IF a.x.body THEN RequestBody(a) ELSE a

\* Mutant: a pipe that is full is not marked.
PushQuietly(s) ==
    LET a == [s EXCEPT !.p.buf = @ + 1] IN [a EXCEPT !.x.paused = a.p.buf >= High]

\* streamResponseChunk: push, and pauseBackendRead when it is full.
Push(s) ==
    LET a == [s EXCEPT !.p.buf = @ + 1]
        full == a.p.buf >= High
    IN  IF s.p.closed THEN s ELSE [a EXCEPT !.p.paused = @ \/ full, !.x.paused = full]

\* The end of the response: completeH1, endStreamResponse.
Complete(s) == Finish([s EXCEPT !.x.bc = "closed"], TRUE)

\* What a socket event may be for an exchange.
Happenings(x, p) ==
    (IF x.bc = "dial" THEN {"connected"} ELSE {})
    \cup (IF x.bc = "ready" /\ ~x.paused /\ (p.head \/ x.body => x.left > 0) THEN {"data"} ELSE {})
    \cup (IF x.bc = "ready" /\ ~x.paused THEN {"end"} ELSE {})
    \cup (IF x.bc \in {"dial", "ready"} THEN {"timeout"} ELSE {})
    \cup (IF x.bc \in {"dial", "ready"} /\ mix.errors THEN {"error"} ELSE {})
    \cup (IF x.bc = "ready" /\ x.wbuf > 0 THEN {"writable"} ELSE {})

Happen(s, event, stream) ==
    CASE event = "connected" -> Connected(s)
      [] event = "data" ->
            LET a == [s EXCEPT !.x.got = TRUE]
            IN  IF ~stream THEN a
                ELSE IF ~s.p.head THEN [a EXCEPT !.p.head = TRUE]
                ELSE Push([a EXCEPT !.x.left = @ - 1])
      [] event = "end" ->
            IF stream /\ ~s.p.head THEN Complete([s EXCEPT !.p.head = TRUE]) ELSE Complete(s)
      [] event = "error" -> CloseConn(s, FALSE)
      [] event = "timeout" -> CloseConn(s, TRUE)
      [] event = "writable" -> WakeUpload([s EXCEPT !.x.wbuf = 0])

Of(e) == [x |-> ex[e], p |-> pipe[e]]
Leaves(e, s) == ex' = [ex EXCEPT ![e] = s.x] /\ pipe' = [pipe EXCEPT ![e] = s.p]

--------------------------------------------------------------------------------
(* eventLoop.run.                                                               *)

Stay == UNCHANGED <<caller, pump, closer, mix>>

\* The quit flag; release closes every connection.
Top ==
    /\ loop.at = "top"
    /\ IF loop.quit
       THEN /\ loop' = [loop EXCEPT !.at = "gone"]
            /\ LET Ends(e) == IF ex[e].bc \in {"dial", "ready"} THEN CloseConn(Of(e), FALSE) ELSE Of(e)
               IN  ex' = [e \in Exs |-> Ends(e).x] /\ pipe' = [e \in Exs |-> Ends(e).p]
       ELSE loop' = [loop EXCEPT !.at = "pop", !.check = FALSE, !.drained = FALSE] /\ UNCHANGED <<ex, pipe>>
    /\ UNCHANGED q /\ Stay

\* What run does with the result of pop.
Popped(n) ==
    loop' = [loop EXCEPT
        !.n = n, !.prev = Nil,
        !.sleeping = @ /\ ~(loop.check /\ n # Nil),
        !.drained = @ \/ n # Nil,
        !.at = CASE n # Nil -> "dispatch"
                 [] n = Nil /\ loop.check -> "wait"
                 [] n = Nil /\ ~loop.check -> IF loop.drained THEN "poll" ELSE "arm"]

\* pop: the first loads, which pass over the stub.
Pop ==
    /\ loop.at = "pop"
    /\ LET next == q.next[q.tail]
       IN  CASE next # Nil /\ q.tail = Stub -> q' = [q EXCEPT !.tail = next] /\ UNCHANGED loop
             [] next # Nil /\ q.tail # Stub -> q' = [q EXCEPT !.tail = next] /\ Popped(q.tail)
             [] next = Nil /\ q.tail = Stub -> UNCHANGED q /\ Popped(Nil)
             [] next = Nil /\ q.tail # Stub -> UNCHANGED q /\ loop' = [loop EXCEPT !.at = "last"]
    /\ UNCHANGED <<ex, pipe>> /\ Stay

\* The last node leaves only if no push has begun after it.
PopLast ==
    /\ loop.at = "last"
    /\ IF q.tail # q.head THEN Popped(Nil) ELSE loop' = [loop EXCEPT !.at = "stub"]
    /\ UNCHANGED <<q, ex, pipe>> /\ Stay

\* The stub is pushed behind it,
PopStub ==
    /\ loop.at = "stub"
    /\ q' = [q EXCEPT !.next[Stub] = Nil, !.head = Stub]
    /\ loop' = [loop EXCEPT !.at = "relink", !.prev = q.head]
    /\ UNCHANGED <<ex, pipe>> /\ Stay

\* and the node is taken if it has a successor by now.
PopRelink ==
    /\ loop.at = "relink"
    /\ LET linked == [q EXCEPT !.next[loop.prev] = Stub]
           next == linked.next[q.tail]
       IN  IF next # Nil THEN q' = [linked EXCEPT !.tail = next] /\ Popped(q.tail)
           ELSE q' = linked /\ Popped(Nil)
    /\ UNCHANGED <<ex, pipe>> /\ Stay

\* Mutant: the loop goes to sleep without another look at the queue.
ArmUnchecked ==
    /\ loop.at = "arm"
    /\ loop' = [loop EXCEPT !.sleeping = TRUE, !.at = "wait"]
    /\ UNCHANGED <<q, ex, pipe>> /\ Stay

\* A sweep is due, or sleeping.Store(1) and another pop.
Arm ==
    /\ loop.at = "arm"
    /\ \/ loop' = [loop EXCEPT !.at = "poll"]
       \/ loop' = [loop EXCEPT !.sleeping = TRUE, !.at = "pop", !.check = TRUE]
    /\ UNCHANGED <<q, ex, pipe>> /\ Stay

\* dispatchQueued: queued.Store(false),
Dispatch ==
    /\ loop.at = "dispatch"
    /\ ex' = [ex EXCEPT ![loop.n].queued = FALSE]
    /\ loop' = [loop EXCEPT !.at = "serve"]
    /\ UNCHANGED <<q, pipe>> /\ Stay

\* abortExchange.
Abort(s) == IF s.x.finished THEN s ELSE IF s.x.bc \in {"dial", "ready"} THEN CloseConn(s, FALSE) ELSE Finish(s, FALSE)

\* Mutant: one flag is served at a time.
ServeOne(s, e, kept, pooled) ==
    LET b == BodyChunk([s EXCEPT !.x.bodyReady = FALSE], kept)
    IN  CASE ~s.x.started -> Begin([s EXCEPT !.x.started = TRUE], pooled)
          [] s.x.started /\ s.x.abortWanted -> Abort([s EXCEPT !.x.abortWanted = FALSE])
          [] s.x.started /\ ~s.x.abortWanted /\ s.x.bodyReady -> [b EXCEPT !.x.resumeWanted = FALSE]
          [] OTHER -> [s EXCEPT !.x.resumeWanted = FALSE, !.x.paused = @ /\ ~s.x.resumeWanted]

\* then its flags, or its start.
Serve(s, e, kept, pooled) ==
    LET b == IF s.x.bodyReady THEN BodyChunk([s EXCEPT !.x.bodyReady = FALSE], kept) ELSE s
    IN  CASE ~s.x.started -> Begin([s EXCEPT !.x.started = TRUE], pooled)
          [] s.x.started /\ s.x.abortWanted -> Abort([s EXCEPT !.x.abortWanted = FALSE])
          [] OTHER -> [b EXCEPT !.x.resumeWanted = FALSE, !.x.paused = @ /\ ~b.x.resumeWanted]

Served ==
    /\ loop.at = "serve"
    /\ \E kept \in 0..ex[loop.n].wbuf + 1 :
          Leaves(loop.n, Serve(Of(loop.n), loop.n, kept, loop.n \in mix.pooled))
    /\ loop' = [loop EXCEPT !.at = IF loop.check THEN "poll" ELSE "pop", !.n = Nil]
    /\ UNCHANGED q /\ Stay

\* EpollWait returns: with the eventfd's event, or with others, or by its timeout.
Wait ==
    /\ loop.at \in {"poll", "wait"}
    /\ loop' = [loop EXCEPT !.at = "events", !.saw = loop.wake]
    /\ UNCHANGED <<q, ex, pipe>> /\ Stay

\* sleeping.Store(0), and what the sockets and the sweep bring to one exchange.
Awake == [loop EXCEPT !.at = "top", !.sleeping = FALSE, !.saw = FALSE, !.wake = @ /\ ~loop.saw]
Quiet ==
    /\ loop.at = "events"
    /\ loop' = Awake
    /\ UNCHANGED <<q, ex, pipe>> /\ Stay
Event(e, event) ==
    /\ loop.at = "events"
    /\ event \in Happenings(ex[e], pipe[e])
    /\ Leaves(e, Happen(Of(e), event, Opened(e)))
    /\ loop' = Awake
    /\ UNCHANGED q /\ Stay

Loop ==
    \/ Top \/ Pop \/ PopLast \/ PopStub \/ PopRelink \/ Arm \/ Dispatch \/ Served \/ Wait \/ Quiet
    \/ \E e \in Exs, event \in {"connected", "data", "end", "error", "timeout", "writable"} : Event(e, event)

\* fpClient.Close: closed, then quit, then the write of stop.
Close ==
    /\ closer.at # "over"
    /\ CASE closer.at = "new" -> closer' = [at |-> "quit", closed |-> TRUE] /\ UNCHANGED loop
         [] closer.at = "quit" ->
               closer' = [closer EXCEPT !.at = "write"] /\ loop' = [loop EXCEPT !.quit = TRUE]
         [] closer.at = "write" ->
               closer' = [closer EXCEPT !.at = "over"] /\ loop' = [loop EXCEPT !.wake = TRUE]
    /\ UNCHANGED <<q, ex, pipe, caller, pump, mix>>

Caller(e) == Start(e) \/ CallerSubmits(e) \/ Answered(e) \/ Flag(e)
Pump(e) == PumpWaits(e) \/ PumpReads(e) \/ PumpReady(e) \/ PumpSubmits(e)

Next ==
    \/ Loop \/ Close
    \/ \E e \in Exs : Caller(e) \/ Pump(e) \/ CloseBody(e) \/ \E n \in 1..MaxPieces : ReadBody(e, n)

Spec == Init /\ [][Next]_vars

--------------------------------------------------------------------------------
(* Properties.                                                                  *)

Submitting == {"cas", "swap", "link", "wake", "write"}

TypeOK ==
    /\ q.head \in Exs \cup {Stub} /\ q.tail \in Exs \cup {Stub}
    /\ \A n \in Exs \cup {Stub} : q.next[n] \in Exs \cup {Stub, Nil}
    /\ \A e \in Exs : ex[e].want \in 0..1 /\ pipe[e].buf \in 0..MaxPieces /\ ex[e].wbuf \in 0..MaxPieces

\* submit and run: when the loop sleeps and no submission is under way, nothing is
\* queued, or its eventfd is readable.
NoLostSubmit ==
    loop.at = "wait" /\ (\A e \in Exs : caller[e].at \notin Submitting /\ pump[e].at \notin Submitting) =>
        loop.wake \/ \A e \in Exs : ~ex[e].queued

\* upstreamBody: the goroutine fills the buffer it shares with the loop only after
\* the loop has sent what was in it, so pieces go out once each and in order.
NoPieceLost == \A e \in Exs : ~ex[e].finished => ex[e].chunk \in {ex[e].sent, ex[e].sent + 1}

\* An unfinished upload on an open connection always has somebody who continues it:
\* the goroutine, the queue, or a write buffer above the mark.
UploadDriven ==
    \A e \in Exs : ex[e].body /\ ex[e].bc = "ready" /\ ~ex[e].bodyDone =>
        \/ ex[e].want > 0 \/ pump[e].at \in {"read", "ready", "cas"} \/ ex[e].bodyReady
        \/ ex[e].waiting /\ ex[e].wbuf > Mark

\* respPipe: a connection that the pipe paused is resumed once the caller has read
\* to the low mark: there is more to read, or the resumption is on its way.
PipeDriven ==
    \A e \in Exs : ex[e].paused =>
        \/ pipe[e].buf > Low /\ pipe[e].paused
        \/ pipe[e].closed
        \/ caller[e].at = "resume" \/ ex[e].resumeWanted

\* UpstreamBody.Close: an exchange whose caller closed the body ends, or its abort is
\* on its way.
AbortDriven ==
    \A e \in Exs : pipe[e].closed /\ ~ex[e].finished => caller[e].at = "abort" \/ ex[e].abortWanted

\* A flag set on an unfinished exchange is seen: the exchange is in the queue, about to be queued, or
\* about to be served.
FlagsSeen ==
    \A e \in Exs : ~ex[e].finished /\ (ex[e].bodyReady \/ ex[e].resumeWanted \/ ex[e].abortWanted) =>
        \/ ex[e].queued
        \/ loop.n = e /\ loop.at = "serve"
        \/ caller[e].at \in Submitting \/ pump[e].at \in Submitting

\* "Do ... blocks until a response is received or the request fails (for example if
\* the client is closed, ...)": a loop that has exited leaves no exchange open.
ClosedFails ==
    loop.at = "gone" => \A e \in Exs : caller[e].at \in {"wait", "head"} => ex[e].finished

\* Nobody waits for a response: every caller returned with it, with an error, or by the
\* deadline of its exchange.
CallsReturned == \A e \in Exs : caller[e].at \notin {"wait", "head"}

================================================================================
