------------------------------- MODULE H1Out -------------------------------
(***************************************************************************)
(* A large HTTP/1 response on its way out (epoll_h1_out_linux_amd64.go,    *)
(* epoll_h1_sendfile_linux_amd64.go): the handler's goroutine fills the    *)
(* stream writer or waits for it, the event loop pumps what is there into  *)
(* the connection's buffer and the socket.  A response is its head, unit   *)
(* 0, body units 1 .. Size and, when it is chunked, a last chunk; the      *)
(* connection answers Requests of them one after the other, each with the  *)
(* one writer it takes from the pool.                                      *)
(***************************************************************************)
EXTENDS Integers, Sequences, SequencesExt, FiniteSetsExt

CONSTANTS Size,       \* body units of a response
          Cap,        \* h1StreamPendingCap
          Mark,       \* h1OutSocketHighMark, tlsSealBatch
          SocketRoom, \* what the socket's send buffer takes
          WarmMax,    \* fileWarmMax
          Requests,   \* requests on the connection
          Mixes       \* what is served, and what may go wrong

VARIABLES t,     \* the connection, its writer, the handler, the loop
          mix

vars == <<t, mix>>

Kinds == {"body", "chunked", "length", "short", "over", "file", "detached"}
Declared(kind) == IF kind = "over" THEN Size - 1 ELSE Size
Unit(r, k) == <<r, k>>
BodyUnits(r, from, n) == [i \in 1 .. n |-> Unit(r, from + i - 1)]
Whole(r) == BodyUnits(r, 0, Declared(mix.kind) + (IF mix.kind = "chunked" THEN 2 ELSE 1))
None == -1

(* The writer as release leaves it in the pool. *)
FreeWriter == [inUse |-> FALSE, pending |-> <<>>, header |-> FALSE, ended |-> FALSE, finished |-> FALSE, done |-> FALSE,
               queued |-> FALSE, err |-> FALSE, left |-> 0, off |-> 0, blocked |-> FALSE, needIO |-> FALSE,
               mustClose |-> FALSE, length |-> None, bytes |-> 0]

Init == /\ mix \in Mixes
        /\ t = [req |-> 1, open |-> TRUE, wb |-> <<>>, body |-> <<>>, bodyOut |-> <<>>, first |-> FALSE, stream |-> FALSE,
                dispatching |-> TRUE, keep |-> FALSE, closeAfter |-> FALSE, armed |-> FALSE, flush |-> FALSE, resume |-> FALSE,
                sw |-> FreeWriter, h |-> "start", n |-> 0, post |-> FALSE,
                tasks |-> 0, doneQ |-> FALSE, snap |-> FALSE, loop |-> "idle", event |-> FALSE,
                wire |-> <<>>, room |-> SocketRoom, fsize |-> Size, cold |-> mix.cold]

Become(s) == t' = s /\ UNCHANGED mix
Sealed == mix.tls

---------------------------------------------------------------------------
(* The writer, under its mutex. *)

ClaimPump(s) == IF s.sw.queued \/ s.sw.finished THEN s ELSE [s EXCEPT !.sw.queued = TRUE, !.post = TRUE]
EndLocked(s) == IF s.sw.ended THEN s
                ELSE [s EXCEPT !.sw.ended = TRUE,
                               !.sw.pending = IF mix.kind = "chunked" /\ s.sw.header THEN Append(@, Unit(s.req, Size + 1)) ELSE @]

(* space.Broadcast: a handler waiting in sendFileRange wakes up; one in       *)
(* WriteChunk looks at the buffer again whenever it changed.                  *)
Broadcast(s) == [s EXCEPT !.h = IF @ = "asleep" THEN "woken" ELSE @]

Fail(s) == Broadcast([s EXCEPT !.sw.err = TRUE, !.sw.finished = TRUE])
Release(s) == [s EXCEPT !.sw = FreeWriter]
FailFile(s) == [s EXCEPT !.sw.err = TRUE, !.sw.mustClose = TRUE, !.sw.left = 0]
FramingComplete(sw) == sw.length = None \/ sw.bytes = sw.length

AdmitBody(s, n) == IF s.sw.length # None /\ s.sw.bytes + n > s.sw.length THEN [s EXCEPT !.sw.mustClose = TRUE]
                   ELSE [s EXCEPT !.sw.bytes = @ + n]
Admitted(s, n) == s.sw.length = None \/ s.sw.bytes + n <= s.sw.length

---------------------------------------------------------------------------
(* The loop's half. *)

OutRoom(s) == Mark - Len(s.wb)
Sent(s, us) == [s EXCEPT !.wire = @ \o us, !.room = @ - Len(us)]
Least(a, b) == IF a < b THEN a ELSE b

(* h1SendHeadMore *)
SendHeadMore(s) ==
  LET n == IF s.armed THEN 0 ELSE Least(s.room, Len(s.wb))
  IN [Sent(s, SubSeq(s.wb, 1, n)) EXCEPT !.wb = SubSeq(@, n + 1, Len(@))]

(* sendfile(2) until the range is out, the socket full, or the file's end    *)
(* comes too early.                                                          *)
SendFile(s) ==
  LET n == Max({0, Min({s.sw.left, s.room, s.fsize - s.sw.off})})
      u == [Sent(s, BodyUnits(s.req, s.sw.off + 1, n)) EXCEPT !.sw.left = @ - n, !.sw.off = @ + n]
  IN CASE u.sw.left = 0 -> u
       [] u.sw.off >= u.fsize -> FailFile(u)
       [] OTHER -> [u EXCEPT !.sw.blocked = TRUE]

(* h1SealFile: pread without waiting; a page that is not in memory is left   *)
(* to the handler.                                                           *)
SealFile(s) ==
  LET most == Min({OutRoom(s), s.sw.left, s.fsize - s.sw.off})
      cold == {i \in 1 .. most : s.sw.off + i \in s.cold}
      n == IF cold = {} THEN Max({0, most}) ELSE Min(cold) - 1
      u == [s EXCEPT !.wb = @ \o BodyUnits(s.req, s.sw.off + 1, n), !.sw.left = @ - n, !.sw.off = @ + n]
  IN CASE OutRoom(s) <= 0 -> s
       [] cold # {} -> [u EXCEPT !.sw.needIO = TRUE]
       [] u.sw.left > 0 /\ u.sw.off >= u.fsize -> FailFile(u)
       [] OTHER -> u

PumpFileAhead(s) == IF s.sw.left = 0 THEN s ELSE IF Sealed THEN SealFile(s) ELSE SendFile(s)
PumpFile(q) ==
  LET s == [q EXCEPT !.sw.blocked = FALSE]
      u == IF s.wb = <<>> THEN s ELSE IF s.bodyOut # <<>> \/ s.sw.left > Mark THEN s ELSE SendHeadMore(s)
  IN CASE s.sw.left = 0 \/ s.sw.pending # <<>> \/ s.sw.needIO -> s
       [] Sealed -> SealFile(s)
       [] u.wb # <<>> -> u
       [] OTHER -> SendFile(u)

(* h1FinishOut *)
FinishOut(s) == [(IF s.stream THEN Release(s) ELSE s) EXCEPT
                   !.stream = FALSE, !.dispatching = FALSE, !.flush = TRUE,
                   !.resume = s.resume \/ s.keep, !.closeAfter = s.closeAfter \/ ~s.keep]

(* h1PumpStream, and h1FinishOut when the response is out. *)
PumpStream(s) ==
  LET n == Max({0, Least(OutRoom(s), Len(s.sw.pending))})
      u == PumpFile([s EXCEPT !.wb = @ \o SubSeq(s.sw.pending, 1, n), !.sw.pending = SubSeq(@, n + 1, Len(@))])
      done == u.sw.done /\ u.sw.ended /\ u.sw.pending = <<>> /\ u.sw.left = 0
      v == Broadcast([u EXCEPT !.sw.finished = done])
  IN IF s.sw.finished THEN s ELSE IF done THEN FinishOut(v) ELSE v

(* h1PumpBody: sealed into the buffer, or handed to the socket as it is, the  *)
(* first segment of it alone.                                                 *)
PumpBody(s) ==
  LET n == IF Sealed THEN Max({0, Least(OutRoom(s), Len(s.body))}) ELSE IF s.first THEN Len(s.body) ELSE 1
      rest == SubSeq(s.body, n + 1, Len(s.body))
  IN CASE Sealed /\ OutRoom(s) <= 0 -> s
       [] Sealed -> LET u == [s EXCEPT !.wb = @ \o SubSeq(s.body, 1, n), !.body = rest]
                    IN IF rest = <<>> THEN FinishOut(u) ELSE u
       [] s.bodyOut # <<>> -> s
       [] s.body # <<>> -> [s EXCEPT !.first = TRUE, !.bodyOut = SubSeq(s.body, 1, n), !.body = rest]
       [] OTHER -> FinishOut(s)

(* h1PumpOut *)
Responding(s) == s.dispatching /\ mix.kind = "body" /\ s.h = "none"
PumpOut(s) == IF Responding(s) THEN PumpBody(s) ELSE IF s.stream THEN PumpStream(s) ELSE s

(* h1AbortOut, when the connection closes. *)
AbortReleasing(s) == [(IF s.stream THEN Release(Fail(s)) ELSE s) EXCEPT !.stream = FALSE, !.body = <<>>, !.bodyOut = <<>>]
AbortOut(s) ==
  LET u == IF s.stream THEN Fail(s) ELSE s
  IN [(IF s.stream /\ s.sw.done THEN Release(u) ELSE u) EXCEPT
        !.stream = FALSE, !.body = <<>>, !.bodyOut = <<>>, !.resume = FALSE, !.keep = FALSE]

CloseConn(s) == [AbortOut(s) EXCEPT !.open = FALSE, !.wb = <<>>, !.armed = FALSE, !.event = FALSE, !.dispatching = FALSE, !.loop = "idle", !.flush = FALSE]

---------------------------------------------------------------------------
(* Turns of the loop: tasks, finished handlers, then the flush list. *)

(* drainTasks takes the finished handlers before the tasks, and finishes     *)
(* them after.                                                               *)
StartDrain == /\ t.loop = "idle" /\ (t.tasks > 0 \/ t.doneQ)
              /\ Become([t EXCEPT !.loop = "drain", !.snap = t.doneQ, !.doneQ = FALSE])

(* h1StreamPumpTask *)
PumpTaskKeeps(s) == IF s.open THEN [PumpOut([s EXCEPT !.stream = TRUE]) EXCEPT !.flush = TRUE] ELSE Fail(s)
PumpTask(q) ==
  LET s == [q EXCEPT !.sw.queued = FALSE]
  IN IF s.open THEN [PumpOut([s EXCEPT !.stream = TRUE]) EXCEPT !.flush = TRUE] ELSE Fail(s)

RunTask == t.loop = "drain" /\ t.tasks > 0 /\ Become(PumpTask([t EXCEPT !.tasks = @ - 1]))

(* h1FinishStreamed *)
KeepsAliveByHeader(sw) == ~sw.mustClose
KeepsAlive(sw) == ~sw.mustClose /\ FramingComplete(sw)
FinishStreamed(q) ==
  LET s == EndLocked([q EXCEPT !.sw.done = TRUE])
  IN [PumpOut([s EXCEPT !.dispatching = TRUE, !.stream = TRUE, !.keep = KeepsAlive(s.sw)]) EXCEPT !.flush = TRUE]

(* h1StartProgressiveBody *)
StartProgressiveBody(s) ==
  LET u == [s EXCEPT !.wb = Append(@, Unit(s.req, 0)), !.body = BodyUnits(s.req, 1, Size), !.first = FALSE,
                     !.dispatching = TRUE, !.keep = TRUE]
  IN [(IF Sealed THEN u ELSE PumpOut(u)) EXCEPT !.flush = TRUE]

(* finishH1Dispatch *)
FinishDispatch(s) ==
  CASE mix.kind = "body" -> IF s.open THEN StartProgressiveBody([s EXCEPT !.h = "none"]) ELSE [s EXCEPT !.h = "none"]
    [] ~s.open -> Release(Fail([s EXCEPT !.h = "none"]))
    [] OTHER -> FinishStreamed([s EXCEPT !.h = "none"])

DrainEnds == /\ t.loop = "drain" /\ t.tasks = 0
             /\ Become([(IF t.snap THEN FinishDispatch(t) ELSE t) EXCEPT !.snap = FALSE, !.loop = "idle"])

(* flush: what is buffered goes to the socket, then what can be pumped.      *)
StartFlush == /\ t.loop = "idle" /\ t.open /\ (t.flush \/ t.event)
              /\ Become([t EXCEPT !.loop = "flush", !.flush = IF t.event THEN @ ELSE FALSE, !.event = FALSE])

(* resumeConn: the next request of the connection. *)
EndFlush(s) == IF s.resume /\ s.req < Requests
               THEN [s EXCEPT !.loop = "idle", !.resume = FALSE, !.req = @ + 1, !.dispatching = TRUE, !.h = "start", !.n = 0]
               ELSE [s EXCEPT !.loop = "idle", !.resume = FALSE]

FileBlocked(s) == s.stream /\ s.sw.blocked
FlushNeverArms(s) == EndFlush(s)
Arm(s) == EndFlush([s EXCEPT !.armed = TRUE])

FlushStep ==
  LET out == t.wb \o t.bodyOut
      n == Least(t.room, Len(out))
      w == Least(n, Len(t.wb))
      u == PumpOut(t)
  IN /\ t.loop = "flush"
     /\ CASE out # <<>> /\ n > 0 ->
               Become([Sent(t, SubSeq(out, 1, n)) EXCEPT !.wb = SubSeq(@, w + 1, Len(@)), !.bodyOut = SubSeq(@, n - w + 1, Len(@))])
          [] out # <<>> -> Become(Arm(t))
          [] u.wb \o u.bodyOut # <<>> -> Become(u)
          [] FileBlocked(u) -> Become(Arm(u))
          [] u.closeAfter -> Become(CloseConn(u))
          [] OTHER -> Become(EndFlush([u EXCEPT !.armed = FALSE]))

---------------------------------------------------------------------------
(* The handler's goroutine. *)

Runs(at) == t.h = at /\ ~t.post

(* postTask, after the mutex is given back. *)
PostTask == t.post /\ Become([t EXCEPT !.post = FALSE, !.tasks = @ + 1])

Return(s) == [s EXCEPT !.h = "none", !.doneQ = TRUE]

WriteHeader ==
  LET sw == [FreeWriter EXCEPT !.inUse = TRUE, !.header = TRUE, !.pending = <<Unit(t.req, 0)>>,
                               !.length = IF mix.kind = "chunked" THEN None ELSE Declared(mix.kind)]
  IN /\ Runs("start") /\ mix.kind # "body"
     /\ Become(ClaimPump([t EXCEPT !.sw = sw, !.h = IF mix.kind \in {"file", "detached"} THEN mix.kind ELSE "chunk"]))

BodyReturns == Runs("start") /\ mix.kind = "body" /\ Become(Return(t))

Total == IF mix.kind = "short" THEN Size - 1 ELSE Size

WriteChunk ==
  /\ Runs("chunk") /\ t.n < Total
  /\ t.sw.err \/ Len(t.sw.pending) < Cap \/ ~Admitted(t, 1)
  /\ IF t.sw.err \/ ~Admitted(t, 1) THEN Become([AdmitBody(t, 1) EXCEPT !.h = "return"])
     ELSE Become(ClaimPump([AdmitBody(t, 1) EXCEPT !.sw.pending = Append(@, Unit(t.req, t.n + 1)), !.n = @ + 1]))

FlushWriter == Runs("chunk") /\ t.n = Total /\ Become(ClaimPump([t EXCEPT !.h = "close"]))

Close == Runs("close") /\ Become(ClaimPump([EndLocked(t) EXCEPT !.h = "return"]))

HandlerReturns == Runs("return") /\ Become(Return(t))

(* sendFileRange hands the range to the loop and waits for it. *)
SendFileRange ==
  /\ Runs("file") /\ Become(ClaimPump([AdmitBody(t, Size) EXCEPT !.sw.left = Size, !.sw.off = 0, !.h = "relock"]))

(* The loop over space.Wait: only a waiter that is woken looks at needIO. *)
WaitsAgain(s) == IF s.sw.err THEN "return" ELSE IF s.sw.left > 0 THEN "asleep" ELSE "close"
Relock == Runs("relock") /\ Become([t EXCEPT !.h = WaitsAgain(t)])
Woken == Runs("woken") /\ Become([t EXCEPT !.h = IF t.sw.needIO THEN "warm" ELSE WaitsAgain(t)])

(* warmFileLocked reads the range with the mutex given back. *)
WarmFile ==
  LET warmed == t.sw.off + 1 .. t.sw.off + Least(t.sw.left, WarmMax)
      u == [t EXCEPT !.sw.needIO = FALSE, !.cold = @ \ warmed, !.h = "relock"]
  IN /\ Runs("warm")
     /\ IF \E i \in warmed : i > t.fsize THEN Become(IF t.sw.err THEN u ELSE FailFile(u)) ELSE Become(ClaimPump(u))

(* sendFileDetached: the writer keeps the descriptor, the handler goes on. *)
SendFileDetached ==
  /\ Runs("detached")
  /\ LET u == AdmitBody(t, Size)
     IN Become(ClaimPump(IF t.sw.err THEN [u EXCEPT !.h = "close"] ELSE [u EXCEPT !.sw.left = Size, !.sw.off = 0, !.h = "close"]))

---------------------------------------------------------------------------
(* The peer and the file system. *)
PeerReads == /\ t.open /\ t.room = 0 /\ t.loop = "idle" /\ Become([t EXCEPT !.room = SocketRoom, !.event = t.armed])
PeerGone == mix.gone /\ t.open /\ t.loop = "idle" /\ Become(CloseConn(t))
Shrinks == mix.shrink /\ t.fsize = Size /\ t.loop = "idle" /\ Become([t EXCEPT !.fsize = Size - 1])

Next == \/ StartDrain \/ RunTask \/ DrainEnds \/ StartFlush \/ FlushStep
        \/ PostTask \/ WriteHeader \/ BodyReturns \/ WriteChunk \/ FlushWriter \/ Close \/ HandlerReturns
        \/ SendFileRange \/ Relock \/ Woken \/ WarmFile \/ SendFileDetached
        \/ PeerReads \/ PeerGone \/ Shrinks

Spec == Init /\ [][Next]_vars

---------------------------------------------------------------------------
(* Where the response stands. *)
TypeOK == /\ t.tasks \in 0 .. 1 /\ t.room \in 0 .. SocketRoom /\ t.sw.left \in 0 .. Size
          /\ Len(t.sw.pending) <= Cap + 2 /\ Len(t.wb) <= Mark + 1

(* What the peer has been sent, what is buffered and what the writer holds   *)
(* is each response in order, with nothing twice and nothing missing in      *)
(* between, whatever way it took: through the buffer, straight from the      *)
(* body, or from the file (h1PumpStream, h1PumpFile, h1HandOffBody).         *)
InOrder == LET all == IF t.open THEN t.wire \o t.wb \o t.bodyOut \o t.sw.pending ELSE t.wire
           IN \A i \in 1 .. Len(all) - 1 :
                \/ all[i + 1] = Unit(all[i][1], all[i][2] + 1)
                \/ all[i + 1] = Unit(all[i][1] + 1, 0)

(* The next response begins only when the one before is whole: a body that   *)
(* came out short of its Content-Length closes the connection instead        *)
(* (h1FinishStreamed, framingComplete, failFile).                            *)
WholeBeforeNext == \A i \in 1 .. Len(t.wire) - 1 :
                     t.wire[i + 1][1] # t.wire[i][1] => t.wire[i] = Last(Whole(t.wire[i][1]))

(* A writer given back to the pool is referred to by no connection, no       *)
(* queued pump and no handler (h1FinishOut, h1AbortOut, finishH1Dispatch).   *)
PooledUntouched == ~t.sw.inUse => /\ ~t.stream /\ t.tasks = 0 /\ ~t.post
                                  /\ t.h \in {"none", "start"}

Runnable == t.post \/ t.h \in {"start", "close", "return", "file", "detached", "relock", "woken", "warm"}
                   \/ (t.h = "chunk" /\ (t.n = Total \/ t.sw.err \/ Len(t.sw.pending) < Cap))
Quiet == t.loop = "idle" /\ t.tasks = 0 /\ ~t.doneQ /\ ~t.flush /\ ~t.event /\ ~Runnable

(* When nobody has anything left to do, either everything is answered or the *)
(* socket is full and its EPOLLOUT will start the loop again; only a handler *)
(* whose file is not in memory is looked at below (flush, armOut,            *)
(* claimPumpLocked).                                                         *)
NothingStuck == Quiet /\ t.open /\ t.dispatching => (t.armed /\ t.room = 0) \/ t.sw.needIO

=============================================================================
