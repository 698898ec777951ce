--------------------------------- MODULE H2Conn --------------------------------
(* The streams of one HTTP/2 connection: the frame handlers of                   *)
(* src/core/epoll_h2_linux_amd64.go, the streamed responses of                   *)
(* epoll_h2_stream_linux_amd64.go and the handler goroutines they run.           *)
(*                                                                               *)
(* Identifiers are 1, 2, ... in the order in which a client may open streams.    *)
(* The loop's work on a frame, a task or a finished handler is one step.  What   *)
(* windows allow is a choice here; H2Flow computes it.                           *)
EXTENDS Integers, Sequences, FiniteSets

CONSTANTS
    N,          \* bound: streams the client opens
    MaxStreams, \* h2MaxStreams
    MaxTasks    \* epollTaskQueueSize

Ids == 1..N

VARIABLES
    h2,     \* the connection
    str,    \* its streams
    tasks,  \* pump tasks in taskCh
    done,   \* the h2Done list, first pushed first
    loop    \* the step of drainTasks and the list it took

vars == <<h2, str, tasks, done, loop>>

NoWriter == [made |-> FALSE, ready |-> FALSE, pend |-> FALSE, ended |-> FALSE,
             fin |-> FALSE, err |-> FALSE, early |-> FALSE, reg |-> FALSE, queued |-> FALSE]
\* at: "open" in st.streams, "busy" with a handler, "sending" in st.sending, "draining"
\* in h2Streaming after its handler.  body: the request body a BodyReader carries.
NewStream == [at |-> "idle", returned |-> FALSE, abandoned |-> FALSE, counted |-> FALSE,
              body |-> "none", sw |-> NoWriter]
\* told: the last stream a GOAWAY announced.  charged: the frame was counted by
\* countReset or countCtrl.
NewConn == [up |-> "open", cont |-> 0, contEnd |-> FALSE, highest |-> 0, last |-> 0,
            goingAway |-> FALSE, told |-> N, peerAway |-> FALSE, charged |-> FALSE,
            inFlight |-> 0, ended |-> 0, draining |-> 0]

Init ==
    /\ h2 = NewConn
    /\ str = [i \in Ids |-> NewStream]
    /\ tasks = <<>> /\ done = <<>>
    /\ loop = [at |-> "idle", due |-> <<>>]

\* The types; no count is ever negative.
TypeOK ==
    /\ h2.up \in {"open", "closing", "closed"}
    /\ h2.cont \in 0..N /\ h2.highest \in 0..N /\ h2.last \in 0..h2.highest /\ h2.told \in 0..N /\ ~h2.charged
    /\ h2.inFlight \in 0..N /\ h2.ended \in 0..(2 * N) /\ h2.draining \in 0..N
    /\ \A i \in Ids : /\ str[i].at \in {"idle", "open", "busy", "sending", "draining", "gone"}
                      /\ str[i].body \in {"none", "open", "large"}
                      /\ str[i].sw \in [DOMAIN NoWriter -> BOOLEAN]
    /\ tasks \in Seq(Ids) /\ done \in Seq(Ids)
    /\ loop.at \in {"idle", "tasks", "finish"}

Among(s, where) == {i \in Ids : s[i].at = where}

--------------------------------------------------------------------------------
(* Handlers map p, the connection h and its streams s, to what they leave.       *)

\* A GOAWAY with an error code; the handler returns true and the connection closes
\* once it is flushed.
GoAway(p) == [p EXCEPT !.h.up = "closing"]

\* refuseH2Stream (RST_STREAM, countReset) and h2ChargeLimiter(countCtrl()).
Refuse(p) == [p EXCEPT !.h.charged = TRUE]
ChargeCtrl(p) == [p EXCEPT !.h.charged = TRUE]

\* epollReleaseH2Stream, for a stream whose request is not complete.
ReleaseOpen(p, i) == IF p.s[i].at = "open" THEN [p EXCEPT !.s[i].at = "gone"] ELSE p

\* h2BodyIn has the stream.
InMap(p, i) == p.s[i].body \in {"open", "large"}

\* h2EndBodyIn, with an error or at the end of the body.
EndBody(p, i) == IF InMap(p, i) THEN [p EXCEPT !.s[i].body = "none"] ELSE p

\* epollH2StreamWriter.fail.
Fail(p, i) == [p EXCEPT !.s[i].sw.err = TRUE, !.s[i].sw.fin = TRUE]

\* h2UncountEndedEarly and h2UncountAbandoned.
UncountEarly(p, i) ==
    [p EXCEPT !.h.ended = IF p.s[i].sw.early /\ @ > 0 THEN @ - 1 ELSE @, !.s[i].sw.early = FALSE]
UncountAbandoned(p, i) ==
    [p EXCEPT !.h.ended = IF p.s[i].counted /\ @ > 0 THEN @ - 1 ELSE @, !.s[i].counted = FALSE]

\* H2Stream.Reset and the writer's release: both go back to their pools.
Recycle(p, i) == [p EXCEPT !.s[i] = [NewStream EXCEPT !.at = "gone", !.body = p.s[i].body]]

\* h2ReleaseStreaming.
ReleaseStreaming(p, i) ==
    Recycle([p EXCEPT !.h.draining = IF @ > 0 THEN @ - 1 ELSE @], i)

\* Mutant: the stream's handler is counted when its writer is cancelled, and again.
CancelTwice(p, i, now) ==
    [p EXCEPT !.s[i].sw.err = TRUE, !.s[i].sw.fin = TRUE, !.s[i].sw.reg = FALSE,
              !.s[i].sw.early = TRUE, !.h.ended = @ + 2]

\* h2CancelStreaming, and the count of a handler abandoned without a writer.
Cancel(p, i, now) ==
    IF p.s[i].sw.reg
    THEN LET q == Fail(p, i)
         IN  IF p.s[i].at = "draining" THEN ReleaseStreaming(q, i)
             ELSE [q EXCEPT !.s[i].sw.reg = FALSE, !.s[i].sw.early = TRUE,
                            !.h.ended = IF p.s[i].sw.early THEN @ ELSE @ + 1]
    ELSE IF now THEN [p EXCEPT !.s[i].counted = TRUE, !.h.ended = @ + 1] ELSE p

\* abandonH2Stream, with cancelBusyStream.
Abandon(p, i) ==
    LET sent == IF p.s[i].at = "sending" THEN Recycle(p, i) ELSE ReleaseOpen(p, i)
        now == sent.s[i].at = "busy" /\ ~sent.s[i].abandoned
        told == IF now THEN [sent EXCEPT !.s[i].abandoned = TRUE] ELSE sent
    IN  EndBody(Cancel(told, i, now), i)

\* rejectH2Body.
RejectBody(p, i) == Refuse(EndBody(ReleaseOpen(p, i), i))

\* epollH2DispatchStream: the handler starts, with a BodyReader if the body streams.
Dispatch(p, i, streamed) ==
    [p EXCEPT !.s[i].at = "busy", !.h.inFlight = @ + 1,
              !.s[i].body = IF streamed THEN "open" ELSE "none"]

\* h2PeerStreamsAtLimit.
AtLimit(p) ==
    Cardinality(Among(p.s, "open")) + Cardinality(Among(p.s, "sending"))
        + p.h.inFlight - p.h.ended + p.h.draining >= MaxStreams

Streaming(s) == {i \in Ids : s[i].sw.reg}

\* h2StreamAwaitingResponse.
Awaiting(p, i) == p.s[i].at \in {"busy", "sending", "draining"}

\* epollH2Trailers: what becomes of the body, ok if the trailers fit it.
Trailers(p, i, end, kind) ==
    IF kind = "undecodable" THEN GoAway(p)
    ELSE IF ~end \/ kind # "ok" THEN RejectBody(p, i)
    ELSE IF p.s[i].at = "open" THEN Dispatch(p, i, FALSE)
    ELSE EndBody(p, i)

\* Mutant: a stream refused during shutdown counts as processed.
OpenAnyway(p, i, end, kind, streamed) ==
    LET q == [p EXCEPT !.h.highest = i, !.h.last = i]
    IN  IF kind = "undecodable" THEN GoAway(q)
        ELSE IF kind # "ok" THEN Refuse(q)
        ELSE IF q.h.peerAway \/ AtLimit(q) THEN Refuse(q)
        ELSE IF q.h.ended >= MaxStreams THEN ChargeCtrl(q)
        ELSE IF end THEN Dispatch(q, i, FALSE)
        ELSE IF streamed THEN Dispatch(q, i, TRUE)
        ELSE [q EXCEPT !.s[i].at = "open"]

\* epollH2DecodedHeaders for a new stream, refuseH2StreamGoingAway.  The prepared
\* answer for / needs no stream and is the case of a refusal that charges nothing.
Open(p, i, end, kind, streamed) ==
    LET q == [p EXCEPT !.h.highest = i, !.h.last = IF p.h.goingAway THEN @ ELSE i]
    IN  IF kind = "undecodable" THEN GoAway(q)
        ELSE IF q.h.goingAway \/ (kind = "root" /\ end) THEN q
        ELSE IF kind \notin {"ok", "root"} THEN Refuse(q)
        ELSE IF q.h.peerAway \/ AtLimit(q) THEN Refuse(q)
        ELSE IF q.h.ended >= MaxStreams THEN ChargeCtrl(q)
        ELSE IF end THEN Dispatch(q, i, FALSE)
        ELSE IF streamed THEN Dispatch(q, i, TRUE)
        ELSE [q EXCEPT !.s[i].at = "open"]

DecodedHeaders(p, i, end, kind, streamed) ==
    IF i > p.h.highest THEN Open(p, i, end, kind, streamed)
    ELSE IF p.s[i].at = "open" \/ InMap(p, i) THEN Trailers(p, i, end, kind)
    ELSE IF ~end \/ Awaiting(p, i) \/ kind = "undecodable" THEN GoAway(p)
    ELSE Refuse(p)

\* epollH2Data, h2StreamBodyData.  what: how the payload stands to the connection's
\* window, its padding, the stream's window, the budgets and the declared length.
Data(p, i, end, what) ==
    IF what = "overConn" THEN GoAway(p)
    ELSE IF p.s[i].at = "open"
    THEN CASE what = "badPadding" -> p
           [] what \in {"overStream", "refused"} -> ReleaseOpen(p, i)
           [] what = "overLength" -> RejectBody(p, i)
           [] what = "ok" -> IF end THEN Dispatch(p, i, FALSE) ELSE p
    ELSE IF InMap(p, i)
    THEN CASE what \in {"badPadding", "overStream"} -> EndBody(p, i)
           [] what = "overLength" -> RejectBody(p, i)
           [] what = "refused" /\ ~end -> [p EXCEPT !.s[i].body = "large"]
           [] OTHER -> IF end THEN EndBody(p, i) ELSE p
    ELSE p

--------------------------------------------------------------------------------
(* The writer of a streamed response.                                            *)

\* h2SettleStream.
Settle(p, i) ==
    IF ~p.s[i].sw.fin THEN p
    ELSE IF p.s[i].at = "draining" THEN ReleaseStreaming(p, i)
    ELSE IF p.s[i].sw.early THEN p
    ELSE [p EXCEPT !.s[i].sw.early = TRUE, !.h.ended = @ + 1]

\* h2PumpSealed, h2PumpFrames: the header block, then what the window has room for,
\* and END_STREAM with the last of it.
Pump(p, i, room) ==
    LET w == [p.s[i].sw EXCEPT !.queued = FALSE]
        sent == [w EXCEPT !.pend = @ /\ ~room]
        next == CASE w.fin -> w
                  [] w.err -> [w EXCEPT !.fin = TRUE]
                  [] ~w.ready -> w
                  [] OTHER -> [sent EXCEPT !.fin = sent.ended /\ ~sent.pend]
    IN  Settle([p EXCEPT !.s[i].sw = next], i)

\* Mutant: the writer is not put into h2Streaming.
PumpOnce(p, i, room) ==
    IF p.h.up = "closed" THEN Fail([p EXCEPT !.s[i].sw.queued = FALSE], i) ELSE Pump(p, i, room)

\* h2PumpTask.
PumpTask(p, i, room) ==
    IF p.h.up = "closed" THEN Fail([p EXCEPT !.s[i].sw.queued = FALSE], i)
    ELSE Pump([p EXCEPT !.s[i].sw.reg = TRUE], i, room)

\* h2FinishStreamed.
FinishStreamed(p, i, room) ==
    LET q == UncountEarly([p EXCEPT !.s[i].sw.ended = TRUE], i)
    IN  IF p.s[i].sw.fin THEN Recycle(q, i)
        ELSE Pump([q EXCEPT !.s[i].at = "draining", !.s[i].sw.reg = TRUE, !.h.draining = @ + 1],
                  i, room)

\* Mutant: the reader of the request body is left open.
FinishKeepsBody(p, i, room) ==
    LET q == [p EXCEPT !.h.inFlight = @ - 1]
    IN  IF q.h.up = "closed" THEN Recycle(UncountEarly(q, i), i)
        ELSE LET u == UncountAbandoned(q, i)
                 f == IF u.s[i].sw.made /\ u.s[i].abandoned THEN Fail(u, i) ELSE u
             IN  IF f.s[i].sw.ready THEN FinishStreamed(f, i, room)
                 ELSE IF f.s[i].abandoned \/ room THEN Recycle(f, i)
                 ELSE [f EXCEPT !.s[i].at = "sending", !.s[i].sw = NoWriter]

\* finishH2Dispatch, on the loop: the answer goes out as far as the window has room,
\* the rest stays in st.sending.
Finish(p, i, room) ==
    LET q == [p EXCEPT !.h.inFlight = @ - 1]
    IN  IF q.h.up = "closed" THEN Recycle(UncountEarly(q, i), i)
        ELSE LET u == EndBody(UncountAbandoned(q, i), i)
                 f == IF u.s[i].sw.made /\ u.s[i].abandoned THEN Fail(u, i) ELSE u
             IN  IF f.s[i].sw.ready THEN FinishStreamed(f, i, room)
                 ELSE IF f.s[i].abandoned \/ room THEN Recycle(f, i)
                 ELSE [f EXCEPT !.s[i].at = "sending", !.s[i].sw = NoWriter]

\* closeConn: cancelBusy, h2AbortAllStreaming, h2AbortAllBodyIn, the release of
\* st.streams and st.sending.
CloseConn(p) ==
    [h |-> [NewConn EXCEPT !.up = "closed", !.inFlight = p.h.inFlight],
     s |-> [i \in Ids |->
              LET x == EndBody(IF p.s[i].sw.reg THEN Fail(p, i) ELSE p, i).s[i]
              IN  IF x.at = "busy" THEN [x EXCEPT !.sw.reg = FALSE]
                  ELSE [NewStream EXCEPT !.at = "gone", !.body = x.body]]]

--------------------------------------------------------------------------------
(* The loop.                                                                     *)

Now == [h |-> h2, s |-> str]

\* countReset and countCtrl count in windows of a second: any counted frame may be
\* the one too many, which sends GOAWAY and closes.
Become(p) == \E trip \in BOOLEAN :
    /\ trip => p.h.charged
    /\ h2' = [(IF trip THEN GoAway(p) ELSE p).h EXCEPT !.charged = FALSE]
    /\ str' = p.s
Serving == loop.at = "idle" /\ h2.up = "open"

\* epollProcessH2Frames, when no header block is open.
Frame(p) == Serving /\ h2.cont = 0 /\ Become(p) /\ UNCHANGED <<tasks, done, loop>>

Kinds == {"ok", "root", "malformed", "undecodable"}

RecvHeaders == \E i \in Ids, end \in BOOLEAN, kind \in Kinds, streamed \in BOOLEAN :
    i <= h2.highest + 1 /\ Frame(DecodedHeaders(Now, i, end, kind, streamed))

\* epollH2Headers without END_HEADERS.
RecvHeadersPart == \E i \in Ids, end \in BOOLEAN :
    i <= h2.highest + 1 /\ Frame([Now EXCEPT !.h.cont = i, !.h.contEnd = end])

\* epollH2Continuation: more of the block, its end, or too much of it.
RecvContinuation ==
    /\ Serving /\ h2.cont # 0
    /\ LET rest == [Now EXCEPT !.h.cont = 0, !.h.contEnd = FALSE]
       IN  \/ Become(ChargeCtrl(Now))
           \/ Become(GoAway(rest))
           \/ \E kind \in Kinds, streamed \in BOOLEAN :
                 Become(DecodedHeaders(rest, h2.cont, h2.contEnd, kind, streamed))
    /\ UNCHANGED <<tasks, done, loop>>

RecvData == \E i \in 1..h2.highest, end \in BOOLEAN,
               what \in {"ok", "overConn", "badPadding", "overStream", "refused", "overLength"} :
    Frame(Data(Now, i, end, what))

RecvReset == \E i \in 1..h2.highest : Frame(Refuse(Abandon(Now, i)))

\* SETTINGS, PING, PRIORITY and empty DATA are counted.
RecvCounted == Frame(ChargeCtrl(Now))

\* A frame that is malformed, out of place or breaks flow control: GOAWAY.
RecvBad == Serving /\ Become(GoAway(Now)) /\ UNCHANGED <<tasks, done, loop>>

\* h2Quiescent.
Quiescent(p) == p.h.inFlight = 0 /\ Streaming(p.s) = {} /\ (\A i \in Ids : ~InMap(p, i))
                /\ \A i \in Ids : p.s[i].at \notin {"open", "sending"}

RecvGoAway ==
    LET q == [Now EXCEPT !.h.peerAway = TRUE]
    IN  Frame(IF Quiescent(q) THEN GoAway(q) ELSE q)

\* goAwayForShutdown.
GoAwayForShutdown ==
    /\ loop.at = "idle" /\ h2.up # "closed" /\ ~h2.goingAway
    /\ h2' = [h2 EXCEPT !.goingAway = TRUE, !.told = h2.last]
    /\ UNCHANGED <<str, tasks, done, loop>>

\* flush: h2PumpAll for what is streaming, h2ResumeSending for what is parked, and
\* h2PeerLeft once nothing is left.
Flush ==
    /\ loop.at = "idle" /\ h2.up # "closed"
    /\ \/ \E i \in Streaming(str), room \in BOOLEAN : Become(Pump(Now, i, room))
       \/ \E i \in Among(str, "sending") : Become(Recycle(Now, i))
       \/ h2.peerAway /\ Quiescent(Now) /\ h2.up = "open" /\ Become(GoAway(Now))
    /\ UNCHANGED <<tasks, done, loop>>

\* The peer hangs up, or a connection that closes is flushed.
Close == h2.up # "closed" /\ Become(CloseConn(Now)) /\ UNCHANGED <<tasks, done, loop>>

\* drainTasks: the list of finished handlers is taken before the tasks run ...
TakeDone ==
    /\ loop.at = "idle" /\ (tasks # <<>> \/ done # <<>>)
    /\ loop' = [at |-> "tasks", due |-> done]
    /\ done' = <<>>
    /\ UNCHANGED <<h2, str, tasks>>

RunTask ==
    /\ loop.at = "tasks" /\ tasks # <<>>
    /\ \E room \in BOOLEAN : Become(PumpTask(Now, Head(tasks), room))
    /\ tasks' = Tail(tasks)
    /\ UNCHANGED <<done, loop>>

\* Mutant: the loop turns to the finished handlers with tasks left.
TasksLeft ==
    /\ loop.at = "tasks"
    /\ loop' = [loop EXCEPT !.at = "finish"]
    /\ UNCHANGED <<h2, str, tasks, done>>

TasksDone ==
    /\ loop.at = "tasks" /\ tasks = <<>>
    /\ loop' = [loop EXCEPT !.at = "finish"]
    /\ UNCHANGED <<h2, str, tasks, done>>

\* ... and is served after them: finishH2Done.
FinishOne ==
    /\ loop.at = "finish"
    /\ IF loop.due = <<>> THEN loop' = [loop EXCEPT !.at = "idle"] /\ UNCHANGED <<h2, str>>
       ELSE /\ \E room \in BOOLEAN : Become(Finish(Now, Head(loop.due), room))
            /\ loop' = [loop EXCEPT !.due = Tail(@)]
    /\ UNCHANGED <<tasks, done>>

--------------------------------------------------------------------------------
(* Handler goroutines.                                                           *)

Running(i) == str[i].at = "busy" /\ ~str[i].returned

\* A change to the writer and claimPumpLocked, postTask, which waits while taskCh is full.
Write(i, w) ==
    LET claim == ~w.queued /\ ~w.fin
    IN  /\ Running(i)
        /\ claim => Len(tasks) < MaxTasks
        /\ str' = [str EXCEPT ![i].sw = [w EXCEPT !.queued = @ \/ claim]]
        /\ tasks' = IF claim THEN Append(tasks, i) ELSE tasks
        /\ UNCHANGED <<h2, done, loop>>

WriteHeader(i) == ~str[i].sw.ready /\ Write(i, [str[i].sw EXCEPT !.made = TRUE, !.ready = TRUE])

\* WriteChunk, when waitSpaceLocked finds space.
WriteChunk(i) ==
    LET w == str[i].sw
    IN  w.ready /\ ~w.ended /\ ~w.err /\ ~w.pend /\ Write(i, [w EXCEPT !.pend = TRUE])

\* waitSpaceLocked times out: errH2StreamStalled.
Stall(i) ==
    LET w == str[i].sw IN w.ready /\ ~w.err /\ w.pend /\ Write(i, [w EXCEPT !.err = TRUE])

CloseWriter(i) == str[i].sw.ready /\ ~str[i].sw.ended /\ Write(i, [str[i].sw EXCEPT !.ended = TRUE])

\* run returns: pushH2Done.
Return(i) ==
    /\ Running(i)
    /\ str' = [str EXCEPT ![i].returned = TRUE]
    /\ done' = Append(done, i)
    /\ UNCHANGED <<h2, tasks, loop>>

Next ==
    \/ RecvHeaders \/ RecvHeadersPart \/ RecvContinuation \/ RecvData \/ RecvReset
    \/ RecvCounted \/ RecvBad \/ RecvGoAway \/ GoAwayForShutdown \/ Flush \/ Close
    \/ TakeDone \/ RunTask \/ TasksDone \/ FinishOne
    \/ \E i \in Ids : WriteHeader(i) \/ WriteChunk(i) \/ Stall(i) \/ CloseWriter(i) \/ Return(i)

Spec == Init /\ [][Next]_vars

--------------------------------------------------------------------------------
(* Properties.                                                                   *)

Busy == Among(str, "busy")

\* abandonH2Stream, h2SettleStream, h2CancelStreaming and their uncounts: however a
\* stream ends before its handler, h2EndedInFlight, h2Draining and inFlight are what
\* the handlers and writers still owe; nothing leaks into later streams.
CountsExact ==
    /\ h2.inFlight = Cardinality(Busy)
    /\ h2.up # "closed" =>
          /\ h2.ended = Cardinality({i \in Busy : str[i].counted}) + Cardinality({i \in Busy : str[i].sw.early})
          /\ h2.draining = Cardinality(Among(str, "draining"))

\* drainTasks, newEpollH2StreamWriter: a pump task never meets a writer that went
\* back to its pool.
NoStaleTask == \A k \in DOMAIN tasks : str[tasks[k]].sw.made

\* finishH2Dispatch, closeConn, h2EndBodyIn: a handler that reads its body is fed by
\* an open connection, and no reader outlives its handler.
NoReaderStranded ==
    \A i \in Ids : InMap(Now, i) => str[i].at = "busy" /\ h2.up # "closed"

\* claimPumpLocked, h2PumpTask: bytes a handler buffered are always known to the loop,
\* by a task or by h2Streaming, until the writer is finished.
NoWriterStranded ==
    \A i \in Ids : str[i].sw.pend /\ ~str[i].sw.fin => str[i].sw.queued \/ str[i].sw.reg

\* refuseH2StreamGoingAway: a client that was told GOAWAY may send streams above the
\* announced one again, because none of them ever reaches a handler.
GoAwayIsHonest == \A i \in Ids : i > h2.told => str[i].at \in {"idle", "gone"}
================================================================================
