------------------------------- MODULE QuicStreams -----------------------------
(* The life of the request streams of a QUIC connection: opening, dispatch,      *)
(* reply, retirement, GOAWAY and close (src/core/quic_conn.go, quic_stream.go,    *)
(* quic_goaway.go, h3_conn.go, request_context.go).                              *)
(*                                                                               *)
(* recvLoop, the timer goroutine, the goroutine that shuts the server down and   *)
(* one handler per request share the streams.  An actor's todo holds what is     *)
(* left of the functions it is in; each entry is one critical section or one     *)
(* atomic operation.  What a stream receives is the subject of QuicRecv.         *)
EXTENDS Integers, FiniteSetsExt, SequencesExt

CONSTANTS
    N,              \* the peer's bidirectional streams, 0 to N-1
    Batch,          \* quicMaxStreamsCreditBatch
    MaxTracked,     \* quicMaxTrackedStreams, less the unidirectional ones
    Reply,          \* bytes of a response
    StreamRoom,     \* peerStreamWindow
    ConnRoom,       \* the peer's initial_max_data
    HardCap,        \* stallHardCap
    Mixes           \* quicqc.maxStreams, which is quicMaxConcurrentReqStreams, and the events that
                    \* may happen beside requests

VARIABLES
    str,    \* each stream
    qc,     \* the connection
    todo    \* what each actor has yet to do

vars == <<str, qc, todo>>

Ids == 0..(N - 1)
Recv == -1
Timer == -2
Stopper == -3
Actors == Ids \cup {Recv, Timer, Stopper}      \* the handler of stream i is actor i

Blank ==
    [refs |-> 0, dispatched |-> FALSE, cleaned |-> FALSE, buf |-> 0, room |-> StreamRoom, reset |-> FALSE,
     closed |-> FALSE, stalled |-> 0, awaiting |-> FALSE, aborted |-> FALSE, inHandler |-> FALSE, cancelled |-> FALSE]

\* place: not opened, opened by a later stream, in use, back in the pool, or never to be served.
Init ==
    /\ str = [i \in Ids |-> [place |-> "new", s |-> Blank]]
    /\ \E mix \in Mixes :
       qc = [max |-> mix[1], mix |-> mix[2], map |-> {}, next |-> 0, limit |-> mix[1], retired |-> 0, active |-> 0, stalled |-> 0,
             avail |-> ConnRoom, closed |-> FALSE, goAway |-> N, draining |-> FALSE]
    /\ todo = [a \in Actors |-> <<>>]

\* The types; no counter is negative, except for the bytes of a stall on their way to the total.
TypeOK ==
    /\ \A i \in Ids :
          /\ str[i].place \in {"new", "implicit", "live", "gone", "refused", "dropped"}
          /\ str[i].s.refs \in 0..(Cardinality(Actors) + 1) /\ str[i].s.stalled \in 0..Reply
    /\ qc.map \subseteq Ids /\ qc.active \in 0..qc.max /\ qc.limit \in Nat /\ qc.avail \in Nat

--------------------------------------------------------------------------------
(* Steps: actor a does the first entry <<op, i, n>> of its todo.                 *)

May(event) == event \in qc.mix

At(a, op, i) == todo[a] # <<>> /\ Head(todo[a])[1] = op /\ Head(todo[a])[2] = i
Arg(a) == Head(todo[a])[3]
Do(op, i) == <<op, i, 0>>
Then(a, ops) == todo' = [todo EXCEPT ![a] = ops \o Tail(@)]
Begin(a, ops) == todo[a] = <<>> /\ todo' = [todo EXCEPT ![a] = ops]
Set(i, s) == str' = [str EXCEPT ![i].s = s]

\* Mutant: the last holder does not give the stream back.
ReleaseKeeps(a, i) ==
    /\ At(a, "release", i)
    /\ Set(i, [str[i].s EXCEPT !.refs = Max({1, @ - 1})])
    /\ Then(a, <<>>) /\ UNCHANGED qc

\* releaseStream.
Release(a, i) ==
    /\ At(a, "release", i)
    /\ str' = [str EXCEPT ![i] = IF @.s.refs = 1 THEN [place |-> "gone", s |-> Blank] ELSE [@ EXCEPT !.s.refs = @ - 1]]
    /\ Then(a, <<>>) /\ UNCHANGED qc

\* Mutant: no CompareAndSwap on cleanupDone.
RetiringAgain(s, i) == <<Do("unmap", i)>>

\* retireStream, its CompareAndSwap on cleanupDone: what is left to do.
Retiring(s, i) == IF s.cleaned THEN <<>> ELSE <<Do("unmap", i)>>
Cleaned(s) == [s EXCEPT !.cleaned = TRUE]

\* The rest of retireStream: the map and its reference, then the peer's credit.  Whoever
\* retires a stream holds a reference of its own.
Unmap(a, i) ==
    /\ At(a, "unmap", i)
    /\ LET retired == qc.retired + 1
       IN  /\ qc' = [qc EXCEPT !.map = @ \ {i}, !.retired = IF qc.closed THEN @ ELSE retired]
           /\ Then(a, IF ~qc.closed /\ retired % Batch = 0 THEN <<<<"grant", i, retired + qc.max>>>> ELSE <<>>)
    /\ Set(i, [str[i].s EXCEPT !.refs = @ - (IF i \in qc.map THEN 1 ELSE 0)])

\* Mutant: the credit computed last wins.
GrantStored(a, i) ==
    /\ At(a, "grant", i)
    /\ qc' = [qc EXCEPT !.limit = Arg(a)]
    /\ Then(a, <<>>) /\ UNCHANGED str

\* grantStreams.
Grant(a, i) ==
    /\ At(a, "grant", i)
    /\ qc' = [qc EXCEPT !.limit = Max({@, Arg(a)})]
    /\ Then(a, <<>>) /\ UNCHANGED str

\* resetSend, releaseStalledLocked.
Reset(a, i) ==
    /\ At(a, "reset", i)
    /\ LET s == str[i].s
       IN  IF s.reset THEN UNCHANGED <<str, qc>>
           ELSE /\ Set(i, [s EXCEPT !.reset = TRUE, !.closed = TRUE, !.buf = 0, !.stalled = 0])
                /\ qc' = [qc EXCEPT !.stalled = @ - s.stalled]
    /\ Then(a, <<>>)

\* sendStreamData, drainSendBuf: as much as both windows allow.
Send(a, i) ==
    /\ At(a, "send", i)
    /\ LET s == str[i].s
           n == Min({s.buf, s.room, qc.avail})
           back == Min({n, s.stalled})
       IN  /\ Set(i, [s EXCEPT !.buf = @ - n, !.room = @ - n, !.stalled = @ - back])
           /\ qc' = [qc EXCEPT !.avail = @ - n, !.stalled = @ - back]
    /\ Then(a, <<>>)

\* maybeFinishStream.
Done(s) == s.awaiting /\ s.buf = 0
Finish(a, i) ==
    /\ At(a, "finish", i)
    /\ LET s == str[i].s
       IN  IF Done(s) THEN Set(i, Cleaned(s)) /\ Then(a, Retiring(s, i)) ELSE Then(a, <<>>) /\ UNCHANGED str
    /\ UNCHANGED qc

\* abortHandler: the handler is told, now or when it starts.
Aborted(s) == [s EXCEPT !.aborted = TRUE, !.cancelled = @ \/ s.inHandler]

\* close: whoever comes first takes the streams.  What nobody looks at after it is forgotten.
ShutConn(a) == IF qc.closed THEN <<>> ELSE <<Do("take", 0)>>
Shut == qc' = [qc EXCEPT !.closed = TRUE, !.next = 0, !.limit = 0, !.retired = 0, !.goAway = 0, !.draining = FALSE,
                         !.avail = 0]

PerStream(S, ops(_)) == FlattenSeq([k \in 1..Cardinality(S) |-> ops(SetToSortSeq(S, <)[k])])

Take(a) ==
    /\ At(a, "take", 0)
    /\ qc' = [qc EXCEPT !.map = {}]
    /\ Then(a, PerStream(qc.map, LAMBDA i : <<Do("close", i), Do("release", i)>>))
    /\ UNCHANGED str

\* Mutant: the bytes of the stall stay in the total.
CloseStreamOnly(a, i) ==
    /\ At(a, "close", i)
    /\ Set(i, [Aborted(str[i].s) EXCEPT !.closed = TRUE, !.buf = 0, !.stalled = 0])
    /\ Then(a, <<>>) /\ UNCHANGED qc

\* abortHandler, QUICStream.Close and maybeFinishStream, whose retireStream finds nothing left to do.
CloseStream(a, i) ==
    /\ At(a, "close", i)
    /\ Set(i, [Aborted(str[i].s) EXCEPT !.closed = TRUE, !.buf = 0, !.stalled = 0])
    /\ qc' = [qc EXCEPT !.stalled = @ - str[i].s.stalled]
    /\ Then(a, <<>>)

--------------------------------------------------------------------------------
(* recvLoop.                                                                     *)

\* openPeerStreamLocked, for a stream within the limit: what the frame opens.
Opened(i) ==
    [j \in Ids |->
        IF j = i THEN (IF qc.draining /\ i >= qc.goAway THEN [place |-> "refused", s |-> Blank]
                       ELSE IF Cardinality(qc.map) >= MaxTracked THEN [place |-> "dropped", s |-> Blank]
                       ELSE [place |-> "live", s |-> [Blank EXCEPT !.refs = 2]])
        ELSE IF str[j].place = "new" /\ j < i THEN [place |-> "implicit", s |-> Blank]
        ELSE str[j]]

\* handleStreamFrameIncoming: what the data makes of the stream is more, all, or too much.
FrameOps(i, data) ==
    (IF data = "end" THEN <<Do("dispatch", i)>> ELSE IF data = "over" THEN <<Do("reject", i)>> ELSE <<>>)
    \o <<Do("release", i)>>

RecvFrame(i) ==
    /\ ~qc.closed /\ i < qc.limit
    /\ str[i].place \in {"new", "implicit"}
    /\ str' = Opened(i)
    /\ qc' = [qc EXCEPT !.next = Max({@, i + 1}), !.map = IF Opened(i)[i].place = "live" THEN @ \cup {i} ELSE @]
    /\ \E data \in {"more", "end"} \cup (IF May("over") THEN {"over"} ELSE {}) :
          Begin(Recv, IF Opened(i)[i].place = "live" THEN FrameOps(i, data) ELSE <<>>)

\* acquireStream.
Acquired(i, ops) ==
    /\ ~qc.closed /\ i \in qc.map
    /\ Set(i, [str[i].s EXCEPT !.refs = @ + 1])
    /\ Begin(Recv, ops \o <<Do("release", i)>>)
    /\ UNCHANGED qc

RecvMore(i) == \E data \in (IF May("over") THEN {"end", "over"} ELSE {"end"}) : Acquired(i, SubSeq(FrameOps(i, data), 1, 1))

\* Mutant: a stream is dispatched for every frame that completes it.
DispatchAgain(i) ==
    /\ At(Recv, "dispatch", i)
    /\ Set(i, [str[i].s EXCEPT !.dispatched = TRUE, !.refs = @ + 1])
    /\ qc' = [qc EXCEPT !.active = Min({@ + 1, qc.max})]
    /\ todo' = [todo EXCEPT ![Recv] = Tail(@),
                ![i] = <<Do("read", i), Do("run", i), Do("end", i), Do("release", i), Do("inactive", i)>>]

\* resetStreamSend and retireStream of a stream only recvLoop knows of.
GivenUp(s) == [s EXCEPT !.dispatched = TRUE, !.reset = TRUE, !.closed = TRUE, !.cleaned = TRUE]
GiveUp(i, s) ==
    IF s.dispatched THEN Set(i, s) /\ Then(Recv, <<>>)
    ELSE Set(i, GivenUp(s)) /\ Then(Recv, <<Do("unmap", i)>>)

\* activeReqStreams.Add and its check are one step: nobody decides by the count between them.
Dispatch(i) ==
    /\ At(Recv, "dispatch", i)
    /\ IF str[i].s.dispatched \/ qc.active = qc.max
       THEN GiveUp(i, str[i].s) /\ UNCHANGED qc
       ELSE /\ Set(i, [str[i].s EXCEPT !.dispatched = TRUE, !.refs = @ + 1])
            /\ qc' = [qc EXCEPT !.active = @ + 1]
            /\ todo' = [todo EXCEPT ![Recv] = Tail(@),
                   ![i] = <<Do("read", i), Do("run", i), Do("end", i), Do("release", i), Do("inactive", i)>>]

\* rejectStreamBody.
Reject(i) == At(Recv, "reject", i) /\ GiveUp(i, str[i].s) /\ UNCHANGED qc

\* handleResetStream.
RecvReset(i) == May("reset") /\ Acquired(i, <<Do("giveup", i)>>)
AbortReset(i) == At(Recv, "giveup", i) /\ GiveUp(i, Aborted(str[i].s)) /\ UNCHANGED qc

\* handleStopSending.
RecvStopSending(i) == May("stop") /\ Acquired(i, <<Do("reset", i), Do("abort", i), Do("finish", i)>>)
Abort(i) ==
    /\ At(Recv, "abort", i)
    /\ Set(i, Aborted(str[i].s)) /\ Then(Recv, <<>>) /\ UNCHANGED qc

\* MAX_STREAM_DATA; the new limit covers the response.
RecvMaxStreamData(i) ==
    /\ May("stream room")
    /\ ~qc.closed /\ i \in qc.map /\ str[i].s.room < str[i].s.buf
    /\ Set(i, [str[i].s EXCEPT !.refs = @ + 1, !.room = Reply])
    /\ Begin(Recv, <<Do("send", i), Do("finish", i), Do("release", i)>>)
    /\ UNCHANGED qc

\* MAX_DATA, resumeBlockedStreams: the limit, then the streams that wait.
RecvMaxData ==
    /\ May("room")
    /\ ~qc.closed /\ qc.avail < Reply
    /\ qc' = [qc EXCEPT !.avail = Reply]
    /\ Begin(Recv, <<Do("resume", 0)>>)
    /\ UNCHANGED str

\* Mutant: the streams the windows reopen for are not finished.
ResumeOnly ==
    /\ At(Recv, "resume", 0)
    /\ LET waiting == {i \in qc.map : str[i].s.buf > 0}
       IN  /\ str' = [i \in Ids |-> IF i \in waiting THEN [str[i] EXCEPT !.s.refs = @ + 1] ELSE str[i]]
           /\ Then(Recv, PerStream(waiting, LAMBDA i : <<Do("send", i), Do("release", i)>>))
    /\ UNCHANGED qc

Resume ==
    /\ At(Recv, "resume", 0)
    /\ LET waiting == {i \in qc.map : str[i].s.buf > 0}
       IN  /\ str' = [i \in Ids |-> IF i \in waiting THEN [str[i] EXCEPT !.s.refs = @ + 1] ELSE str[i]]
           /\ Then(Recv, PerStream(waiting, LAMBDA i : <<Do("send", i), Do("finish", i), Do("release", i)>>))
    /\ UNCHANGED qc

\* CONNECTION_CLOSE, and every error of the peer's.
RecvClose == May("close") /\ Begin(Recv, ShutConn(Recv)) /\ ~qc.closed /\ Shut /\ UNCHANGED str

\* beginGoAway, once the handshake is over.
GoAway ==
    /\ May("drain") /\ ~qc.closed /\ todo[Recv] = <<>>
    /\ qc' = [qc EXCEPT !.draining = TRUE, !.goAway = qc.next]
    /\ UNCHANGED <<str, todo>>

--------------------------------------------------------------------------------
(* The handler of stream i: serveRequestStream, handleRequestStream.             *)

\* Mutant: an abort that came before the handler is forgotten.
ReadForgets(i) ==
    /\ At(i, "read", i)
    /\ Set(i, [str[i].s EXCEPT !.inHandler = TRUE])
    /\ Then(i, <<>>) /\ UNCHANGED qc

\* readRequest.
Read(i) ==
    /\ At(i, "read", i)
    /\ Set(i, [str[i].s EXCEPT !.inHandler = TRUE, !.cancelled = @ \/ str[i].s.aborted])
    /\ Then(i, <<>>) /\ UNCHANGED qc

\* The request is answered (writeResponse: setSendBuf), or its frames close the connection.
Run(i) ==
    /\ At(i, "run", i)
    /\ \/ /\ Set(i, [str[i].s EXCEPT !.buf = IF str[i].s.closed THEN 0 ELSE Reply])
          /\ Then(i, <<Do("send", i), Do("track", i)>>)
          /\ UNCHANGED qc
       \/ /\ Then(i, ShutConn(i)) /\ Shut
          /\ UNCHANGED str

\* trackStalledSend: the stream's count, then the connection's.
Track(i) ==
    /\ At(i, "track", i)
    /\ LET s == str[i].s
           pending == s.buf - s.stalled
       IN  /\ Set(i, [s EXCEPT !.stalled = s.buf])
           /\ Then(i, IF pending > 0 THEN <<<<"count", i, pending>>>> ELSE <<>>)
    /\ UNCHANGED qc

Count(i) ==
    /\ At(i, "count", i)
    /\ qc' = [qc EXCEPT !.stalled = @ + Arg(i)]
    /\ Then(i, IF qc.stalled # 0 /\ qc.stalled + Arg(i) > HardCap THEN <<Do("reset", i)>> ELSE <<>>)
    /\ UNCHANGED str

\* Mutant: the reply's first attempt decides, whatever was sent since.
EndByStall(i) ==
    /\ At(i, "end", i)
    /\ LET s == [str[i].s EXCEPT !.awaiting = TRUE, !.inHandler = FALSE, !.cancelled = FALSE]
       IN  IF s.buf = 0 /\ s.room > 0 THEN Set(i, Cleaned(s)) /\ Then(i, Retiring(s, i)) ELSE Set(i, s) /\ Then(i, <<>>)
    /\ UNCHANGED qc

\* The end of serveRequestStream.
End(i) ==
    /\ At(i, "end", i)
    /\ LET s == [str[i].s EXCEPT !.awaiting = TRUE, !.inHandler = FALSE, !.cancelled = FALSE]
       IN  IF s.buf = 0 THEN Set(i, Cleaned(s)) /\ Then(i, Retiring(s, i)) ELSE Set(i, s) /\ Then(i, <<>>)
    /\ UNCHANGED qc

Inactive(i) ==
    /\ At(i, "inactive", i)
    /\ qc' = [qc EXCEPT !.active = @ - 1]
    /\ Then(i, <<>>) /\ UNCHANGED str

--------------------------------------------------------------------------------
(* The timer goroutine (tick), and closeForShutdown.                             *)

\* resetStalledStreams: those that waited too long.
ResetStalled ==
    /\ May("stall")
    /\ ~qc.closed
    /\ \E late \in SUBSET {i \in qc.map : str[i].s.stalled > 0} :
          /\ late # {}
          /\ str' = [i \in Ids |-> IF i \in late THEN [str[i] EXCEPT !.s.refs = @ + 1] ELSE str[i]]
          /\ Begin(Timer, PerStream(late, LAMBDA i : <<Do("reset", i), Do("finish", i), Do("release", i)>>))
    /\ UNCHANGED qc

\* drained: the count first, then the map.
CheckDrained ==
    /\ ~qc.closed /\ qc.draining /\ qc.active = 0
    /\ Begin(Timer, <<Do("scan", 0)>>)
    /\ UNCHANGED <<str, qc>>

Scan ==
    /\ At(Timer, "scan", 0)
    /\ IF qc.map = {} /\ ~qc.closed THEN Shut /\ Then(Timer, ShutConn(Timer)) ELSE UNCHANGED qc /\ Then(Timer, <<>>)
    /\ UNCHANGED str

\* The idle timeout.
Expire == May("expire") /\ ~qc.closed /\ Begin(Timer, ShutConn(Timer)) /\ Shut /\ UNCHANGED str

CloseForShutdown ==
    /\ May("shutdown")
    /\ ~qc.closed
    /\ Begin(Stopper, ShutConn(Stopper)) /\ Shut
    /\ str' = [i \in Ids |-> IF i \in qc.map THEN [str[i] EXCEPT !.s = Aborted(@)] ELSE str[i]]

Steps(a, i) ==
    \/ Release(a, i) \/ Unmap(a, i) \/ Grant(a, i)
    \/ Reset(a, i) \/ Send(a, i) \/ Finish(a, i) \/ CloseStream(a, i)

Next ==
    \/ \E a \in Actors : Take(a) \/ \E i \in Ids : Steps(a, i)
    \/ \E i \in Ids :
          \/ RecvFrame(i) \/ RecvMore(i) \/ Dispatch(i) \/ Reject(i) \/ RecvReset(i) \/ AbortReset(i) \/ Abort(i)
          \/ RecvStopSending(i) \/ RecvMaxStreamData(i)
          \/ Read(i) \/ Run(i) \/ Track(i) \/ Count(i) \/ End(i) \/ Inactive(i)
    \/ RecvMaxData \/ Resume \/ RecvClose \/ GoAway
    \/ ResetStalled \/ CheckDrained \/ Scan \/ Expire \/ CloseForShutdown

Spec == Init /\ [][Next]_vars

--------------------------------------------------------------------------------
(* Properties.                                                                   *)

Left(op, i) == FoldSet(LAMBDA a, n : n + Cardinality({k \in DOMAIN todo[a] : todo[a][k][1] = op /\ todo[a][k][2] = i}),
                       0, Actors)
Busy(ops, i) == \E op \in ops : Left(op, i) > 0

\* getPooledStream, releaseStream: a stream goes back to the pool when its last holder
\* lets go, whichever of recvLoop, timer, handler and close that is, and not before.
RefsExact ==
    \A i \in Ids :
        /\ str[i].place = "live" => str[i].s.refs = Left("release", i) + (IF i \in qc.map THEN 1 ELSE 0)
        /\ str[i].place # "live" =>
              /\ i \notin qc.map
              /\ ~Busy({"release", "reset", "send", "finish", "close", "unmap", "dispatch", "reject", "giveup", "abort",
                        "read", "run", "track", "count", "end"}, i)

\* activeReqStreams, stalledSendBytes: the count of handlers and the bytes of stalled
\* responses are exact once every pending change is in, and nothing is left after a close.
CountsExact ==
    /\ qc.active = Cardinality({i \in Ids : Busy({"inactive"}, i)})
    /\ qc.stalled + FoldSet(LAMBDA i, n : n + (IF At(i, "count", i) THEN Arg(i) ELSE 0), 0, Ids)
       = FoldSet(LAMBDA i, n : n + str[i].s.stalled, 0, Ids)
    /\ (qc.closed /\ \A a \in Actors : todo[a] = <<>>) => \A i \in Ids : str[i].place # "live"

\* quicMaxTrackedStreams, grantBidiStreams: a stream within the peer's credit is never
\* silently dropped, and the credit of retired streams comes back, once each and in whatever
\* order it is granted.
StreamCreditKept ==
    ~qc.closed =>
        /\ \A i \in Ids : str[i].place # "dropped"
        /\ Cardinality(qc.map) <= qc.max
        /\ (\A a \in Actors : todo[a] = <<>>) =>
              qc.limit >= qc.max + ((qc.retired \div Batch) * Batch)
        /\ qc.retired + Cardinality({i \in Ids : Busy({"unmap"}, i)})
           >= Cardinality({i \in Ids : str[i].place = "gone"})
        /\ qc.retired <= Cardinality({i \in Ids : str[i].place = "gone" \/ str[i].s.cleaned})

\* serveRequestStream, resumeBlockedStreams, maybeFinishStream: a response is never left
\* behind: if it can be sent someone is about to send it, if it is sent someone is about to
\* retire its stream.
NoReplyStuck ==
    \A i \in qc.map : str[i].s.awaiting =>
        IF str[i].s.buf > 0
        THEN str[i].s.room = 0 \/ qc.avail = 0 \/ Busy({"send", "reset", "close"}, i) \/ Busy({"resume", "take"}, 0)
        ELSE Busy({"finish", "unmap", "close"}, i) \/ Busy({"take"}, 0)

\* readAll, abortHandler: a handler whose peer or server gave the request up, before it
\* started or while it runs, is told so.
AbortReachesHandler == \A i \in Ids : (str[i].s.inHandler /\ str[i].s.aborted) => str[i].s.cancelled
================================================================================
