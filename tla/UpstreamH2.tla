------------------------------ MODULE UpstreamH2 -------------------------------
(* HTTP/2 to an upstream: the exchanges of one origin share a connection           *)
(* (fp_h2.go, with startExchange, newConn, closeConn and sweepH2 of fp_beloop.go    *)
(* and fp_conn.go, and requestBody of fp_body.go).                                *)
(*                                                                               *)
(* The event loop is one thread: each action is an event and all that its handler  *)
(* calls, as operators from a state s to the state they leave.                    *)
EXTENDS Integers, Sequences, FiniteSetsExt, SequencesExt

CONSTANTS
    Exs,            \* exchanges
    Conns,          \* connections: a bound on how many are opened
    Body,           \* units of the request body of an exchange
    Uploads,        \* the exchanges whose body comes from a source, a unit at a time
    Limits,         \* values of SETTINGS_MAX_CONCURRENT_STREAMS
    Windows,        \* values of SETTINGS_INITIAL_WINDOW_SIZE; the least is the first
    ConnWindow,     \* h2DefaultWindow, for the connection
    MaxCredit,      \* bound: units of WINDOW_UPDATE for a connection or a stream
    Mixes           \* what happens together: the exchanges, those among them that have a
                    \* body, the streams a connection can open, and the events

VARIABLES s, mix

vars == <<s, mix>>

None == 0
May(event) == event \in mix.may
MaxID == mix.maxID      \* fpH2MaxStreamID, as a number of streams

NewConn == [st |-> "closed", pending |-> <<>>, next |-> 1, conc |-> Max(Limits), init |-> Min(Windows),
            win |-> ConnWindow, credit |-> 0, sent |-> 0, goAway |-> FALSE, cont |-> None,
            waiting |-> 0, full |-> FALSE, freed |-> FALSE]

NewExchange == [st |-> "new", k |-> None, id |-> 0, win |-> 0, rem |-> 0, eof |-> FALSE,
                endSent |-> FALSE, sent |-> 0, given |-> 0, requested |-> FALSE, waiting |-> FALSE,
                left |-> 0, bodyDone |-> FALSE, expired |-> FALSE, ok |-> FALSE]

Init ==
    /\ mix \in Mixes
    /\ s = [main |-> None, made |-> 0, c |-> [k \in Conns |-> NewConn],
            x |-> [e \in Exs |-> [NewExchange EXCEPT
                      !.st = IF e \in mix.exs THEN "new" ELSE "over",
                      !.left = IF e \in mix.body THEN Body[e] ELSE 0]]]

Streams(t, k) == {e \in Exs : t.x[e].st = "open" /\ t.x[e].k = k}

--------------------------------------------------------------------------------
(* Request bodies.                                                              *)

\* finish: the caller has its answer; a piece of the body may still be on its way.
Finish(t, e, ok) ==
    [t EXCEPT !.x[e] = [NewExchange EXCEPT !.st = "over", !.ok = ok, !.requested = t.x[e].requested]]

\* Mutant: the connection does not count the body that waits.
RequestUncounted(t, e) ==
    IF t.x[e].requested \/ t.x[e].waiting THEN t
    ELSE IF t.c[t.x[e].k].full THEN [t EXCEPT !.x[e].waiting = TRUE]
    ELSE [t EXCEPT !.x[e].requested = TRUE]

\* requestBody.
RequestBody(t, e) ==
    LET k == t.x[e].k
    IN  IF t.x[e].requested \/ t.x[e].waiting THEN t
        ELSE IF t.c[k].full THEN [t EXCEPT !.x[e].waiting = TRUE, !.c[k].waiting = @ + 1]
        ELSE [t EXCEPT !.x[e].requested = TRUE]

\* forgetUpload.
Forget(t, e) ==
    IF t.x[e].waiting THEN [t EXCEPT !.x[e].waiting = FALSE, !.c[t.x[e].k].waiting = @ - 1] ELSE t

\* flushWrites, which ends with wakeWaitingUploads; full: the write buffer is above
\* the mark at its end.
Flush(t, k, full) ==
    LET f == [t EXCEPT !.c[k].full = full]
        Wake(e, u) == IF u.x[e].waiting THEN RequestBody(Forget(u, e), e) ELSE u
    IN  IF full \/ f.c[k].waiting = 0 THEN f ELSE FoldSet(Wake, f, Streams(f, k))

\* Mutant: only the stream's window limits what is sent.
RoomOfStream(t, e) == Min({t.x[e].win, t.x[e].rem})

\* pumpBody: what both windows allow,
Room(t, e) == Max({0, Min({t.x[e].win, t.c[t.x[e].k].win, t.x[e].rem})})

\* and END_STREAM with or after the last unit.
PumpBody(t, e) ==
    LET n == Room(t, e)
        k == t.x[e].k
        rem == t.x[e].rem - n
    IN  [t EXCEPT !.x[e].rem = rem, !.x[e].win = @ - n, !.x[e].sent = @ + n, !.c[k].win = @ - n,
                  !.c[k].sent = @ + n, !.x[e].endSent = @ \/ (rem = 0 /\ t.x[e].eof)]

\* afterBodyPump.
AfterPump(t, e) ==
    IF e \notin Uploads \/ t.x[e].st # "open" \/ t.x[e].rem > 0 THEN t
    ELSE IF t.x[e].endSent THEN [t EXCEPT !.x[e].bodyDone = TRUE]
    ELSE RequestBody([t EXCEPT !.x[e].bodyDone = FALSE], e)

\* resumeBodies.
ResumeBodies(t, k, full) ==
    LET stalled == {e \in Streams(t, k) : t.x[e].rem > 0}
        p == FoldSet(LAMBDA e, u : PumpBody(u, e), t, stalled)
    IN  IF \A e \in stalled : p.x[e].rem = t.x[e].rem THEN p
        ELSE FoldSet(LAMBDA e, u : AfterPump(u, e), Flush(p, k, full), Streams(p, k))

--------------------------------------------------------------------------------
(* Streams and connections.                                                     *)

\* openStream.
OpenStream(t, k, e, full) ==
    LET n == IF e \in Uploads THEN 0 ELSE t.x[e].left
        o == [t EXCEPT !.c[k].next = @ + 1,
                       !.x[e] = [@ EXCEPT !.st = "open", !.k = k, !.id = t.c[k].next, !.win = t.c[k].init,
                                          !.endSent = e \notin Uploads /\ n = 0, !.rem = n,
                                          !.eof = e \notin Uploads, !.left = @ - n]]
    IN  IF e \in Uploads THEN RequestBody(Flush(o, k, full), e) ELSE Flush(PumpBody(o, e), k, full)

\* How many of the pending exchanges flushPending opens, each a stream of its own.
Openable(t, k) ==
    IF t.c[k].st # "ready" \/ t.c[k].goAway THEN 0
    ELSE Max({0, Min({Len(t.c[k].pending), t.c[k].conc - Cardinality(Streams(t, k)),
                      MaxID + 1 - t.c[k].next})})

\* closeConn of a connection without streams.
Drop(t, k) == [t EXCEPT !.c[k] = [NewConn EXCEPT !.st = "gone"], !.main = IF @ = k THEN None ELSE @]

\* closeIfExhausted.
CloseIfExhausted(t, k) ==
    IF t.c[k].st = "ready" /\ t.c[k].next > MaxID /\ Streams(t, k) = {} /\ t.c[k].pending = <<>> /\ t.main # k
    THEN Drop(t, k) ELSE t

\* newConn with the exchanges that wait for it, one after the other; a bound on the
\* connections stands for fpMaxBackendConns.
Dial(t, es) ==
    IF t.made = Cardinality(Conns) THEN FoldLeft(LAMBDA u, e : Finish(u, e, FALSE), t, es)
    ELSE LET k == t.made + 1
             a == [t EXCEPT !.made = k, !.main = k, !.c[k].st = "connecting", !.c[k].pending = es]
         IN  FoldLeft(LAMBDA u, e : [u EXCEPT !.x[e].st = "pending", !.x[e].k = k], a, es)

\* Mutant: the exchanges that no stream is left for stay behind.
RetireAlone(t, k) == CloseIfExhausted([t EXCEPT !.main = IF @ = k THEN None ELSE @], k)

\* retireExhausted: the pending exchanges start again.
Retire(t, k) ==
    LET es == t.c[k].pending
        r == CloseIfExhausted([t EXCEPT !.c[k].pending = <<>>, !.main = IF @ = k THEN None ELSE @], k)
    IN  IF es = <<>> THEN r ELSE Dial(r, es)

\* flushPending.
FlushPending(t, k, full) ==
    LET n == Openable(t, k)
        o == FoldLeft(LAMBDA u, e : OpenStream(u, k, e, full),
                      [t EXCEPT !.c[k].pending = SubSeq(@, n + 1, Len(@)), !.c[k].freed = FALSE], SubSeq(t.c[k].pending, 1, n))
    IN  IF o.c[k].st = "ready" /\ o.c[k].next > MaxID THEN Retire(o, k) ELSE o

\* startExchange: the connection of the origin, or another.
StartExchange(t, e, full) ==
    LET k == t.main
        p == [t EXCEPT !.c[k].pending = Append(@, e), !.x[e].st = "pending", !.x[e].k = k]
    IN  IF k # None /\ ~t.c[k].goAway
        THEN IF t.c[k].st = "ready" THEN FlushPending(p, k, full) ELSE p
        ELSE Dial(t, <<e>>)

\* closeConn and failAll.
CloseConn(t, k) ==
    LET all == Streams(t, k) \cup ToSet(t.c[k].pending)
    IN  Drop(FoldSet(LAMBDA e, u : Finish(u, e, FALSE), t, all), k)

\* resetStream.
ResetStream(t, e, full) ==
    LET k == t.x[e].k IN FlushPending(Finish(Flush(Forget(t, e), k, full), e, FALSE), k, full)

\* Mutant: the slot of a finished stream is not given on.
FinishOnly(t, e, full) == Finish(Forget(t, e), e, TRUE)

\* finishStream.
FinishStream(t, e, full) ==
    LET k == t.x[e].k
        f == FlushPending(Finish(Forget(t, e), e, TRUE), k, full)
    IN  IF f.c[k].st = "ready" /\ Streams(f, k) = {} /\ f.c[k].pending = <<>> /\ ~f.c[k].goAway /\ f.main # k
        THEN Drop(f, k) ELSE f

\* closeStream, for RST_STREAM: unlike the others it starts no pending exchange,
\* which freed remembers.
CloseStream(t, e) ==
    LET k == t.x[e].k
    IN  CloseIfExhausted(Finish([Forget(t, e) EXCEPT !.c[k].freed = TRUE], e, FALSE), k)

--------------------------------------------------------------------------------
(* Events.                                                                      *)

Become(t) == s' = t /\ UNCHANGED mix
Fulls == IF May("full") THEN BOOLEAN ELSE {FALSE}
Ready(k) == s.c[k].st = "ready"

\* An exchange is submitted.
Start(e) ==
    /\ s.x[e].st = "new"
    /\ \E full \in Fulls : Become(StartExchange(s, e, full))

\* connReady.
Connected(k) ==
    /\ s.c[k].st = "connecting"
    /\ \E full \in Fulls : Become(Flush(FlushPending([s EXCEPT !.c[k].st = "ready"], k, full), k, full))

\* The connection fails or closes, or a frame breaks the protocol.
Broken(k) ==
    /\ May("broken") /\ s.c[k].st \in {"connecting", "ready"}
    /\ Become(CloseConn(s, k))

\* Mutant: streams that are open keep the window they began with.
ShiftNone(t, k, init) == [t EXCEPT !.c[k].init = init]

\* applySettings: the open streams' windows move with the initial window.
Shift(t, k, init) ==
    [t EXCEPT !.c[k].init = init,
              !.x = [e \in Exs |-> IF e \in Streams(t, k) THEN [@[e] EXCEPT !.win = @ + init - t.c[k].init]
                                   ELSE @[e]]]

Settings(k) ==
    /\ May("settings") /\ Ready(k) /\ s.c[k].cont = None
    /\ \E conc \in Limits, init \in Windows, full \in Fulls :
          LET a == FlushPending(Shift([s EXCEPT !.c[k].conc = conc], k, init), k, full)
          IN  Become(IF a.c[k].st = "ready" THEN Flush(ResumeBodies(a, k, full), k, full) ELSE a)

\* WINDOW_UPDATE of the connection and of a stream.
ConnWindowUpdate(k) ==
    /\ May("credit") /\ Ready(k) /\ s.c[k].cont = None /\ s.c[k].credit < MaxCredit
    /\ \E full \in Fulls :
          Become(ResumeBodies([s EXCEPT !.c[k].win = @ + 1, !.c[k].credit = @ + 1], k, full))

StreamWindowUpdate(e) ==
    /\ May("credit") /\ s.x[e].st = "open" /\ s.c[s.x[e].k].cont = None /\ s.x[e].given < MaxCredit
    /\ \E full \in Fulls :
          LET a == [s EXCEPT !.x[e].win = @ + 1, !.x[e].given = @ + 1]
          IN  Become(IF a.x[e].rem = 0 THEN a
                     ELSE AfterPump(Flush(PumpBody(a, e), a.x[e].k, full), e))

\* HEADERS or DATA that end the response; the head may come in two frames, and no
\* other frame between them.
HeadersPart(e) ==
    /\ May("continuation") /\ s.x[e].st = "open" /\ s.c[s.x[e].k].cont = None
    /\ Become([s EXCEPT !.c[s.x[e].k].cont = e])

Respond(e) ==
    /\ s.x[e].st = "open" /\ s.c[s.x[e].k].cont \in {None, e}
    /\ \E full \in Fulls : Become(FinishStream([s EXCEPT !.c[s.x[e].k].cont = None], e, full))

\* The continuation of the head of a stream that was reset meanwhile.
StrayContinuation(k) ==
    /\ Ready(k) /\ s.c[k].cont # None /\ s.x[s.c[k].cont].st = "over"
    /\ Become([s EXCEPT !.c[k].cont = None])

\* A malformed response, or a window beyond its limit: resetStream.
Malformed(e) ==
    /\ May("reset") /\ s.x[e].st = "open" /\ s.c[s.x[e].k].cont = None
    /\ \E full \in Fulls : Become(ResetStream(s, e, full))

\* RST_STREAM.
PeerReset(e) ==
    /\ May("reset") /\ s.x[e].st = "open" /\ s.c[s.x[e].k].cont = None
    /\ Become(CloseStream(s, e))

GoAway(k) ==
    /\ May("goaway") /\ Ready(k) /\ s.c[k].cont = None /\ ~s.c[k].goAway
    /\ Become([s EXCEPT !.c[k].goAway = TRUE])

\* onBodyChunk and sendBodyChunk: a unit from the source, or the failure of it.
BodyChunk(e) ==
    /\ e \in Uploads /\ s.x[e].requested
    /\ LET a == [s EXCEPT !.x[e].requested = FALSE]
           eof == a.x[e].left <= 1
           n == Min({1, a.x[e].left})
           b == [a EXCEPT !.x[e].rem = n, !.x[e].eof = eof, !.x[e].left = @ - n]
       IN  IF a.x[e].st # "open" THEN Become(a)
           ELSE \E full \in Fulls :
                   \/ Become(AfterPump(Flush(PumpBody(b, e), a.x[e].k, full), e))
                   \/ May("reset") /\ Become(ResetStream(a, e, full))

\* EPOLLOUT.
Writable(k) ==
    /\ Ready(k) /\ s.c[k].full
    /\ Become(Flush(s, k, FALSE))

\* The deadline of an exchange passes.
Expire(e) ==
    /\ May("expire") /\ s.x[e].st \in {"pending", "open"} /\ ~s.x[e].expired
    /\ Become([s EXCEPT !.x[e].expired = TRUE])

\* sweepH2 ends the streams whose deadline has passed; it too starts no exchange.
Sweep(k) ==
    /\ s.c[k].st \in {"connecting", "ready"}
    /\ \E full \in Fulls :
          LET late == {e \in Streams(s, k) : s.x[e].expired}
              f == FoldSet(LAMBDA e, u : Finish(Flush(u, k, full), e, FALSE), s, late)
          IN  Become(CloseIfExhausted([f EXCEPT !.c[k].freed = @ \/ late # {}], k))

Next ==
    \/ \E e \in Exs : Start(e) \/ StreamWindowUpdate(e) \/ HeadersPart(e) \/ Respond(e) \/ Malformed(e)
                      \/ PeerReset(e) \/ BodyChunk(e) \/ Expire(e)
    \/ \E k \in Conns : Connected(k) \/ Broken(k) \/ Settings(k) \/ ConnWindowUpdate(k) \/ GoAway(k)
                      \/ StrayContinuation(k) \/ Writable(k) \/ Sweep(k)

Spec == Init /\ [][Next]_vars

\* sweepBackends comes back every sweep interval; the peer need not do anything.
FairSweep == \A k \in Conns : WF_vars(Sweep(k))

--------------------------------------------------------------------------------
(* Properties.                                                                  *)

Live(k) == s.c[k].st \in {"connecting", "ready"}

TypeOK ==
    /\ s.main \in Conns \cup {None} /\ s.made \in 0..Cardinality(Conns)
    /\ \A k \in Conns : s.c[k].waiting \in Nat /\ s.c[k].win >= 0 /\ s.c[k].next \in 1..MaxID + 1
    /\ \A e \in Exs : s.x[e].rem \in Nat /\ s.x[e].left \in Nat

\* assign, flushPending, retireExhausted, failAll: an exchange without an answer is in
\* the queue of one live connection, or one of its streams, and in no other place.
OnePlace ==
    /\ \A e \in Exs, k \in Conns :
          (s.x[e].st = "pending" /\ s.x[e].k = k) <=> e \in ToSet(s.c[k].pending)
    /\ \A k \in Conns : IsInjective(s.c[k].pending)
    /\ \A e \in Exs : s.x[e].st \in {"pending", "open"} => Live(s.x[e].k)
    /\ \A d, e \in Exs : d # e /\ s.x[d].st = "open" /\ s.x[e].st = "open" /\ s.x[d].k = s.x[e].k =>
          s.x[d].id # s.x[e].id

\* applySettings, handleFrame, pumpBody: a stream's window is what the peer granted
\* less what was sent, whichever order SETTINGS, WINDOW_UPDATE and data come in.
WindowsAgree ==
    /\ \A e \in Exs : s.x[e].st = "open" =>
          s.x[e].win = s.c[s.x[e].k].init + s.x[e].given - s.x[e].sent
    /\ \A k \in Conns : Ready(k) => s.c[k].win = ConnWindow + s.c[k].credit - s.c[k].sent

\* A stream with a body to send waits for a window, for its source or for the write
\* buffer; nothing else holds it up.
UploadDriven ==
    \A e \in Exs : s.x[e].st = "open" /\ ~s.x[e].endSent =>
        \/ s.x[e].rem > 0 /\ (s.x[e].win <= 0 \/ s.c[s.x[e].k].win <= 0)
        \/ s.x[e].rem = 0 /\ s.x[e].requested
        \/ s.x[e].rem = 0 /\ s.x[e].waiting /\ s.c[s.x[e].k].full /\ s.c[s.x[e].k].waiting > 0

\* finishStream, resetStream, applySettings: no exchange waits for a stream that the
\* connection could open, unless the peer's reset or a deadline freed it; and none
\* waits at a connection that can open no more.
SlotsUsed ==
    \A k \in Conns : Ready(k) =>
        /\ Openable(s, k) = 0 \/ s.c[k].freed
        /\ s.c[k].next > MaxID => s.c[k].pending = <<>> /\ s.main # k

\* closeIfExhausted: a connection that can open no more streams is closed when its
\* last one ends.
ExhaustedCloses ==
    \A k \in Conns : Ready(k) /\ s.c[k].next > MaxID => Streams(s, k) # {}

\* "Do ... blocks until a response is received or the request fails (for example if
\* ... the request times out)": an exchange whose deadline has passed is ended.
TimesOut == \A e \in Exs : s.x[e].expired ~> s.x[e].st = "over"

================================================================================
