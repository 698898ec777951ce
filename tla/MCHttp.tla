-------------------------------- MODULE MCHttp --------------------------------
(* The components of the HTTP side for TLC: a connection's life on the loop,     *)
(* HTTP/1 output, HTTP/2 flow control, the bodies handlers read and WebSockets.  *)
(* They meet only through what each models of the others, so one behaviour runs  *)
(* one of them, which part names; the parts other than conn, flow and ws keep    *)
(* their state in x.                                                             *)
EXTENDS ConnLifecycle, FiniteSets

CONSTANTS Parts,                  \* the components to run
          OutMixes                \* the responses and transports of HTTP/1 output

VARIABLES part, x1, x2, x3, x4, x5, x6, fc, snd, peer, script, mix, t, g

x == <<x1, x2, x3, x4, x5, x6>>
flowVars == <<fc, snd, peer>>
wsVars == <<script, mix, t, g>>

-------------------------------------------------------------------------------
(* Connections.                                                                *)

\* Whole requests, of every kind.
MCWhole == {"req", "bye", "bad"}

\* Requests whose heads may arrive in parts.
MCParts == {"req", "half", "more", "rest"}

\* Requests that keep the connection and requests that close it.
MCRequests == {"req", "bye"}

-------------------------------------------------------------------------------
(* HTTP/1 output: what is sent, over what, which pages are cold, whether the   *)
(* file shrinks and whether the peer goes.                                     *)

Out == INSTANCE H1Out WITH Size <- 3, Cap <- 2, Mark <- 2, SocketRoom <- 2, WarmMax <- 2, Requests <- 2,
                           Mixes <- OutMixes, t <- x1, mix <- x2

OutMix(kind, tls, cold, shrink, gone) ==
    [kind |-> kind, tls |-> tls, cold |-> cold, shrink |-> shrink, gone |-> gone]
MCOutMixes ==
    {OutMix(k, tls, {}, FALSE, gone) : k \in {"body", "chunked", "length", "short", "over", "file"}, tls \in BOOLEAN, gone \in BOOLEAN}
    \union {OutMix("detached", FALSE, {}, FALSE, gone) : gone \in BOOLEAN}
    \union {OutMix("file", tls, IF tls THEN {2} ELSE {}, TRUE, FALSE) : tls \in BOOLEAN}
    \union {OutMix("file", TRUE, {1, 3}, FALSE, TRUE)}
ShrinkMixes == {OutMix("detached", FALSE, {}, TRUE, FALSE)}

-------------------------------------------------------------------------------
(* HTTP/2 output and request bodies.                                                  *)

FlowMixes == {[tls |-> FALSE, kind |-> [i \in {1, 2} |-> "buffered"]],
              [tls |-> TRUE, kind |-> [i \in {1} |-> "buffered"]],
              [tls |-> FALSE, kind |-> [i \in {1} |-> "streamed"]]}
Flow == INSTANCE H2Flow
    WITH Streams <- {1, 2}, Mixes <- FlowMixes, MaxLen <- 2, Lens <- {0, 2}, MaxWindow <- 2,
         InitWindow <- 1, FrameLimits <- {1}, HighMark <- 3, DirectMark <- 5, DirectMin <- 2,
         MaxPending <- 3, HardFactor <- 2, Rooms <- {0, 3}, Credits <- {1}, InitWindows <- {0, 1}

Body == INSTANCE BodyStream
    WITH Total <- 4, Threshold <- 2, Cap <- 2, ReadAhead <- 2, Window <- 3, MaxTime <- 3,
         br <- x1, inn <- x2, net <- x3, acks <- x4, clock <- x5, hd <- x6

ASSUME BodySizes == Body!Sizes

-------------------------------------------------------------------------------
(* WebSockets: frames, what the application answers and writes, and what else   *)
(* may happen.                                                                  *)

Frame(op, fin, body) == [op |-> op, fin |-> fin, rsv |-> "none", masked |-> TRUE, len |-> Len(body),
                         body |-> body, long |-> FALSE, gap |-> "far"]
Ws1(tls, scr, reply, writes, may) ==
    [writes |-> writes, tls |-> tls, script |-> scr, reply |-> reply, does |-> "reply", may |-> may]
Doing(does, m) == [m EXCEPT !.does = does]

Fragments == <<Frame("text", FALSE, <<"a", "<">>), Frame("ping", TRUE, <<"a">>), Frame("cont", TRUE, <<">", "a">>)>>
Two == <<Frame("text", TRUE, <<"a">>), Frame("bin", TRUE, <<"a", "a">>)>>
NotText == <<Frame("text", TRUE, <<"a">>), Frame("text", TRUE, <<">">>), Frame("text", TRUE, <<"a">>)>>
Packed == <<[Frame("bin", FALSE, <<"z">>) EXCEPT !.rsv = "1"], Frame("cont", TRUE, <<"f", "a">>),
            Frame("close", TRUE, <<"c", "c">>)>>
Long == <<Frame("text", TRUE, <<"a">>), [Frame("bin", TRUE, <<"a", "a", "a", "a", "a", "a">>) EXCEPT !.long = TRUE]>>
Pings == <<Frame("ping", TRUE, <<>>), Frame("ping", TRUE, <<>>), [Frame("ping", TRUE, <<>>) EXCEPT !.gap = "soon"]>>
Orphan == <<Frame("text", TRUE, <<"a">>), Frame("cont", TRUE, <<"a">>)>>
Edge == <<Frame("text", TRUE, <<"a">>), Frame("text", TRUE, <<"a", "a", "<", ">", "a">>)>>
WsMixes ==
    {Ws1(FALSE, Fragments, <<1>>, 0, {"hup"}), Ws1(TRUE, Fragments, <<>>, 1, {}),
     Ws1(FALSE, Two, <<2>>, 2, {"close"}), Ws1(TRUE, Two, <<2, 2>>, 1, {"expire"}),
     Ws1(FALSE, NotText, <<1>>, 1, {"close"}), Ws1(FALSE, Packed, <<>>, 0, {}),
     Ws1(FALSE, Long, <<2>>, 0, {"shutdown"}), Ws1(FALSE, Edge, <<1>>, 0, {}),
     Ws1(FALSE, Pings, <<>>, 0, {"expire"}), Doing("panic", Ws1(FALSE, Orphan, <<>>, 1, {})),
     Ws1(FALSE, Orphan, <<>>, 1, {}), Doing("close", Ws1(FALSE, Two, <<>>, 1, {"hup"}))}

WsScripts == {m.script : m \in WsMixes}
Ws == INSTANCE WsLoop
    WITH Scripts <- WsScripts, Mixes <- WsMixes, Deflate <- TRUE, MaxMessage <- 6,
         MaxControl <- 2, PingMax <- 3, Growth <- 2, ResetCost <- 1, ResetBudget <- 4, KeyLen <- 2,
         BufCap <- 9, MinFree <- 2, High <- 2, Low <- 1, DirectMin <- 2, MaxPending <- 4,
         SockCap <- 2, Writers <- {1}

-------------------------------------------------------------------------------
Rest == x3 = 0 /\ x4 = 0 /\ x5 = 0 /\ x6 = 0

PartsInit ==
    /\ part \in Parts
    /\ IF part = "conn" THEN Init ELSE conn = 0 /\ shut = 0
    /\ \/ part \in {"conn", "flow", "ws"} /\ x1 = 0 /\ x2 = 0 /\ Rest
       \/ part = "out" /\ Out!Init /\ Rest
       \/ part = "body" /\ Body!Init
    /\ Flow!Init /\ (part # "flow" => fc.tls)
    /\ Ws!Init /\ (part # "ws" => mix = CHOOSE m \in WsMixes : TRUE)

PartsNext ==
    \/ part = "conn" /\ Next /\ UNCHANGED <<part, x, flowVars, wsVars>>
    \/ part = "out" /\ Out!Next /\ UNCHANGED <<part, x3, x4, x5, x6, vars, flowVars, wsVars>>
    \/ part = "body" /\ Body!Next /\ UNCHANGED <<part, vars, flowVars, wsVars>>
    \/ part = "flow" /\ Flow!Next /\ UNCHANGED <<part, x, vars, wsVars>>
    \/ part = "ws" /\ Ws!Next /\ UNCHANGED <<part, x, vars, flowVars>>

PartsSpec == PartsInit /\ [][PartsNext]_<<part, x, vars, flowVars, wsVars>>

-------------------------------------------------------------------------------
(* Properties.                                                                 *)

\* A connection's slot, its share of its client's limit, its input and its deadline:
\* each is held once, and none is left behind by closeConn, finishH1Dispatch,
\* unpinTakenOver and sweepDeadlines in whatever order they come.
ConnSound ==
    part = "conn" => /\ TypeOK /\ SlotAccounting /\ FreeSlotIsUnused /\ IPShareHeldOnce
                     /\ InputNotStranded /\ IdleDeadlineArmed

\* HTTP/1 responses through the buffer, straight from the body and from the file come
\* out in order and whole, their writer goes back to the pool once, and the loop
\* always knows what is left to send (h1PumpStream, h1HandOffBody, flush).
OutSound ==
    part = "out" => Out!TypeOK /\ Out!InOrder /\ Out!WholeBeforeNext /\ Out!PooledUntouched /\ Out!NothingStuck

\* HTTP/2 output: the server's windows are the peer's, DATA stays within both, every
\* byte and every END_STREAM is sent once, and what can be sent is (h2ConsumeData,
\* h2UnconsumeFrames, h2PumpFrames, h2SettleParked).
FlowSound ==
    /\ [](part = "flow" => /\ Flow!TypeOK /\ Flow!WindowsAgree /\ Flow!NoByteLost /\ Flow!EndStreamOnce
                           /\ Flow!NothingStuck /\ Flow!BacklogBounded /\ Flow!ParkedExact)
    /\ [][part = "flow" => Flow!StaysWithin]_flowVars

\* A body that a handler reads while it arrives: credit is neither lost nor given
\* twice, a waiting reader has what arrived, and a read fails only for its own
\* deadline (claimAckLocked, h1BodyAcked, h2BodyAcked, deadlineFired).
BodySound ==
    part = "body" => /\ Body!TypeOK /\ Body!WindowConserved /\ Body!EmptyReaderAcks
                     /\ Body!ReaderNotStarved /\ Body!DeadlineHonest

\* A WebSocket's frames go out whole, once and in order, its close is last and ends it
\* once, and neither what waits in the outbox nor what was read is forgotten
\* (write, claimWake, wsResumeIfDrained, wsTeardown).
WsSound ==
    part = "ws" => /\ Ws!TypeOK /\ Ws!IntactStream /\ Ws!CloseIsLast /\ Ws!WakeOwed
                   /\ Ws!NothingStuck /\ Ws!EndedOnce /\ Ws!BufferNeverJams

\* The event-driven WebSocket reader implements the blocking one (wsServe, ReadMessageInto).
ReadsAsBlocking ==
    Ws!Judge!Init /\ [][part = "ws" => [Ws!Judge!Next]_<<script, Ws!ReaderState>>]_wsVars

\* ReadHeaderTimeout as src/core/server.go:46 documents it: while a request head is
\* incomplete and no output waits, a deadline bounds the wait for the rest.
ConnHeaderDeadline == part = "conn" => HeaderDeadlineArmed

\* WriteTimeout as src/core/server.go:42 documents it: while a response waits for room
\* in the send buffer and no handler runs, a deadline bounds the wait.
ConnWriteDeadline == part = "conn" => WriteDeadlineArmed

\* A file that shrank while it was sent fails its response: the next one does not
\* begin behind a short body (failFile, h1FinishStreamed).
ShrunkFileFails == part = "out" => Out!WholeBeforeNext

===============================================================================
