------------------------------ MODULE MCProgress -------------------------------
(* What must end, for TLC: handlers that run inline and the loops they stall, a   *)
(* shutdown as the listeners, one HTTP/1 connection and the QUIC hub see it, the  *)
(* calls of the upstream client, and the replacement of a proxy domain.  They     *)
(* meet only through what each models of the others, so one behaviour runs one of *)
(* them, which part names, and leaves the others as they began.  Fairness is that *)
(* of the part that runs.                                                         *)
EXTENDS InlineHandoff

CONSTANTS w1, r1, r2, none, Parts

VARIABLES
    part,
    aActive, aShutting, aDrain, aSt, aAdded, aZero, aShutdown,     \* Admission
    kConn, kShut,                                                  \* ConnLifecycle
    hConn, hSrv, hHub, hStop,                                      \* QuicAdmission
    uQ, uLoop, uEx, uPipe, uCaller, uPump, uCloser, uMix,          \* UpstreamClient
    pT, pMix                                                       \* ProxyBackends

\* One worker that is given two handlers, for two routes.
MCWorkers == {w1}
MCRoutes == {r1, r2}
MCNoRoute == none

\* Three connections, two of which may be open at once.
DoorConns == {1, 2, 3}
Door == INSTANCE Admission
    WITH Conns <- DoorConns, MaxConns <- 2, activeConns <- aActive, shuttingDown <- aShutting,
         drainDone <- aDrain, st <- aSt, added <- aAdded, zero <- aZero, shutdown <- aShutdown

\* One connection of two requests.
Conn == INSTANCE ConnLifecycle
    WITH Slots <- {1}, MaxGen <- 1, MaxUnits <- 2, BufCap <- 2, MaxPending <- 2, Units <- {"req", "bye", "bad"},
         conn <- kConn, shut <- kShut

\* One QUIC connection.
HubMixes == {{"shutdown", "timeout"}, {"bad", "stale", "shutdown"}, {"expire", "retire"}, {"shutdown", "expire"}}
Hub == INSTANCE QuicAdmission
    WITH Conns <- {1}, Slots <- 2, PerIP <- 2, MaxConns <- 2, MaxIssued <- 2, Inbound <- 1, Mixes <- HubMixes,
         conn <- hConn, srv <- hSrv, hub <- hHub, stop <- hStop

\* Calls with a pooled connection, a streamed response, or a streamed request body.
ClientMix(open, body, pooled, pieces) ==
    [exs |-> {1}, open |-> open, body |-> body, pooled |-> pooled, errors |-> TRUE, pieces |-> pieces,
     close |-> FALSE]
ClientMixes == {ClientMix({}, {}, {1}, 0), ClientMix({1}, {}, {}, 0), ClientMix({}, {1}, {}, 2)}
Client == INSTANCE UpstreamClient
    WITH Exs <- {1, 2}, MaxPieces <- 2, High <- 2, Low <- 1, Mark <- 0, Mixes <- ClientMixes,
         q <- uQ, loop <- uLoop, ex <- uEx, pipe <- uPipe, caller <- uCaller, pump <- uPump, closer <- uCloser,
         mix <- uMix

\* A domain with health checks that is replaced, removed and stopped.
PoolMixes ==
    {[lb |-> "rr", percent |-> 50, threshold |-> 1, reqs |-> {}, replayable |-> {}, upgrades |-> {},
      may |-> {"health", "add", "remove", "stop"}]}
Pool == INSTANCE ProxyBackends
    WITH Backends <- {1, 2}, Weight <- <<2, 1>>, Reqs <- {1, 2}, MaxVersion <- 2, MaxRetries <- 2, BaseEject <- 1,
         MaxEject <- 2, FailThreshold <- 2, SuccessThreshold <- 2, MaxTime <- 4, Mixes <- PoolMixes,
         t <- pT, mix <- pMix

--------------------------------------------------------------------------------
inlineVars == <<inlineQ, queued, inlineSeq, inlineRun, inlineSeen, inlineRoute, resumed, lp, workers, parked, wake,
                wd, scan, idle>>
doorVars == <<aActive, aShutting, aDrain, aSt, aAdded, aZero, aShutdown>>
connVars == <<kConn, kShut>>
hubVars == <<hConn, hSrv, hHub, hStop>>
clientVars == <<uQ, uLoop, uEx, uPipe, uCaller, uPump, uCloser, uMix>>
poolVars == <<pT, pMix>>

PartsInit ==
    /\ part \in Parts
    /\ Init /\ Door!Init /\ Conn!Init /\ Hub!Init /\ Client!Init /\ Pool!Init
    /\ part # "hub" => hSrv.mix = {"expire", "retire"}
    /\ part # "client" => uMix = ClientMix({}, {}, {1}, 0)

PartsNext ==
    /\ UNCHANGED part
    /\ \/ part = "inline" /\ Next /\ UNCHANGED <<doorVars, connVars, hubVars, clientVars, poolVars>>
       \/ part = "door" /\ Door!Next /\ UNCHANGED <<inlineVars, connVars, hubVars, clientVars, poolVars>>
       \/ part = "conn" /\ Conn!Next /\ UNCHANGED <<inlineVars, doorVars, hubVars, clientVars, poolVars>>
       \/ part = "hub" /\ Hub!Next /\ UNCHANGED <<inlineVars, doorVars, connVars, clientVars, poolVars>>
       \/ part = "client" /\ Client!Next /\ UNCHANGED <<inlineVars, doorVars, connVars, hubVars, poolVars>>
       \/ part = "pool" /\ Pool!Next /\ UNCHANGED <<inlineVars, doorVars, connVars, hubVars, clientVars>>

\* The actions that are fair, numbered in each part: the k-th is fair in the part that
\* runs.  The watchdog and the loops run; handlers need not return.
InlineFair(k) ==
    \/ k = 1 /\ DogStep
    \/ \E g \in Loopers : k = 2 + g[2] /\ LoopStep(g)

\* Threads run and connections end.
DoorFair(k) ==
    \/ \E c \in DoorConns : k = c /\ (Door!Add(c) \/ Door!Admit(c) \/ Door!Release(c) \/ Door!Released(c))
    \/ k = 4 /\ (Door!LoadActive \/ Door!CloseDrain \/ Door!Return)

\* The loop runs, handlers return, time passes, Shutdown's context ends and what was
\* hijacked is then closed.
ConnFair(k) ==
    \/ k = 1 /\ Conn!ServiceConn(1)
    \/ k = 2 /\ Conn!FinishDispatch(1)
    \/ k = 3 /\ Conn!FlushPending(1)
    \/ k = 4 /\ Conn!Sweep(1)
    \/ k = 5 /\ Conn!UnpinTakenOver(1)
    \/ k = 6 /\ Conn!DrainForShutdown(1)
    \/ k = 7 /\ Conn!HandlerEnds(1)
    \/ k = 8 /\ Conn!ShuttingDown /\ Conn!CloseHandoff(1)
    \/ k = 9 /\ Conn!ExpireShutdown
    \/ k = 10 /\ Conn!Exit

\* The goroutines of the hub and of its connections run.
HubFair(k) ==
    \/ k = 1 /\ (Hub!Slot(1) \/ Hub!Track(1) \/ Hub!Undo(1) \/ Hub!Store(1) \/ Hub!Add(1) \/ Hub!Finish(1))
    \/ k = 2 /\ Hub!Leave(1)
    \/ k = 3 /\ Hub!Watch(1)
    \/ k = 4 /\ Hub!Take(1)
    \/ k = 5 /\ Hub!Complete(1)
    \/ k = 6 /\ Hub!Room(1)
    \/ k = 7 /\ Hub!Tick(1)
    \/ k = 8 /\ Hub!Turn
    \/ k = 9 /\ Hub!Shutdown

\* The client's loop, callers and pumps run.
ClientFair(k) ==
    \/ k = 1 /\ Client!Loop
    \/ k = 2 /\ Client!Close
    \/ k = 3 /\ Client!Caller(1)
    \/ k = 4 /\ Client!Pump(1)

\* Callers run, and a pass of a checker ends.
PoolFair(k) ==
    \/ k = 1 /\ Pool!Replace
    \/ k = 2 /\ Pool!StoreDomain
    \/ k = 3 /\ Pool!StopRange
    \/ k = 4 /\ Pool!StopWaits
    \/ \E v \in {1, 2} : k = 4 + v /\ Pool!Probe(v)

Fair(k) ==
    /\ UNCHANGED part
    /\ \/ part = "inline" /\ InlineFair(k)
       \/ part = "door" /\ DoorFair(k)
       \/ part = "conn" /\ ConnFair(k)
       \/ part = "hub" /\ HubFair(k)
       \/ part = "client" /\ ClientFair(k)
       \/ part = "pool" /\ PoolFair(k)

\* A connection that does not answer is closed by its deadline whatever else the sockets
\* bring, and a select that keeps finding the stop channel ready takes it at last.
StronglyFair(k) ==
    /\ UNCHANGED part
    /\ \/ part = "client" /\ k = 1 /\ Client!Event(1, "timeout")
       \/ part = "pool" /\ Pool!CheckerExits(k)

\* The state of the part that runs.
Running ==
    CASE part = "inline" -> inlineVars [] part = "door" -> doorVars [] part = "conn" -> connVars
      [] part = "hub" -> hubVars [] part = "client" -> clientVars [] part = "pool" -> poolVars

PartsSpec ==
    /\ PartsInit
    /\ [][PartsNext]_<<part, inlineVars, doorVars, connVars, hubVars, clientVars, poolVars>>
    /\ \A k \in 1..10 : WF_Running(Fair(k))
    /\ \A k \in 1..2 : SF_Running(StronglyFair(k))

--------------------------------------------------------------------------------
(* Properties.                                                                  *)

\* Shutdown: it returns once the connections have ended, the loop of a worker exits,
\* and the QUIC hub closes its connections and stops (Shutdown, drainForShutdown,
\* goAwayAll): nobody is ever left in the middle of it for good.
ServerEnds ==
    []<>(CASE part = "door" -> Door!Settled
           [] part = "conn" -> Conn!ShutdownExited
           [] part = "hub" -> Hub!ShutdownEnded
           [] OTHER -> TRUE)

\* A handler that does not return loses the loop and those behind it start, the
\* watchdog ends with the last worker, a peer that is gone is closed, every call of
\* the upstream client returns, and a domain is replaced, removed and stopped although
\* its checker is in the middle of a pass (checkInlineStall, serviceConn, Do, hc.stop).
WorkEnds ==
    []<>(CASE part = "inline" -> Settled
           [] part = "conn" -> Conn!GonePeersClosed
           [] part = "client" -> Client!CallsReturned
           [] part = "pool" -> Pool!CallsEnded
           [] OTHER -> TRUE)

================================================================================
