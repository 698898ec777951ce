------------------------------- MODULE MCProxy --------------------------------
(* The reverse proxy for TLC: the exchange of a request on the loop, the choice  *)
(* and health of backends, and the client that the blocking path uses, with its  *)
(* HTTP/2 connections and its dialling and name lookups.  They meet only through *)
(* what each models of the others, so one behaviour runs one of them, which part *)
(* names, on the state in x.                                                     *)
EXTENDS Integers, Sequences

CONSTANTS Parts, Calls

VARIABLES part, x1, x2, x3, x4, x5, x6, x7, x8

-------------------------------------------------------------------------------
(* Exchanges: requests of one client connection or two, over HTTP/1 or HTTP/2,   *)
(* with pooled, broken, slow or failing backends, clients that go, and tunnels.  *)

ExMix(h2, reqs, replay, keep, may) == [h2 |-> h2, reqs |-> reqs, replay |-> replay, keep |-> keep, may |-> may]
ExMixes ==
    {ExMix({}, {1, 2}, {1}, {1, 2, 3}, {"reuse", "broken"}),
     ExMix({}, {1, 2}, {1}, {1, 2, 3}, {"reuse", "broken", "down"}),
     ExMix({}, {1, 3}, {1}, {1, 2, 3}, {"reuse", "gone"}),
     ExMix({}, {1, 2}, {1}, {1}, {"reuse", "error", "timeout", "ejected", "hit", "hook"}),
     ExMix({}, {1, 2}, {1}, {1}, {"stream", "slow", "cut", "error"}),
     ExMix({}, {1, 2}, {1}, {1}, {"stream", "eof", "slow", "gone"}),
     ExMix({}, {1}, {1}, {1}, {"stream", "eof", "slow", "cut", "gone", "error"}),
     ExMix({1}, {1, 2}, {1}, {1, 2, 3}, {"reuse", "stream", "gone"}),
     ExMix({1}, {1, 3}, {1}, {1, 2, 3}, {"reuse", "stream", "error"}),
     ExMix({}, {1}, {1, 2}, {1, 2, 3}, {"tunnel", "slow", "cut", "gone", "error", "timeout"})}
ExConnOf == <<1, 1, 2>>
Exchange == INSTANCE ProxyExchange
    WITH Conns <- {1, 2}, Reqs <- {1, 2, 3}, ConnOf <- ExConnOf, Backends <- {1, 2}, BConns <- {1, 2, 3},
         MaxRetries <- 1, MaxIdle <- 1, MaxRequests <- 2, High <- 2, Low <- 1, ConnBudget <- 2, ServerBudget <- 2,
         MaxChunks <- 3, Mixes <- ExMixes, p <- x1, mix <- x2

-------------------------------------------------------------------------------
(* Backends: every way to choose one, ejections, health checks, and domains that *)
(* are replaced, removed and stopped.                                            *)

BackendMix(lb, percent, threshold, reqs, replayable, upgrades, may) ==
    [lb |-> lb, percent |-> percent, threshold |-> threshold, reqs |-> reqs, replayable |-> replayable,
     upgrades |-> upgrades, may |-> may]
BackendMixes ==
    {BackendMix("rr", 50, 2, {1, 2}, {1}, {}, {"cache", "interceptor"}),
     BackendMix("weighted", 50, 2, {1, 2}, {1, 2}, {2}, {"client leaves"}),
     BackendMix("least", 50, 1, {1, 2}, {}, {}, {}), BackendMix("hash", 50, 1, {1}, {1}, {1}, {"health"}),
     BackendMix("random", 100, 1, {1}, {1}, {}, {"tick"}), BackendMix("rr", 100, 1, {1, 2}, {}, {}, {"tick"}),
     BackendMix("rr", 50, 1, {}, {}, {}, {"health", "add", "remove", "stop"}),
     BackendMix("rr", 50, 1, {1, 2}, {1}, {}, {"add", "remove"})}
Pool == INSTANCE ProxyBackends
    WITH Backends <- {1, 2}, Weight <- <<2, 1>>, Reqs <- {1, 2}, MaxVersion <- 2, MaxRetries <- 2, BaseEject <- 1,
         MaxEject <- 2, FailThreshold <- 2, SuccessThreshold <- 2, MaxTime <- 3, Mixes <- BackendMixes,
         t <- x1, mix <- x2

-------------------------------------------------------------------------------
(* The upstream client: two calls at once, with streamed bodies and responses,   *)
(* pooled connections and errors.                                                *)

ClientMix(exs, open, body, pooled, errors, pieces) ==
    [exs |-> exs, open |-> open, body |-> body, pooled |-> pooled, errors |-> errors, pieces |-> pieces,
     close |-> FALSE]
\* A call while the client is closed.
CloseMixes == {[ClientMix({1}, {}, {}, {}, FALSE, 0) EXCEPT !.close = TRUE]}
ClientMixes ==
    {ClientMix({1, 2}, {}, {}, {1}, TRUE, 0), ClientMix({1}, {1}, {}, {}, TRUE, 0),
     ClientMix({1}, {}, {1}, {}, TRUE, 2), ClientMix({1}, {1}, {1}, {}, FALSE, 0)}
Client == INSTANCE UpstreamClient
    WITH Exs <- {1, 2}, MaxPieces <- 2, High <- 2, Low <- 1, Mark <- 0, Mixes <- Calls,
         q <- x1, loop <- x2, ex <- x3, pipe <- x4, caller <- x5, pump <- x6, closer <- x7, mix <- x8

H2Mix(exs, body, maxID, may) == [exs |-> exs, body |-> body, maxID |-> maxID, may |-> may]
H2Mixes ==
    {H2Mix({1, 2}, {1, 2}, 3, {"settings", "credit", "full"}),
     H2Mix({1, 2, 3}, {}, 3, {"goaway", "broken", "reset"}), H2Mix({1, 2, 3}, {}, 3, {"goaway", "settings"}),
     H2Mix({1, 2, 3}, {1}, 1, {"goaway", "broken", "reset", "expire", "full"}),
     H2Mix({1, 2}, {1, 2}, 3, {"continuation", "broken", "reset", "expire", "credit", "full"})}
H2 == INSTANCE UpstreamH2
    WITH Exs <- {1, 2, 3}, Conns <- {1, 2}, Body <- <<2, 2, 2>>, Uploads <- {1}, Limits <- {1, 2}, Windows <- {0, 1},
         ConnWindow <- 1, MaxCredit <- 2, Mixes <- H2Mixes, s <- x1, mix <- x2

DialMix(max, third, may) == [max |-> max, host |-> <<1, 1, third>>, may |-> may]
DialMixes ==
    {DialMix(3, 1, {"error", "late"}), DialMix(3, 1, {"worker", "abort"}), DialMix(2, 1, {"unsendable"}), DialMix(1, 1, {"age"}),
     DialMix(2, 2, {"undialable", "late", "quit"})}
Dial == INSTANCE UpstreamDial
    WITH Exs <- {1, 2, 3}, Hosts <- {1, 2}, Servers <- 2, Fds <- {1, 2, 3}, Mixes <- DialMixes, s <- x1, mix <- x2

-------------------------------------------------------------------------------
From3 == x3 = 0 /\ x4 = 0 /\ x5 = 0 /\ x6 = 0 /\ x7 = 0 /\ x8 = 0

PartsInit ==
    /\ part \in Parts
    /\ \/ part = "client" /\ Client!Init
       \/ /\ From3
          /\ \/ part = "exchange" /\ Exchange!Init
             \/ part = "backends" /\ Pool!Init
             \/ part = "h2" /\ H2!Init
             \/ part = "dial" /\ Dial!Init

xFrom3 == <<x3, x4, x5, x6, x7, x8>>
x == <<x1, x2, xFrom3>>

PartsNext ==
    \/ part = "exchange" /\ Exchange!Next /\ UNCHANGED <<part, xFrom3>>
    \/ part = "backends" /\ Pool!Next /\ UNCHANGED <<part, xFrom3>>
    \/ part = "client" /\ Client!Next /\ UNCHANGED part
    \/ part = "h2" /\ H2!Next /\ UNCHANGED <<part, xFrom3>>
    \/ part = "dial" /\ Dial!Next /\ UNCHANGED <<part, xFrom3>>

PartsSpec == PartsInit /\ [][PartsNext]_<<part, x>>

-------------------------------------------------------------------------------
(* Properties.                                                                 *)

\* An exchange holds its backend connection, its retry and its buffers exactly while it
\* needs them, sends nothing again that may not be, is answered once and is always
\* driven; pauses end, what is pooled is clean and freed once (beginProxy, pxPut,
\* proxyRetryOrFail, pauseBackendRead, resumeTunnelIfDrained).
ExchangeSound ==
    part = "exchange" =>
        /\ Exchange!TypeOK /\ Exchange!HoldingsExact /\ Exchange!NotRepeated /\ Exchange!AnsweredOnce
        /\ Exchange!ExchangesDriven /\ Exchange!PausesEnd /\ Exchange!PoolClean /\ Exchange!FreedOnce
        /\ Exchange!TunnelJoined

\* Backends: requests in progress are counted exactly, ejections stand and stay within
\* their share, every available backend is tried once, and a domain has one checker
\* (serveDomain, pickRetryBackend, eject, proxyMayRetry, stop).
BackendsSound ==
    /\ [](part = "backends" => /\ Pool!TypeOK /\ Pool!ActiveExact /\ Pool!EjectedWithinShare
                               /\ Pool!NotRepeated /\ Pool!OneChecker)
    /\ [][part = "backends" => Pool!KeepsEjections /\ Pool!GivesUpLast]_<<part, x>>

\* The upstream client: no submitted exchange is lost, no piece of a body is lost or
\* reordered, and uploads, pipes and aborts are always driven (submit, pump, respPipe.push).
ClientSound ==
    part = "client" => /\ Client!TypeOK /\ Client!NoLostSubmit /\ Client!NoPieceLost /\ Client!UploadDriven
                       /\ Client!PipeDriven /\ Client!AbortDriven /\ Client!FlagsSeen

\* The client's HTTP/2 connections and sockets: an exchange is in one place, windows
\* are the server's, uploads and free slots are used, an exhausted connection closes,
\* events reach the socket they are for, and lookups end (openStream, finishStream,
\* adoptSocket, dnsResolved, dnsAbandon).
UpstreamSound ==
    /\ [](part = "h2" => /\ H2!TypeOK /\ H2!OnePlace /\ H2!WindowsAgree /\ H2!UploadDriven
                         /\ H2!ExhaustedCloses /\ H2!SlotsUsed)
    /\ [](part = "dial" => /\ Dial!TypeOK /\ Dial!SocketsExact /\ Dial!LookupsDriven
                           /\ Dial!EventsReachTheirSocket)
    /\ [][part = "dial" => Dial!Advances]_<<part, x>>

\* Do as src/core/fp_client.go:37 documents it: it "blocks until a response is received
\* or the request fails (for example if the client is closed ...)", so a loop that
\* Close has ended leaves no call waiting.
CloseFailsCalls == part = "client" => Client!ClosedFails

===============================================================================
