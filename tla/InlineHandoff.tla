----------------------------- MODULE InlineHandoff -----------------------------
(* Handlers that run on the event loop, and the watchdog that moves the loop to  *)
(* another goroutine when one of them does not return                            *)
(* (src/core/epoll_inline_linux_amd64.go).                                       *)
(*                                                                               *)
(* A worker's loop runs queued handlers inline.  While one runs, inlineRun holds *)
(* its sequence number.  The watchdog that sees the same number in two scans, or *)
(* a handler that knows it will block (leaveInline) or that ends its goroutine,  *)
(* swaps the number for HandedOff and starts a successor goroutine for the same  *)
(* worker; the goroutine of the handler learns of it when its own swap fails.    *)
(* The watchdog itself goes to sleep when nothing runs inline.                   *)
(*                                                                               *)
(* A loop goroutine is named after what started it: <<w, 0>> is the goroutine    *)
(* the server started for worker w, <<w, s>> the successor of handler run s.     *)
EXTENDS Naturals, Sequences

CONSTANTS
    Workers,      \* epoll workers of the server
    Routes,       \* handlers, as handlerIdentity tells them apart
    MaxRuns,      \* bound: handlers a worker is given
    IdleTicks,    \* inlineWatchIdleTicks, scans without work before parking
    NoRoute       \* the zero value of inlineRoute

ASSUME InlineAssumption ==
    /\ MaxRuns \in Nat \ {0}
    /\ IdleTicks \in Nat \ {0}
    /\ NoRoute \notin Routes

HandedOff == MaxRuns + 1   \* inlineHandedOff, no sequence number

VARIABLES
    inlineQ,      \* epollWorker.inlineQ from inlineHead on
    queued,       \* handlers given to a worker so far (bounds the model)
    inlineSeq,    \* epollWorker.inlineSeq
    inlineRun,    \* epollWorker.inlineRun: 0, a sequence number or HandedOff
    inlineSeen,   \* epollWorker.inlineSeen
    inlineRoute,  \* epollWorker.inlineRoute
    resumed,      \* epollWorker.resumed
    lp,           \* the loop goroutines
    workers,      \* inlineWatchdog.workers
    parked,       \* inlineWatchdog.parked
    wake,         \* a token is in inlineWatchdog.wake
    wd,           \* where the watchdog is
    scan,         \* the scan in progress: what for, workers left, busy so far, and
                  \* the worker and sequence number of a handOff it is in
    idle          \* run's local

worker == <<inlineQ, queued, inlineSeq, inlineRun, inlineSeen, inlineRoute, resumed>>
dog    == <<wd, scan, idle>>
vars   == <<worker, lp, workers, parked, wake, dog>>

Loopers == Workers \X (0..MaxRuns)

LoopSteps == {"off", "top", "wait", "serve", "queue", "store", "signal",
              "handler", "spawn", "swap", "tail"}

DogSteps == {"off", "tick", "scan", "swap", "spawn", "park", "parkScan",
             "sleep", "unpark", "wokenScan"}

\* The types of the state; sequence numbers stay below HandedOff.
TypeOK ==
    /\ inlineQ \in [Workers -> Seq(Routes)]
    /\ queued \in [Workers -> 0..MaxRuns]
    /\ inlineSeq \in [Workers -> 0..MaxRuns]
    /\ inlineRun \in [Workers -> 0..HandedOff]
    /\ inlineSeen \in [Workers -> 0..MaxRuns]
    /\ inlineRoute \in [Workers -> Routes \cup {NoRoute}]
    /\ resumed \in [Workers -> BOOLEAN]
    /\ lp \in [Loopers -> [at : LoopSteps, seq : 0..MaxRuns, live : BOOLEAN,
                           exiting : BOOLEAN, route : Routes \cup {NoRoute}]]
    /\ workers \subseteq Workers
    /\ parked \in BOOLEAN /\ wake \in BOOLEAN
    /\ wd \in DogSteps
    /\ scan \in [why : {"tick", "park", "woken"}, left : SUBSET Workers, busy : BOOLEAN,
                 hand : SUBSET Workers, seq : 0..MaxRuns]
    /\ idle \in 0..IdleTicks

Asleep == [at |-> "off", seq |-> 0, live |-> FALSE, exiting |-> FALSE, route |-> NoRoute]

NoScan == [why |-> "tick", left |-> {}, busy |-> FALSE, hand |-> {}, seq |-> 0]

Init ==
    /\ inlineQ = [w \in Workers |-> <<>>]
    /\ queued = [w \in Workers |-> 0]
    /\ inlineSeq = [w \in Workers |-> 0]
    /\ inlineRun = [w \in Workers |-> 0]
    /\ inlineSeen = [w \in Workers |-> 0]
    /\ inlineRoute = [w \in Workers |-> NoRoute]
    /\ resumed = [w \in Workers |-> FALSE]
    /\ lp = [g \in Loopers |-> IF g[2] = 0 THEN [Asleep EXCEPT !.at = "top"] ELSE Asleep]
    /\ workers = Workers
    /\ parked = FALSE /\ wake = FALSE
    /\ wd = "tick" /\ scan = NoScan /\ idle = 0

--------------------------------------------------------------------------------
(* A loop goroutine g of worker g[1].                                           *)

At(g, step) == lp[g].at = step
GoTo(g, step) == lp' = [lp EXCEPT ![g].at = step]

\* loop: takes and clears resumed; a successor skips waitEvents once.
Top(g) ==
    /\ At(g, "top")
    /\ resumed' = [resumed EXCEPT ![g[1]] = FALSE]
    /\ GoTo(g, IF resumed[g[1]] THEN "serve" ELSE "wait")
    /\ UNCHANGED <<inlineQ, queued, inlineSeq, inlineRun, inlineSeen, inlineRoute,
                   workers, parked, wake, dog>>

\* Mutant: waitEvents does not look at the inline queue.
WaitSleeps(g) ==
    /\ At(g, "wait")
    /\ inlineQ[g[1]] = <<>>
    /\ GoTo(g, "serve")
    /\ UNCHANGED <<worker, workers, parked, wake, dog>>

\* waitEvents: only polls while a handler is queued ...
WaitPolls(g) ==
    /\ At(g, "wait")
    /\ inlineQ[g[1]] # <<>>
    /\ GoTo(g, "serve")
    /\ UNCHANGED <<worker, workers, parked, wake, dog>>

\* ... and otherwise sleeps until a socket is ready or the sweep is due.
WaitReady(g) ==
    /\ At(g, "wait")
    /\ inlineQ[g[1]] = <<>>
    /\ GoTo(g, "serve")
    /\ UNCHANGED <<worker, workers, parked, wake, dog>>

\* queueH1Inline, queueH2Inline: while it serves its sockets, or resumes and
\* flushes connections at the end of the pass, the loop queues a handler.
QueueInline(g, r) ==
    /\ At(g, "serve") \/ At(g, "tail")
    /\ queued[g[1]] < MaxRuns
    /\ queued' = [queued EXCEPT ![g[1]] = @ + 1]
    /\ inlineQ' = [inlineQ EXCEPT ![g[1]] = Append(@, r)]
    /\ UNCHANGED <<inlineSeq, inlineRun, inlineSeen, inlineRoute, resumed,
                   lp, workers, parked, wake, dog>>

Served(g) ==
    /\ At(g, "serve")
    /\ GoTo(g, "queue")
    /\ UNCHANGED <<worker, workers, parked, wake, dog>>

\* Mutant: inlineRoute is not recorded for the run.
TakeUnrecorded(g) ==
    /\ At(g, "queue")
    /\ inlineQ[g[1]] # <<>>
    /\ inlineQ' = [inlineQ EXCEPT ![g[1]] = Tail(@)]
    /\ inlineSeq' = [inlineSeq EXCEPT ![g[1]] = @ + 1]
    /\ lp' = [lp EXCEPT ![g] = [at |-> "store", seq |-> inlineSeq[g[1]] + 1, live |-> TRUE,
                                exiting |-> FALSE, route |-> Head(inlineQ[g[1]])]]
    /\ UNCHANGED <<queued, inlineRun, inlineSeen, inlineRoute, resumed, workers, parked, wake, dog>>

\* runInlineQueue: the next handler gets a sequence number ...
TakeInline(g) ==
    /\ At(g, "queue")
    /\ inlineQ[g[1]] # <<>>
    /\ inlineQ' = [inlineQ EXCEPT ![g[1]] = Tail(@)]
    /\ inlineSeq' = [inlineSeq EXCEPT ![g[1]] = @ + 1]
    /\ inlineRoute' = [inlineRoute EXCEPT ![g[1]] = Head(inlineQ[g[1]])]
    /\ lp' = [lp EXCEPT ![g] = [at |-> "store", seq |-> inlineSeq[g[1]] + 1, live |-> TRUE,
                                exiting |-> FALSE, route |-> Head(inlineQ[g[1]])]]
    /\ UNCHANGED <<queued, inlineRun, inlineSeen, resumed, workers, parked, wake, dog>>

\* ... or, when the batch has used up its time, goes to a pool goroutine
\* (spillInline).
SpillInline(g) ==
    /\ At(g, "queue")
    /\ inlineQ[g[1]] # <<>>
    /\ inlineQ' = [inlineQ EXCEPT ![g[1]] = Tail(@)]
    /\ UNCHANGED <<queued, inlineSeq, inlineRun, inlineSeen, inlineRoute, resumed,
                   lp, workers, parked, wake, dog>>

\* inlineRun.Store(seq).
StoreRun(g) ==
    /\ At(g, "store")
    /\ inlineRun' = [inlineRun EXCEPT ![g[1]] = lp[g].seq]
    /\ GoTo(g, "signal")
    /\ UNCHANGED <<inlineQ, queued, inlineSeq, inlineSeen, inlineRoute, resumed,
                   workers, parked, wake, dog>>

\* A parked watchdog is woken before the handler starts.
SignalDog(g) ==
    /\ At(g, "signal")
    /\ wake' = (wake \/ parked)
    /\ GoTo(g, "handler")
    /\ UNCHANGED <<worker, workers, parked, dog>>

\* The handler returns, or panics and is recovered (endInlineHandler).
HandlerReturns(g) ==
    /\ At(g, "handler")
    /\ lp' = [lp EXCEPT ![g].at = "swap", ![g].live = FALSE]
    /\ UNCHANGED <<worker, workers, parked, wake, dog>>

\* handOff's compare-and-swap for run s of worker w.
HandOffSwap(w, s) ==
    inlineRun' = IF inlineRun[w] = s THEN [inlineRun EXCEPT ![w] = HandedOff] ELSE inlineRun

\* leaveInline: the handler is about to stream, hijack or wait, and gives the
\* loop away; a second call finds live down.
LeaveInline(g) ==
    /\ At(g, "handler")
    /\ lp[g].live
    /\ HandOffSwap(g[1], lp[g].seq)
    /\ lp' = [lp EXCEPT ![g].live = FALSE,
                        ![g].at = IF inlineRun[g[1]] = lp[g].seq THEN "spawn" ELSE "handler"]
    /\ UNCHANGED <<inlineQ, queued, inlineSeq, inlineSeen, inlineRoute, resumed,
                   workers, parked, wake, dog>>

\* Mutant: a handler that ends its goroutine takes the loop with it.
ExitTakesLoop(g) ==
    /\ At(g, "handler")
    /\ lp' = [lp EXCEPT ![g] = Asleep]
    /\ UNCHANGED <<worker, workers, parked, wake, dog>>

\* The handler ends its goroutine (runtime.Goexit): endInlineHandler(exiting)
\* hands the loop off unless that was done before.
HandlerExits(g) ==
    /\ At(g, "handler")
    /\ IF lp[g].live
       THEN /\ HandOffSwap(g[1], lp[g].seq)
            /\ lp' = [lp EXCEPT ![g] = IF inlineRun[g[1]] = lp[g].seq
                                       THEN [@ EXCEPT !.at = "spawn", !.exiting = TRUE]
                                       ELSE Asleep]
       ELSE /\ lp' = [lp EXCEPT ![g] = Asleep]
            /\ UNCHANGED inlineRun
    /\ UNCHANGED <<inlineQ, queued, inlineSeq, inlineSeen, inlineRoute, resumed,
                   workers, parked, wake, dog>>

\* The rest of handOff: resumed is set and the successor starts.  The goroutine
\* that gave the loop away goes on with its handler, or ends.
SpawnSelf(g) ==
    /\ At(g, "spawn")
    /\ resumed' = [resumed EXCEPT ![g[1]] = TRUE]
    /\ lp' = [lp EXCEPT ![<<g[1], lp[g].seq>>] = [Asleep EXCEPT !.at = "top"],
                        ![g] = IF lp[g].exiting THEN Asleep ELSE [@ EXCEPT !.at = "handler"]]
    /\ UNCHANGED <<inlineQ, queued, inlineSeq, inlineRun, inlineSeen, inlineRoute,
                   workers, parked, wake, dog>>

\* Mutant: the loop goes on after the handler without looking.
StoreBack(g) ==
    /\ At(g, "swap")
    /\ inlineRun' = [inlineRun EXCEPT ![g[1]] = 0]
    /\ lp' = [lp EXCEPT ![g] = [Asleep EXCEPT !.at = "queue"]]
    /\ UNCHANGED <<inlineQ, queued, inlineSeq, inlineSeen, inlineRoute, resumed,
                   workers, parked, wake, dog>>

\* runInlineQueue after the handler: the loop is still this goroutine's only if
\* the swap of its sequence number for 0 succeeds.
SwapBack(g) ==
    /\ At(g, "swap")
    /\ IF inlineRun[g[1]] = lp[g].seq
       THEN /\ inlineRun' = [inlineRun EXCEPT ![g[1]] = 0]
            /\ lp' = [lp EXCEPT ![g] = [Asleep EXCEPT !.at = "queue"]]
       ELSE /\ lp' = [lp EXCEPT ![g] = Asleep]
            /\ UNCHANGED inlineRun
    /\ UNCHANGED <<inlineQ, queued, inlineSeq, inlineSeen, inlineRoute, resumed,
                   workers, parked, wake, dog>>

\* The queue is empty: the pass goes on with completions, flushes and accepts ...
QueueDone(g) ==
    /\ At(g, "queue")
    /\ inlineQ[g[1]] = <<>>
    /\ GoTo(g, "tail")
    /\ UNCHANGED <<worker, workers, parked, wake, dog>>

\* ... after which there is another dispatch round or another pass.
NextRound(g) ==
    /\ At(g, "tail")
    /\ \E step \in {"queue", "top"} :
          /\ step = "queue" => inlineQ[g[1]] # <<>>
          /\ GoTo(g, step)
    /\ UNCHANGED <<worker, workers, parked, wake, dog>>

\* The mutex of the watchdog is free: it is not scanning.
MuFree == wd \notin {"scan", "swap", "spawn"}

\* Mutant: remove does not signal the watchdog.
CloseSilently(g) ==
    /\ At(g, "top")
    /\ inlineQ[g[1]] = <<>>
    /\ \A h \in Loopers \ {g} : h[1] = g[1] => lp[h].at \in {"off", "swap"}
    /\ MuFree
    /\ workers' = workers \ {g[1]}
    /\ GoTo(g, "off")
    /\ UNCHANGED <<worker, parked, wake, dog>>

\* The end of a drain: no connection is held, so no handler of the worker is
\* queued or running, though the goroutine of one may not have swapped back yet.
\* closeLoop removes the worker from the watchdog and signals it.
CloseLoop(g) ==
    /\ At(g, "top")
    /\ inlineQ[g[1]] = <<>>
    /\ \A h \in Loopers \ {g} : h[1] = g[1] => lp[h].at \in {"off", "swap"}
    /\ MuFree
    /\ workers' = workers \ {g[1]}
    /\ wake' = TRUE
    /\ GoTo(g, "off")
    /\ UNCHANGED <<worker, parked, dog>>

--------------------------------------------------------------------------------
(* The watchdog.                                                                *)

\* scan begins: with no worker left the watchdog ends.
BeginScan(why) ==
    IF workers = {}
    THEN /\ wd' = "off" /\ scan' = NoScan
         /\ parked' = FALSE
    ELSE /\ wd' = "scan" /\ scan' = [NoScan EXCEPT !.why = why, !.left = workers]
         /\ UNCHANGED parked

\* run: a tick has passed.
Tick ==
    /\ wd = "tick"
    /\ BeginScan("tick")
    /\ UNCHANGED <<worker, lp, workers, wake, idle>>

\* Mutant: the scan does not remember the run it saw.
CheckForgets(w) ==
    /\ wd = "scan" /\ w \in scan.left
    /\ scan' = [scan EXCEPT !.left = @ \ {w}, !.busy = inlineRun[w] \notin {0, HandedOff}]
    /\ UNCHANGED <<worker, lp, workers, parked, wake, wd, idle>>

\* checkInlineStall for worker w: the read of inlineRun.
CheckStall(w) ==
    /\ wd = "scan" /\ w \in scan.left
    /\ LET run == inlineRun[w]
           rest == [scan EXCEPT !.left = @ \ {w}]
       IN  CASE run \in {0, HandedOff} ->
                  /\ inlineSeen' = [inlineSeen EXCEPT ![w] = 0]
                  /\ scan' = rest
                  /\ UNCHANGED wd
             [] run \notin {0, HandedOff} /\ run # inlineSeen[w] ->
                  /\ inlineSeen' = [inlineSeen EXCEPT ![w] = run]
                  /\ scan' = [rest EXCEPT !.busy = TRUE]
                  /\ UNCHANGED wd
             [] OTHER ->
                  /\ inlineSeen' = [inlineSeen EXCEPT ![w] = 0]
                  /\ scan' = [rest EXCEPT !.hand = {w}, !.seq = run]
                  /\ wd' = "swap"
    /\ UNCHANGED <<inlineQ, queued, inlineSeq, inlineRun, inlineRoute, resumed,
                   lp, workers, parked, wake, idle>>

\* handOff of the stalled run: the compare-and-swap ...
DogSwap(w) ==
    /\ wd = "swap" /\ w \in scan.hand
    /\ HandOffSwap(w, scan.seq)
    /\ IF inlineRun[w] = scan.seq
       THEN wd' = "spawn" /\ UNCHANGED scan
       ELSE wd' = "scan" /\ scan' = [scan EXCEPT !.hand = {}, !.seq = 0]
    /\ UNCHANGED <<inlineQ, queued, inlineSeq, inlineSeen, inlineRoute, resumed,
                   lp, workers, parked, wake, idle>>

\* ... and the start of the successor.
DogSpawn(w) ==
    /\ wd = "spawn" /\ w \in scan.hand
    /\ resumed' = [resumed EXCEPT ![w] = TRUE]
    /\ lp' = [lp EXCEPT ![<<w, scan.seq>>] = [Asleep EXCEPT !.at = "top"]]
    /\ wd' = "scan" /\ scan' = [scan EXCEPT !.hand = {}, !.seq = 0]
    /\ UNCHANGED <<inlineQ, queued, inlineSeq, inlineRun, inlineSeen, inlineRoute,
                   workers, parked, wake, idle>>

\* Mutant: idle is not reset when the watchdog parks.
EndTickNoReset ==
    /\ wd = "scan" /\ scan.left = {} /\ scan.why = "tick"
    /\ idle' = IF scan.busy THEN 0 ELSE idle + 1
    /\ wake' = FALSE
    /\ wd' = IF ~scan.busy /\ idle + 1 >= IdleTicks THEN "park" ELSE "tick"
    /\ scan' = NoScan
    /\ UNCHANGED <<worker, lp, workers, parked>>

\* run after a scan for a tick: IdleTicks quiet scans lead to park, which empties
\* the channel and raises parked before it scans again.
EndTickScan ==
    /\ wd = "scan" /\ scan.left = {} /\ scan.why = "tick"
    /\ IF ~scan.busy /\ idle + 1 >= IdleTicks
       THEN /\ idle' = 0
            /\ wake' = FALSE
            /\ wd' = "park" /\ scan' = NoScan
       ELSE /\ idle' = IF scan.busy THEN 0 ELSE idle + 1
            /\ wd' = "tick" /\ scan' = NoScan
            /\ UNCHANGED wake
    /\ UNCHANGED <<worker, lp, workers, parked>>

\* park: parked.Store(true) ...
Park ==
    /\ wd = "park"
    /\ parked' = TRUE
    /\ wd' = "parkScan"
    /\ UNCHANGED <<worker, lp, workers, wake, scan, idle>>

\* Mutant: park goes to sleep without the second scan.
SleepAtOnce ==
    /\ wd = "parkScan"
    /\ wd' = "sleep"
    /\ UNCHANGED <<worker, lp, workers, parked, wake, scan, idle>>

\* ... and the scan that must see what started before parked was up.
ParkScan ==
    /\ wd = "parkScan"
    /\ BeginScan("park")
    /\ UNCHANGED <<worker, lp, workers, wake, idle>>

EndParkScan ==
    /\ wd = "scan" /\ scan.left = {} /\ scan.why = "park"
    /\ wd' = IF scan.busy THEN "unpark" ELSE "sleep"
    /\ scan' = NoScan
    /\ UNCHANGED <<worker, lp, workers, parked, wake, idle>>

\* The receive from the wake channel.
Woken ==
    /\ wd = "sleep"
    /\ wake
    /\ wake' = FALSE
    /\ wd' = "unpark"
    /\ UNCHANGED <<worker, lp, workers, parked, scan, idle>>

\* park: parked.Store(false), then the last scan.
Unpark ==
    /\ wd = "unpark"
    /\ parked' = FALSE
    /\ wd' = "wokenScan"
    /\ UNCHANGED <<worker, lp, workers, wake, scan, idle>>

WokenScan ==
    /\ wd = "wokenScan"
    /\ BeginScan("woken")
    /\ UNCHANGED <<worker, lp, workers, wake, idle>>

EndWokenScan ==
    /\ wd = "scan" /\ scan.left = {} /\ scan.why = "woken"
    /\ wd' = "tick" /\ scan' = NoScan
    /\ UNCHANGED <<worker, lp, workers, parked, wake, idle>>

--------------------------------------------------------------------------------

\* Steps of the loop's own code; the handler's steps are not among them.
LoopStep(g) ==
    \/ Top(g) \/ WaitPolls(g) \/ Served(g) \/ TakeInline(g) \/ SpillInline(g)
    \/ StoreRun(g) \/ SignalDog(g) \/ SpawnSelf(g) \/ SwapBack(g)
    \/ QueueDone(g) \/ NextRound(g)

HandlerStep(g) == HandlerReturns(g) \/ LeaveInline(g) \/ HandlerExits(g)

DogStep ==
    \/ Tick \/ EndTickScan \/ Park \/ ParkScan \/ EndParkScan
    \/ Woken \/ Unpark \/ WokenScan \/ EndWokenScan
    \/ \E w \in Workers : CheckStall(w) \/ DogSwap(w) \/ DogSpawn(w)

Next ==
    \/ \E g \in Loopers : LoopStep(g) \/ HandlerStep(g) \/ WaitReady(g) \/ CloseLoop(g)
    \/ \E g \in Loopers, r \in Routes : QueueInline(g, r)
    \/ DogStep

Spec == Init /\ [][Next]_vars

--------------------------------------------------------------------------------
(* Properties.                                                                  *)

\* Goroutine g has the worker's state to itself: it is in the loop's code, or in
\* a handler that is still the worker's current run.
Owns(g) ==
    \/ lp[g].at \in {"top", "wait", "serve", "queue", "store", "tail"}
    \/ lp[g].at \in {"signal", "handler", "swap"} /\ inlineRun[g[1]] = lp[g].seq

\* A successor of worker w is about to be started.
HandingOff(w) ==
    \/ wd = "spawn" /\ w \in scan.hand
    \/ \E g \in Loopers : g[1] = w /\ lp[g].at = "spawn"

\* handOff, runInlineQueue: a worker's unsynchronised state (its connections,
\* pool, inlineQ) is never used by two loop goroutines, nor while a successor
\* is being started.
OneOwner ==
    /\ \A g, h \in Loopers : g[1] = h[1] /\ Owns(g) /\ Owns(h) => g = h
    /\ \A g \in Loopers : Owns(g) => ~HandingOff(g[1])

\* And it is never abandoned: until its loop is closed, a worker has an owner or
\* a successor on its way, whatever the handlers and the watchdog do.
NeverOrphaned ==
    \A w \in workers : HandingOff(w) \/ \E g \in Loopers : g[1] = w /\ Owns(g)

\* handOff reads inlineRoute after its compare-and-swap; the route it demotes is
\* that of the handler it takes the loop away from.
DemotesTheStalledRoute ==
    \A g \in Loopers :
        \/ lp[g].at = "spawn"
        \/ wd = "spawn" /\ g[1] \in scan.hand /\ lp[g].seq = scan.seq /\ lp[g].at # "off"
        => inlineRoute[g[1]] = lp[g].route

\* park against runInlineQueue: a watchdog asleep with no wake-up under way has no
\* handler to watch.
DogSleepsOnlyWhenIdle ==
    (wd = "sleep" /\ ~wake) =>
        \A g \in Loopers : lp[g].at \in {"handler", "swap"} => ~Owns(g)

\* handOff, park: the route demoted is that of the handler that stalls, and the
\* watchdog sleeps only when there is nothing to watch.
HandoffSound == TypeOK /\ DemotesTheStalledRoute /\ DogSleepsOnlyWhenIdle

\* checkInlineStall, remove: no handler holds the loop, every queued one was started, and
\* the watchdog has ended if every worker is closed.
Settled ==
    /\ \A w \in Workers : inlineRun[w] \in {0, HandedOff} /\ inlineQ[w] = <<>>
    /\ workers = {} => wd = "off"

================================================================================
