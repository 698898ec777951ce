--------------------------- MODULE InlineHandoffProofs ---------------------------
(* A worker's loop has one owner, for any number of workers, routes and handler   *)
(* runs, and the watchdog takes it from the handler that stalls.                  *)
(* First the invariant, and the lemmas that every step keeps the types and that a *)
(* loop's and a handler's own steps keep the part of it about who owns a loop.    *)
EXTENDS InlineHandoff, TLAPS

\* Where a goroutine is in the loop's code, and where in a handler run.
Free == {"top", "wait", "serve", "queue", "tail"}
InRun == {"signal", "handler", "swap"}
Running == {"store", "spawn"} \cup InRun

\* No run of worker w is the current one.
Quiet(w) == inlineRun[w] \in {0, HandedOff}

\* Who has the right to worker w's loop: a goroutine that owns it or is starting its
\* own successor, or the watchdog that is starting one.
Holds(g) == Owns(g) \/ lp[g].at = "spawn"
DogHolds(w) == wd = "spawn" /\ w \in scan.hand

\* Every run was queued before it got its number.
QueueInv == \A w \in Workers : inlineSeq[w] + Len(inlineQ[w]) <= queued[w]

TypeInv == TypeOK /\ QueueInv

\* Runs have numbers of their own, and no successor runs before its run was numbered.
RunsInv ==
    /\ \A g \in Loopers : /\ lp[g].at \in Running => lp[g].seq \in 1..inlineSeq[g[1]]
                          /\ lp[g].at \notin Running => lp[g].seq = 0
                          /\ g[2] > inlineSeq[g[1]] => lp[g].at = "off"
    /\ \A g, h \in Loopers : g[1] = h[1] /\ lp[g].at \in Running /\ lp[g].seq = lp[h].seq => g = h
    /\ \A w \in Workers : Quiet(w) \/ inlineRun[w] <= inlineSeq[w]

\* Exactly one holds the loop of a worker that is not closed.
HolderInv ==
    /\ \A g, h \in Loopers : g[1] = h[1] /\ Holds(g) /\ Holds(h) => g = h
    /\ \A g \in Loopers : Holds(g) => ~DogHolds(g[1]) /\ g[1] \in workers
    /\ \A w \in workers : DogHolds(w) \/ \E g \in Loopers : g[1] = w /\ Holds(g)
    /\ \A w \in Workers : DogHolds(w) => w \in workers

\* What inlineRun says of it: a number only while its run holds the loop.
QuietInv ==
    /\ \A g \in Loopers : /\ lp[g].at \in Free \cup {"store"} => Quiet(g[1])
                          /\ lp[g].at = "spawn" => inlineRun[g[1]] = HandedOff
    /\ \A w \in Workers : /\ DogHolds(w) => inlineRun[w] = HandedOff
                          /\ w \notin workers => Quiet(w)

\* The run that holds the loop has no successor yet, is the one inlineRoute was set
\* for, and will give the loop away if its goroutine ends.
RunInv ==
    \A g \in Loopers : Holds(g) /\ lp[g].at \in Running =>
        /\ lp[<<g[1], lp[g].seq>>].at = "off"
        /\ inlineRoute[g[1]] = lp[g].route
        /\ lp[g].at \in {"store", "signal", "handler"} => lp[g].live

\* The same for the run the watchdog has taken the loop from.
DogInv ==
    /\ wd \in {"swap", "spawn"} => scan.seq # 0 /\ \A v, w \in scan.hand : v = w
    /\ \A w \in Workers : DogHolds(w) =>
          /\ scan.seq <= inlineSeq[w]
          /\ lp[<<w, scan.seq>>].at = "off"
          /\ \A g \in Loopers : g[1] = w /\ lp[g].seq = scan.seq => inlineRoute[w] = lp[g].route

OwnInv == RunsInv /\ HolderInv /\ QuietInv /\ RunInv /\ DogInv

--------------------------------------------------------------------------------
(* Types.                                                                       *)

\* A goroutine is a worker and the run it succeeds.
LEMMA LooperParts ==
  /\ \A g \in Loopers : g[1] \in Workers /\ g[2] \in 0..MaxRuns /\ g = <<g[1], g[2]>>
  /\ \A w \in Workers, s \in 0..MaxRuns :
        <<w, s>> \in Loopers /\ <<w, s>>[1] = w /\ <<w, s>>[2] = s
BY DEF Loopers

\* What a goroutine is.
Recs == [at : LoopSteps, seq : 0..MaxRuns, live : BOOLEAN, exiting : BOOLEAN,
         route : Routes \cup {NoRoute}]

\* The records the steps make are of that type.
LEMMA AsleepType ==
  Asleep \in Recs /\ [Asleep EXCEPT !.at = "top"] \in Recs /\ [Asleep EXCEPT !.at = "queue"] \in Recs
<1>1. Asleep \in Recs
  BY InlineAssumption DEF Asleep, Recs, LoopSteps
<1> QED
  BY <1>1, Zenon DEF Recs, LoopSteps

\* Init: types and numbers.
LEMMA InitTypes ==
  ASSUME Init
  PROVE  TypeInv
<1>1. lp \in [Loopers -> Recs]
  BY AsleepType, Zenon DEF Init
<1>2. /\ 0 \in 0..MaxRuns /\ 0 \in 0..HandedOff /\ 0 \in 0..IdleTicks
      /\ <<>> \in Seq(Routes) /\ Len(<<>>) = 0
  BY InlineAssumption DEF HandedOff
<1>3. NoScan \in [why : {"tick", "park", "woken"}, left : SUBSET Workers, busy : BOOLEAN,
                  hand : SUBSET Workers, seq : 0..MaxRuns]
  BY <1>2, Zenon DEF NoScan
<1>4. TypeOK
  BY <1>1, <1>2, <1>3, Zenon DEF Init, TypeOK, DogSteps, Recs
<1>5. \A w \in Workers : inlineQ[w] = <<>> /\ inlineSeq[w] = 0 /\ queued[w] = 0
  BY Zenon DEF Init
<1>6. ASSUME NEW w \in Workers PROVE inlineSeq[w] + Len(inlineQ[w]) <= queued[w]
  <2>1. inlineSeq[w] = 0 /\ Len(inlineQ[w]) = 0 /\ queued[w] = 0
    BY <1>2, <1>5, Zenon
  <2> QED
    BY <2>1
<1>7. QueueInv
  BY <1>6, Zenon DEF QueueInv
<1> QED
  BY <1>4, <1>7, Zenon DEF TypeInv

\* A goroutine that only moves keeps the types.
LEMMA MoveTypes ==
  ASSUME TypeInv, NEW g \in Loopers, NEW step \in LoopSteps, GoTo(g, step)
  PROVE  lp' \in [Loopers -> Recs]
BY ZenonT(120) DEF GoTo, TypeInv, TypeOK, Recs

\* What the other goroutines see of a step of g.
Others(g) == \A h \in Loopers : h # g => lp'[h] = lp[h]

\* It changes nothing else of the goroutine, and no other one.
LEMMA MoveEffect ==
  ASSUME TypeInv, NEW g \in Loopers, NEW step \in LoopSteps, GoTo(g, step)
  PROVE  /\ lp'[g].at = step /\ lp'[g].seq = lp[g].seq /\ lp'[g].route = lp[g].route
         /\ lp'[g].live = lp[g].live
         /\ Others(g)
BY ZenonT(60) DEF GoTo, TypeInv, TypeOK, Others

\* HandlerReturns: the goroutine, the others and the types.
LEMMA ReturnEffect ==
  ASSUME TypeInv, NEW g \in Loopers, HandlerReturns(g)
  PROVE  /\ lp[g].at = "handler" /\ lp'[g].at = "swap"
         /\ lp'[g].seq = lp[g].seq /\ lp'[g].route = lp[g].route
         /\ Others(g)
         /\ lp' \in [Loopers -> Recs]
<1> DEFINE mid == [lp EXCEPT ![g].at = "swap"]
<1>1. mid \in [Loopers -> Recs] /\ mid[g].at = "swap" /\ mid[g].seq = lp[g].seq
      /\ mid[g].route = lp[g].route /\ \A h \in Loopers : h # g => mid[h] = lp[h]
  BY ZenonT(240) DEF TypeInv, TypeOK, Recs, LoopSteps
<1>2. lp' = [mid EXCEPT ![g].live = FALSE] /\ lp[g].at = "handler"
  BY Zenon DEF HandlerReturns, At
<1> HIDE DEF mid
<1> QED
  BY <1>1, <1>2, ZenonT(60) DEF Recs, Others

\* LeaveInline: the goroutine, the others and the types.
LEMMA LeaveEffect ==
  ASSUME TypeInv, NEW g \in Loopers, LeaveInline(g)
  PROVE  /\ lp[g].at = "handler"
         /\ lp'[g].at = IF inlineRun[g[1]] = lp[g].seq THEN "spawn" ELSE "handler"
         /\ lp'[g].seq = lp[g].seq /\ lp'[g].route = lp[g].route
         /\ Others(g)
         /\ lp' \in [Loopers -> Recs]
<1> DEFINE step == IF inlineRun[g[1]] = lp[g].seq THEN "spawn" ELSE "handler"
<1>1. step \in LoopSteps
  BY Zenon DEF LoopSteps
<1> DEFINE mid == [lp EXCEPT ![g].live = FALSE]
<1>2. mid \in [Loopers -> Recs] /\ mid[g].seq = lp[g].seq
      /\ mid[g].route = lp[g].route /\ \A h \in Loopers : h # g => mid[h] = lp[h]
  BY ZenonT(120) DEF TypeInv, TypeOK, Recs
<1>3. lp' = [mid EXCEPT ![g].at = step]
  BY Zenon DEF LeaveInline
<1> HIDE DEF step, mid
<1>5. lp'[g].at = step /\ lp'[g].seq = lp[g].seq /\ lp'[g].route = lp[g].route
      /\ Others(g) /\ lp' \in [Loopers -> Recs]
  BY <1>1, <1>2, <1>3 DEF Recs, Others
<1>6. lp[g].at = "handler"
  BY Zenon DEF LeaveInline, At
<1> QED
  BY <1>5, <1>6, Zenon DEF step

\* HandlerExits: the goroutine, the others and the types.
LEMMA ExitEffect ==
  ASSUME TypeInv, NEW g \in Loopers, HandlerExits(g)
  PROVE  /\ lp[g].at = "handler"
         /\ Others(g)
         /\ lp' \in [Loopers -> Recs]
         /\ lp[g].live /\ inlineRun[g[1]] = lp[g].seq =>
              lp'[g].at = "spawn" /\ lp'[g].seq = lp[g].seq /\ lp'[g].route = lp[g].route
         /\ ~(lp[g].live /\ inlineRun[g[1]] = lp[g].seq) => lp'[g] = Asleep /\ inlineRun' = inlineRun
<1> USE AsleepType
<1>1. lp[g].at = "handler" /\ lp[g] \in Recs
  BY Zenon DEF HandlerExits, At, TypeInv, TypeOK, Recs
<1> DEFINE r == [lp[g] EXCEPT !.at = "spawn", !.exiting = TRUE]
<1>2. r \in Recs /\ r.at = "spawn" /\ r.seq = lp[g].seq /\ r.route = lp[g].route
  BY <1>1, Zenon DEF Recs, LoopSteps
<1>3. CASE lp[g].live /\ inlineRun[g[1]] = lp[g].seq
  <2>1. lp' = [lp EXCEPT ![g] = r]
    BY <1>3, Zenon DEF HandlerExits
  <2> HIDE DEF r
  <2> QED
    BY <1>1, <1>2, <1>3, <2>1, ZenonT(60) DEF TypeInv, TypeOK, Recs, Others
<1>4. CASE ~(lp[g].live /\ inlineRun[g[1]] = lp[g].seq)
  <2>1. lp' = [lp EXCEPT ![g] = Asleep] /\ inlineRun' = inlineRun
    BY <1>4, Zenon DEF HandlerExits, HandOffSwap
  <2>2. lp' \in [Loopers -> Recs] /\ lp'[g] = Asleep /\ Others(g)
    BY <2>1, Zenon DEF TypeInv, TypeOK, Recs, Others
  <2> QED
    BY <1>1, <1>4, <2>1, <2>2, Zenon
<1> QED
  BY <1>3, <1>4, Zenon

\* SwapBack: the goroutine, the others and the types.
LEMMA SwapEffect ==
  ASSUME TypeInv, NEW g \in Loopers, SwapBack(g)
  PROVE  /\ lp[g].at = "swap"
         /\ lp'[g].seq = 0
         /\ lp'[g].at = IF inlineRun[g[1]] = lp[g].seq THEN "queue" ELSE "off"
         /\ Others(g)
         /\ lp' \in [Loopers -> Recs]
<1>1. [Asleep EXCEPT !.at = "queue"].at = "queue" /\ [Asleep EXCEPT !.at = "queue"].seq = 0
      /\ Asleep.at = "off" /\ Asleep.seq = 0
  BY Zenon DEF Asleep
<1>2. PICK r \in {Asleep, [Asleep EXCEPT !.at = "queue"]} :
        /\ lp' = [lp EXCEPT ![g] = r]
        /\ r = IF inlineRun[g[1]] = lp[g].seq THEN [Asleep EXCEPT !.at = "queue"] ELSE Asleep
  BY Zenon DEF SwapBack
<1>3. r \in Recs /\ r.seq = 0 /\ r.at = IF inlineRun[g[1]] = lp[g].seq THEN "queue" ELSE "off"
  BY <1>1, <1>2, AsleepType, Zenon
<1>4. lp'[g] = r /\ Others(g) /\ lp' \in [Loopers -> Recs]
  BY <1>2, <1>3, ZenonT(60) DEF TypeInv, TypeOK, Recs, Others
<1> QED
  BY <1>3, <1>4, Zenon DEF SwapBack, At

\* SpawnSelf: the goroutine, its successor, the others and the types.
LEMMA SpawnEffect ==
  ASSUME TypeInv, NEW g \in Loopers, SpawnSelf(g), lp[<<g[1], lp[g].seq>>].at = "off"
  PROVE  /\ lp[g].at = "spawn"
         /\ <<g[1], lp[g].seq>> \in Loopers /\ g # <<g[1], lp[g].seq>>
         /\ lp'[<<g[1], lp[g].seq>>].at = "top" /\ lp'[<<g[1], lp[g].seq>>].seq = 0
         /\ \/ lp'[g].at = "off" /\ lp'[g].seq = 0
            \/ lp'[g].at = "handler" /\ lp'[g].seq = lp[g].seq /\ lp'[g].route = lp[g].route
         /\ \A h \in Loopers : h # g /\ h # <<g[1], lp[g].seq>> => lp'[h] = lp[h]
         /\ lp' \in [Loopers -> Recs]
<1> DEFINE k == <<g[1], lp[g].seq>>
           up == [Asleep EXCEPT !.at = "top"]
           r == IF lp[g].exiting THEN Asleep ELSE [lp[g] EXCEPT !.at = "handler"]
<1>1. lp[g] \in Recs /\ lp[g].at = "spawn"
  BY Zenon DEF SpawnSelf, At, TypeInv, TypeOK, Recs
<1>2. k \in Loopers /\ k # g
  BY <1>1, LooperParts, Zenon DEF Recs
<1>3. r \in Recs /\ up \in Recs /\ up.at = "top" /\ up.seq = 0
  BY <1>1, AsleepType, ZenonT(60) DEF Recs, LoopSteps, Asleep
<1>4. \/ r.at = "off" /\ r.seq = 0
      \/ r.at = "handler" /\ r.seq = lp[g].seq /\ r.route = lp[g].route
  BY <1>1, Zenon DEF Recs, Asleep
<1> DEFINE mid == [lp EXCEPT ![k] = up]
<1>5. mid \in [Loopers -> Recs] /\ mid[k] = up /\ mid[g] = lp[g] /\ \A h \in Loopers : h # k => mid[h] = lp[h]
  <2> HIDE DEF k, up
  <2> QED
    BY <1>2, <1>3, ZenonT(60) DEF TypeInv, TypeOK, Recs
<1>6. lp' = [mid EXCEPT ![g] = r]
  BY Zenon DEF SpawnSelf
<1>7. lp' \in [Loopers -> Recs] /\ lp'[g] = r /\ \A h \in Loopers : h # g => lp'[h] = mid[h]
  <2> HIDE DEF mid, r
  <2> QED
    BY <1>3, <1>5, <1>6, Zenon
<1> HIDE DEF k, mid, r, up
<1>8. /\ lp'[k].at = "top" /\ lp'[k].seq = 0
      /\ \A h \in Loopers : h # g /\ h # k => lp'[h] = lp[h]
  BY <1>2, <1>3, <1>5, <1>7, ZenonT(60)
<1> QED
  BY <1>1, <1>2, <1>4, <1>7, <1>8, Zenon DEF k

\* Loop code: types and numbers.
LEMMA LoopTypes ==
  ASSUME TypeInv, NEW g \in Loopers,
         \/ Top(g) \/ WaitPolls(g) \/ WaitReady(g) \/ Served(g) \/ QueueDone(g) \/ NextRound(g)
         \/ StoreRun(g) \/ SignalDog(g) \/ CloseLoop(g)
  PROVE  TypeInv'
<1>1. \E step \in LoopSteps : GoTo(g, step)
  BY Zenon DEF Top, WaitPolls, WaitReady, Served, QueueDone, NextRound, StoreRun, SignalDog, CloseLoop, LoopSteps
<1>2. lp' \in [Loopers -> Recs]
  BY <1>1, MoveTypes, Zenon
<1>3. g[1] \in Workers /\ lp[g].seq \in 0..HandedOff
  BY LooperParts, InlineAssumption, SMTT(60) DEF TypeInv, TypeOK, HandedOff
<1>4. UNCHANGED <<inlineQ, queued, inlineSeq>>
  BY Zenon DEF Top, WaitPolls, WaitReady, Served, QueueDone, NextRound, StoreRun, SignalDog, CloseLoop, worker
<1>5. CASE StoreRun(g)
  BY <1>2, <1>3, <1>4, <1>5, ZenonT(60) DEF StoreRun, TypeInv, TypeOK, QueueInv, Recs, dog
<1>6. CASE Top(g)
  BY <1>2, <1>3, <1>4, <1>6, Zenon DEF Top, TypeInv, TypeOK, QueueInv, Recs, dog
<1>7. CASE SignalDog(g)
  <2>1. wake' \in BOOLEAN
    BY <1>7, Zenon DEF SignalDog, TypeInv, TypeOK
  <2> QED
    BY <1>2, <1>4, <1>7, <2>1, Zenon DEF SignalDog, TypeInv, TypeOK, QueueInv, Recs, worker, dog
<1>8. CASE CloseLoop(g)
  BY <1>2, <1>4, <1>8, Zenon DEF CloseLoop, TypeInv, TypeOK, QueueInv, Recs, worker, dog
<1>9. CASE WaitPolls(g) \/ WaitReady(g) \/ Served(g) \/ QueueDone(g) \/ NextRound(g)
  <2>1. UNCHANGED <<worker, workers, parked, wake, dog>>
    BY <1>9, Zenon DEF WaitPolls, WaitReady, Served, QueueDone, NextRound
  <2> QED
    BY <1>2, <2>1, Zenon DEF TypeInv, TypeOK, QueueInv, Recs, worker, dog
<1> QED
  BY <1>5, <1>6, <1>7, <1>8, <1>9, Zenon

\* Handlers and the end of a run: types and numbers.
LEMMA HandlerTypes ==
  ASSUME TypeInv, NEW g \in Loopers, lp' \in [Loopers -> Recs],
         \/ HandlerReturns(g) \/ LeaveInline(g) \/ HandlerExits(g) \/ SpawnSelf(g) \/ SwapBack(g)
  PROVE  TypeInv'
<1>1. UNCHANGED <<inlineQ, queued, inlineSeq, inlineSeen, inlineRoute, workers, parked, wake, dog>>
  BY Zenon DEF HandlerReturns, LeaveInline, HandlerExits, SpawnSelf, SwapBack, worker
<1>2. QueueInv'
  BY <1>1, Zenon DEF TypeInv, QueueInv
<1>3. g[1] \in Workers /\ 0 \in 0..HandedOff /\ HandedOff \in 0..HandedOff
  BY LooperParts, InlineAssumption DEF HandedOff
<1>4. inlineRun' \in [Workers -> 0..HandedOff]
  BY <1>3, ZenonT(60) DEF HandlerReturns, LeaveInline, HandlerExits, SpawnSelf, SwapBack, worker, HandOffSwap, TypeInv, TypeOK
<1>5. resumed' \in [Workers -> BOOLEAN]
  BY <1>3, Zenon DEF HandlerReturns, LeaveInline, HandlerExits, SpawnSelf, SwapBack, worker, TypeInv, TypeOK
<1>6. TypeOK'
  BY <1>1, <1>4, <1>5, Zenon DEF TypeInv, TypeOK, Recs, dog
<1> QED
  BY <1>2, <1>6, Zenon DEF TypeInv

\* The queue: a number is left for every handler that was queued.
LEMMA QueueTypes ==
  ASSUME TypeInv, NEW g \in Loopers,
         (\E r \in Routes : QueueInline(g, r)) \/ TakeInline(g) \/ SpillInline(g)
  PROVE  TypeInv'
<1> DEFINE w == g[1]
<1>1. w \in Workers /\ inlineQ[w] \in Seq(Routes) /\ inlineSeq[w] \in 0..MaxRuns
      /\ queued[w] \in 0..MaxRuns /\ inlineSeq[w] + Len(inlineQ[w]) <= queued[w]
  BY LooperParts DEF TypeInv, TypeOK, QueueInv
<1>2. CASE \E r \in Routes : QueueInline(g, r)
  <2> PICK r \in Routes : QueueInline(g, r)
    BY <1>2, Zenon
  <2>1. Append(inlineQ[w], r) \in Seq(Routes) /\ Len(Append(inlineQ[w], r)) = Len(inlineQ[w]) + 1
    BY <1>1
  <2>2. inlineQ' = [inlineQ EXCEPT ![w] = Append(inlineQ[w], r)] /\ queued' = [queued EXCEPT ![w] = queued[w] + 1]
        /\ queued[w] < MaxRuns
    BY Zenon DEF QueueInline
  <2>3. inlineQ' \in [Workers -> Seq(Routes)] /\ queued' \in [Workers -> 0..MaxRuns]
    <3>1. inlineQ \in [Workers -> Seq(Routes)] /\ queued \in [Workers -> 0..MaxRuns]
      BY Zenon DEF TypeInv, TypeOK
    <3>2. queued[w] + 1 \in 0..MaxRuns
      BY <1>1, <2>2, InlineAssumption, SMTT(30)
    <3> QED
      BY <1>1, <2>1, <2>2, <3>1, <3>2, Zenon
  <2>4. TypeOK'
    BY <2>3, Zenon DEF QueueInline, TypeInv, TypeOK, dog
  <2>5. inlineSeq' = inlineSeq /\ inlineQ'[w] = Append(inlineQ[w], r) /\ queued'[w] = queued[w] + 1
        /\ \A v \in Workers : v # w => inlineQ'[v] = inlineQ[v] /\ queued'[v] = queued[v]
    BY <1>1, <2>2, ZenonT(60) DEF QueueInline, TypeInv, TypeOK
  <2>6. Len(inlineQ[w]) \in Nat
    BY <1>1
  <2>7. inlineSeq'[w] + Len(inlineQ'[w]) <= queued'[w]
    BY <1>1, <2>1, <2>5, <2>6, SMTT(30)
  <2>8. QueueInv'
    BY <2>5, <2>7, Zenon DEF TypeInv, QueueInv
  <2> QED
    BY <2>4, <2>8, Zenon DEF TypeInv
<1>3. CASE TakeInline(g) \/ SpillInline(g)
  <2>1. inlineQ[w] # <<>> /\ inlineQ' = [inlineQ EXCEPT ![w] = Tail(inlineQ[w])] /\ queued' = queued
    BY <1>3, Zenon DEF TakeInline, SpillInline
  <2>2. Tail(inlineQ[w]) \in Seq(Routes) /\ Len(Tail(inlineQ[w])) = Len(inlineQ[w]) - 1
        /\ Len(inlineQ[w]) \in Nat \ {0} /\ Head(inlineQ[w]) \in Routes
    BY <1>1, <2>1
  <2>3. inlineQ' \in [Workers -> Seq(Routes)]
    BY <1>1, <2>1, <2>2, Zenon DEF TypeInv, TypeOK
  <2>4. inlineSeq[w] + 1 \in 0..MaxRuns
    BY <1>1, <2>2, InlineAssumption, SMTT(60)
  <2>7. inlineQ'[w] = Tail(inlineQ[w]) /\ \A v \in Workers : v # w => inlineQ'[v] = inlineQ[v]
    BY <1>1, <2>1, Zenon DEF TypeInv, TypeOK
  <2>5. CASE TakeInline(g)
    <3>1. inlineSeq' = [inlineSeq EXCEPT ![w] = inlineSeq[w] + 1]
      BY <2>5, Zenon DEF TakeInline
    <3>2. lp' \in [Loopers -> Recs]
      BY <2>2, <2>4, <2>5, Zenon DEF TakeInline, TypeInv, TypeOK, Recs, LoopSteps
    <3>3. TypeOK'
      BY <1>1, <2>2, <2>3, <2>4, <2>5, <3>2, Zenon DEF TakeInline, TypeInv, TypeOK, dog, Recs
    <3>4. inlineSeq'[w] = inlineSeq[w] + 1 /\ \A v \in Workers : v # w => inlineSeq'[v] = inlineSeq[v]
      BY <1>1, <3>1, Zenon DEF TypeInv, TypeOK
    <3>5. inlineSeq'[w] + Len(inlineQ'[w]) <= queued'[w]
      <4>1. (inlineSeq[w] + 1) + (Len(inlineQ[w]) - 1) <= queued[w]
        BY <1>1, <2>2, SMTT(30)
      <4>2. Len(inlineQ'[w]) = Len(inlineQ[w]) - 1 /\ queued'[w] = queued[w]
        BY <2>1, <2>2, <2>7, Zenon
      <4> HIDE DEF w
      <4> QED
        BY <3>4, <4>1, <4>2, Zenon
    <3>6. QueueInv'
      BY <2>1, <2>7, <3>4, <3>5, Zenon DEF TypeInv, QueueInv
    <3> QED
      BY <3>3, <3>6, Zenon DEF TypeInv
  <2>6. CASE SpillInline(g)
    <3>1. TypeOK'
      BY <2>3, <2>6, Zenon DEF SpillInline, TypeInv, TypeOK, dog
    <3>2. QueueInv'
      BY <1>1, <2>1, <2>2, <2>6, <2>7, SMTT(60) DEF SpillInline, TypeInv, QueueInv
    <3> QED
      BY <3>1, <3>2, Zenon DEF TypeInv
  <2> QED
    BY <1>3, <2>5, <2>6, Zenon
<1> QED
  BY <1>2, <1>3, Zenon

\* What a scan is.
Scans == [why : {"tick", "park", "woken"}, left : SUBSET Workers, busy : BOOLEAN,
          hand : SUBSET Workers, seq : 0..MaxRuns]

\* The scan it resets to.
LEMMA NoScanType ==
  NoScan \in Scans /\ NoScan.busy = FALSE
BY InlineAssumption DEF NoScan, Scans

\* scan: how the watchdog begins one, or ends for good.
LEMMA BeginEffect ==
  ASSUME TypeInv, NEW why \in {"tick", "park", "woken"}, BeginScan(why)
  PROVE  /\ scan' \in Scans /\ scan'.busy = FALSE
         /\ \/ wd' = "off" /\ parked' = FALSE
            \/ wd' = "scan" /\ parked' = parked /\ scan'.why = why /\ scan'.left = workers
<1>1. workers \in SUBSET Workers
  BY Zenon DEF TypeInv, TypeOK
<1> DEFINE s == [NoScan EXCEPT !.why = why, !.left = workers]
<1>2. s \in Scans /\ s.why = why /\ s.left = workers /\ s.busy = FALSE /\ NoScan \in Scans /\ NoScan.busy = FALSE
  BY <1>1, NoScanType, Zenon DEF Scans
<1>3. \/ wd' = "off" /\ scan' = NoScan /\ parked' = FALSE
      \/ wd' = "scan" /\ scan' = s /\ parked' = parked
  BY Zenon DEF BeginScan
<1> HIDE DEF s
<1> QED
  BY <1>2, <1>3, Zenon

\* scan: how the watchdog begins and ends one.
LEMMA ScanStepTypes ==
  ASSUME TypeInv,
         \/ Tick \/ EndTickScan \/ Park \/ ParkScan \/ EndParkScan
         \/ Woken \/ Unpark \/ WokenScan \/ EndWokenScan
  PROVE  TypeInv'
<1>1. UNCHANGED <<worker, lp, workers>>
  BY Zenon DEF Tick, EndTickScan, Park, ParkScan, EndParkScan, Woken, Unpark, WokenScan, EndWokenScan
<1>2. QueueInv'
  BY <1>1, Zenon DEF TypeInv, QueueInv, worker
<1>3. scan \in Scans /\ workers \in SUBSET Workers /\ parked \in BOOLEAN /\ wake \in BOOLEAN /\ wd \in DogSteps
      /\ idle \in 0..IdleTicks
  BY Zenon DEF TypeInv, TypeOK, Scans
<1>4. scan' \in Scans /\ wd' \in DogSteps /\ parked' \in BOOLEAN
  <2>1. CASE \E why \in {"tick", "park", "woken"} : BeginScan(why)
    BY <1>3, <2>1, BeginEffect, Zenon DEF DogSteps
  <2>2. CASE EndTickScan \/ Park \/ EndParkScan \/ Woken \/ Unpark \/ EndWokenScan
    BY <1>3, <2>2, NoScanType, Zenon DEF EndTickScan, Park, EndParkScan, Woken, Unpark, EndWokenScan, DogSteps
  <2> QED
    BY <2>1, <2>2, Zenon DEF Tick, ParkScan, WokenScan
<1>5. wake' \in BOOLEAN
  BY <1>3, Zenon DEF Tick, EndTickScan, Park, ParkScan, EndParkScan, Woken, Unpark, WokenScan, EndWokenScan
<1>6. idle' \in 0..IdleTicks
  BY <1>3, InlineAssumption
     DEF Tick, EndTickScan, Park, ParkScan, EndParkScan, Woken, Unpark, WokenScan, EndWokenScan
<1>7. TypeOK'
  BY <1>1, <1>4, <1>5, <1>6, Zenon DEF TypeInv, TypeOK, Scans, worker
<1> QED
  BY <1>2, <1>7, Zenon DEF TypeInv

\* checkInlineStall: what the read of inlineRun leads to.
LEMMA CheckEffect ==
  ASSUME TypeInv, NEW w \in Workers, CheckStall(w)
  PROVE  /\ wd = "scan" /\ w \in scan.left
         /\ inlineSeen' \in [Workers -> 0..MaxRuns]
         /\ scan' \in Scans /\ scan'.why = scan.why /\ scan'.left = scan.left \ {w}
         /\ \/ wd' = "scan" /\ Quiet(w) /\ scan'.busy = scan.busy
            \/ wd' = "scan" /\ ~Quiet(w) /\ scan'.busy = TRUE
            \/ /\ wd' = "swap" /\ ~Quiet(w) /\ scan'.busy = scan.busy
               /\ scan'.hand = {w} /\ scan'.seq = inlineRun[w] /\ inlineRun[w] \in 1..MaxRuns
<1> DEFINE rest == [scan EXCEPT !.left = scan.left \ {w}]
<1>1. scan \in Scans /\ inlineRun[w] \in 0..HandedOff /\ inlineSeen \in [Workers -> 0..MaxRuns]
  BY Zenon DEF TypeInv, TypeOK, Scans
<1>2. ~Quiet(w) => inlineRun[w] \in 1..MaxRuns
  BY <1>1, InlineAssumption DEF Quiet, HandedOff
<1>3. rest \in Scans /\ rest.why = scan.why /\ rest.left = scan.left \ {w} /\ rest.busy = scan.busy
  BY <1>1, Zenon DEF Scans
<1>4. wd = "scan" /\ w \in scan.left
  BY Zenon DEF CheckStall
<1>5. CASE Quiet(w)
  <2>1. inlineSeen' = [inlineSeen EXCEPT ![w] = 0] /\ scan' = rest /\ wd' = wd
    BY <1>5, Zenon DEF CheckStall, Quiet
  <2>2. inlineSeen' \in [Workers -> 0..MaxRuns]
    BY <1>1, <2>1, InlineAssumption
  <2> QED
    BY <1>3, <1>4, <1>5, <2>1, <2>2, Zenon
<1>6. CASE ~Quiet(w) /\ inlineRun[w] # inlineSeen[w]
  <2>1. /\ inlineSeen' = [inlineSeen EXCEPT ![w] = inlineRun[w]]
        /\ scan' = [rest EXCEPT !.busy = TRUE] /\ wd' = wd
    BY <1>6, Zenon DEF CheckStall, Quiet
  <2> HIDE DEF rest
  <2>2. inlineSeen' \in [Workers -> 0..MaxRuns]
    BY <1>1, <1>2, <1>6, <2>1
  <2>3. scan' \in Scans /\ scan'.busy = TRUE /\ scan'.why = rest.why /\ scan'.left = rest.left
    BY <1>3, <2>1, Zenon DEF Scans
  <2> QED
    BY <1>3, <1>4, <1>6, <2>1, <2>2, <2>3, Zenon
<1>7. CASE ~Quiet(w) /\ inlineRun[w] = inlineSeen[w]
  <2>1. /\ inlineSeen' = [inlineSeen EXCEPT ![w] = 0]
        /\ scan' = [rest EXCEPT !.hand = {w}, !.seq = inlineRun[w]] /\ wd' = "swap"
    BY <1>7, Zenon DEF CheckStall, Quiet
  <2> HIDE DEF rest
  <2>2. inlineSeen' \in [Workers -> 0..MaxRuns]
    BY <1>1, <2>1, InlineAssumption
  <2> DEFINE mid == [rest EXCEPT !.hand = {w}]
  <2>3. mid \in Scans /\ mid.hand = {w} /\ mid.why = rest.why /\ mid.left = rest.left /\ mid.busy = rest.busy
    BY <1>3, Zenon DEF Scans
  <2>4. scan' = [mid EXCEPT !.seq = inlineRun[w]]
    BY <2>1, Zenon
  <2> HIDE DEF mid
  <2>5. /\ scan' \in Scans /\ scan'.hand = {w} /\ scan'.why = rest.why /\ scan'.left = rest.left
        /\ scan'.busy = rest.busy /\ scan'.seq = inlineRun[w]
    BY <1>2, <1>7, <2>3, <2>4 DEF Scans
  <2> QED
    BY <1>2, <1>3, <1>4, <1>7, <2>1, <2>2, <2>5, Zenon
<1> QED
  BY <1>5, <1>6, <1>7, Zenon

\* checkInlineStall keeps the types.
LEMMA CheckTypes ==
  ASSUME TypeInv, NEW w \in Workers, CheckStall(w)
  PROVE  TypeInv'
<1>1. UNCHANGED <<inlineQ, queued, inlineSeq, inlineRun, inlineRoute, resumed, lp, workers, parked, wake, idle>>
  BY Zenon DEF CheckStall
<1>2. scan' \in Scans /\ inlineSeen' \in [Workers -> 0..MaxRuns] /\ wd' \in DogSteps
  BY CheckEffect, Zenon DEF DogSteps
<1> QED
  BY <1>1, <1>2, Zenon DEF TypeInv, TypeOK, QueueInv, Scans

\* The watchdog is done with a worker and goes on with its scan.
LEMMA ResumeScan ==
  ASSUME TypeInv, NEW s, s = [scan EXCEPT !.hand = {}, !.seq = 0]
  PROVE  s \in Scans /\ s.why = scan.why /\ s.left = scan.left /\ s.busy = scan.busy
<1> DEFINE mid == [scan EXCEPT !.hand = {}]
<1>1. mid \in Scans /\ mid.why = scan.why /\ mid.left = scan.left /\ mid.busy = scan.busy
  BY Zenon DEF TypeInv, TypeOK, Scans
<1>2. s = [mid EXCEPT !.seq = 0]
  BY Zenon
<1> HIDE DEF mid
<1> QED
  BY <1>1, <1>2, InlineAssumption DEF Scans

\* handOff by the watchdog: types and numbers.
LEMMA DogSwapTypes ==
  ASSUME TypeInv, NEW w \in Workers, DogSwap(w)
  PROVE  /\ TypeInv'
         /\ scan'.why = scan.why /\ scan'.left = scan.left /\ scan'.busy = scan.busy
<1>1. UNCHANGED <<inlineQ, queued, inlineSeq, inlineSeen, inlineRoute, resumed, lp, workers, parked, wake, idle>>
  BY Zenon DEF DogSwap
<1>2. scan \in Scans
  BY Zenon DEF TypeInv, TypeOK, Scans
<1>3. \/ scan' = scan /\ wd' = "spawn"
      \/ scan' = [scan EXCEPT !.hand = {}, !.seq = 0] /\ wd' = "scan"
  BY Zenon DEF DogSwap
<1>4. scan' \in Scans /\ scan'.why = scan.why /\ scan'.left = scan.left /\ scan'.busy = scan.busy
      /\ wd' \in DogSteps
  BY <1>2, <1>3, ResumeScan, Zenon DEF DogSteps
<1>5. inlineRun' \in [Workers -> 0..HandedOff]
  BY InlineAssumption, SMTT(60) DEF DogSwap, HandOffSwap, TypeInv, TypeOK, HandedOff
<1> QED
  BY <1>1, <1>4, <1>5, Zenon DEF TypeInv, TypeOK, QueueInv, Scans

\* The successor the watchdog starts: the goroutine, the others and the types.
LEMMA DogSpawnEffect ==
  ASSUME TypeInv, NEW w \in Workers, DogSpawn(w)
  PROVE  /\ TypeInv'
         /\ <<w, scan.seq>> \in Loopers
         /\ lp'[<<w, scan.seq>>].at = "top" /\ lp'[<<w, scan.seq>>].seq = 0
         /\ \A h \in Loopers : h # <<w, scan.seq>> => lp'[h] = lp[h]
         /\ scan'.why = scan.why /\ scan'.left = scan.left /\ scan'.busy = scan.busy
<1> DEFINE k == <<w, scan.seq>>
           up == [Asleep EXCEPT !.at = "top"]
<1>1. UNCHANGED <<inlineQ, queued, inlineSeq, inlineRun, inlineSeen, inlineRoute, workers, parked, wake, idle>>
  BY Zenon DEF DogSpawn
<1>2. scan \in Scans /\ k \in Loopers
  BY LooperParts, Zenon DEF TypeInv, TypeOK, Scans
<1>3. scan' = [scan EXCEPT !.hand = {}, !.seq = 0] /\ wd' = "scan" /\ lp' = [lp EXCEPT ![k] = up]
      /\ resumed' = [resumed EXCEPT ![w] = TRUE]
  BY Zenon DEF DogSpawn
<1>4. scan' \in Scans /\ scan'.why = scan.why /\ scan'.left = scan.left /\ scan'.busy = scan.busy
      /\ wd' \in DogSteps
  BY <1>2, <1>3, ResumeScan, Zenon DEF DogSteps
<1>5. up \in Recs /\ up.at = "top" /\ up.seq = 0
  BY AsleepType, Zenon DEF Asleep
<1> HIDE DEF k, up
<1>6. lp' \in [Loopers -> Recs] /\ lp'[k] = up /\ \A h \in Loopers : h # k => lp'[h] = lp[h]
  BY <1>2, <1>3, <1>5, Zenon DEF TypeInv, TypeOK, Recs
<1>7. resumed' \in [Workers -> BOOLEAN]
  BY <1>3, Zenon DEF TypeInv, TypeOK
<1>8. TypeInv'
  BY <1>1, <1>4, <1>6, <1>7, Zenon DEF TypeInv, TypeOK, QueueInv, Scans, Recs
<1> QED
  BY <1>2, <1>4, <1>5, <1>6, <1>8, Zenon DEF k

--------------------------------------------------------------------------------
(* The owner of a loop.                                                         *)

\* Facts about the steps of a goroutine that the lemmas below share.
LEMMA StepKinds ==
  ASSUME NEW g
  PROVE  /\ lp[g].at \in Free => ~(lp[g].at \in Running) /\ lp[g].at # "off"
         /\ Owns(g) <=> \/ lp[g].at \in Free \cup {"store"}
                        \/ lp[g].at \in InRun /\ inlineRun[g[1]] = lp[g].seq
         /\ lp[g].at \in Running <=> lp[g].at \in InRun \cup {"store", "spawn"}
         /\ Holds(g) => lp[g].at # "off"
BY Zenon DEF Free, InRun, Running, Owns, Holds

\* Init: the goroutines the server started own the loops.
LEMMA InitOwn ==
  ASSUME Init
  PROVE  OwnInv
<1>1. \A g \in Loopers : /\ lp[g].seq = 0 /\ g[2] \in Nat
                         /\ lp[g].at = IF g[2] = 0 THEN "top" ELSE "off"
  BY LooperParts DEF Init, Asleep
<1>2. \A w \in Workers : inlineRun[w] = 0 /\ inlineSeq[w] = 0 /\ <<w, 0>> \in Loopers
                         /\ <<w, 0>>[1] = w /\ <<w, 0>>[2] = 0
  <2>1. 0 \in 0..MaxRuns
    BY InlineAssumption
  <2> QED
    BY <2>1, LooperParts, Zenon DEF Init
<1>3. \A w \in Workers : Quiet(w) /\ ~DogHolds(w)
  BY <1>2, Zenon DEF Quiet, DogHolds, Init
<1>4. workers = Workers /\ wd = "tick"
  BY Zenon DEF Init
<1>5. \A g \in Loopers : /\ Holds(g) <=> g[2] = 0
                         /\ lp[g].at \notin Running
  BY <1>1, Zenon DEF Holds, Owns, Running, InRun
<1>6. RunsInv
  BY <1>1, <1>2, <1>3, <1>5, LooperParts, SMTT(30) DEF RunsInv
<1>7. HolderInv
  <2>1. \A g, h \in Loopers : g[1] = h[1] /\ g[2] = h[2] => g = h
    BY LooperParts, Zenon
  <2>2. \A w \in Workers : \E g \in Loopers : g[1] = w /\ Holds(g)
    <3> SUFFICES ASSUME NEW w \in Workers PROVE \E g \in Loopers : g[1] = w /\ Holds(g)
      BY Zenon
    <3>1. <<w, 0>> \in Loopers /\ <<w, 0>>[1] = w /\ Holds(<<w, 0>>)
      BY <1>2, <1>5, Zenon
    <3> QED
      BY <3>1, Zenon
  <2> QED
    BY <1>3, <1>4, <1>5, <2>1, <2>2, LooperParts, SMTT(30) DEF HolderInv
<1>8. QuietInv
  BY <1>1, <1>3, <1>4, LooperParts, Zenon DEF QuietInv
<1>9. RunInv
  BY <1>5, Zenon DEF RunInv
<1>10. DogInv
  BY <1>3, <1>4, Zenon DEF DogInv
<1> QED
  BY <1>6, <1>7, <1>8, <1>9, <1>10, Zenon DEF OwnInv

\* A goroutine that stays in the loop's code, or in its run, changes nothing.
Alike(g) ==
    /\ lp'[g].seq = lp[g].seq /\ lp'[g].route = lp[g].route
    /\ (lp'[g].at \in Free) <=> (lp[g].at \in Free)
    /\ (lp'[g].at \in InRun) <=> (lp[g].at \in InRun)
    /\ (lp'[g].at = "store") <=> (lp[g].at = "store")
    /\ (lp'[g].at = "spawn") <=> (lp[g].at = "spawn")
    /\ (lp'[g].at = "off") <=> (lp[g].at = "off")
    /\ lp'[g].at \in {"store", "signal", "handler"} =>
          lp[g].at \in {"store", "signal", "handler"} /\ lp'[g].live = lp[g].live

\* No step of that kind changes who holds a loop.
LEMMA AlikeOwn ==
  ASSUME TypeInv, OwnInv, \A g \in Loopers : Alike(g),
         UNCHANGED <<inlineSeq, inlineRun, inlineRoute, workers, wd, scan>>
  PROVE  OwnInv'
<1>1. \A w : (Quiet(w)' <=> Quiet(w)) /\ (DogHolds(w)' <=> DogHolds(w))
  BY ZenonT(60) DEF Quiet, DogHolds
<1>2. \A g \in Loopers : /\ lp'[g].at \in Running <=> lp[g].at \in Running
                         /\ Holds(g)' <=> Holds(g)
  BY StepKinds, SMTT(60) DEF Alike, Running, Holds, Owns, Free, InRun
<1>3. RunsInv'
  BY <1>1, <1>2, SMTT(60) DEF OwnInv, RunsInv, Alike
<1>4. HolderInv'
  BY <1>1, <1>2, Zenon DEF OwnInv, HolderInv
<1>5. QuietInv'
  BY <1>1, ZenonT(60) DEF OwnInv, QuietInv, Alike
<1>6. RunInv'
  <2>1. SUFFICES ASSUME NEW g \in Loopers, Holds(g)', lp'[g].at \in Running
                 PROVE  /\ lp'[<<g[1], lp'[g].seq>>].at = "off"
                        /\ inlineRoute'[g[1]] = lp'[g].route
                        /\ lp'[g].at \in {"store", "signal", "handler"} => lp'[g].live
    BY Zenon DEF RunInv
  <2>2. <<g[1], lp[g].seq>> \in Loopers
    BY LooperParts, SMTT(30) DEF TypeInv, TypeOK
  <2>3. /\ lp[<<g[1], lp[g].seq>>].at = "off" /\ inlineRoute[g[1]] = lp[g].route
        /\ lp[g].at \in {"store", "signal", "handler"} => lp[g].live
    BY <1>2, <2>1, Zenon DEF OwnInv, RunInv
  <2> QED
    BY <2>2, <2>3 DEF Alike
<1>7. DogInv'
  <2>1. \A w \in Workers : <<w, scan.seq>> \in Loopers
    BY LooperParts, Zenon DEF TypeInv, TypeOK
  <2> QED
    BY <1>1, <2>1 DEF OwnInv, DogInv, Alike
<1> QED
  BY <1>3, <1>4, <1>5, <1>6, <1>7, Zenon DEF OwnInv

\* loop, waitEvents, runInlineQueue: the loop's own code keeps the owner.
LEMMA FreeOwn ==
  ASSUME TypeInv, OwnInv, NEW g \in Loopers,
         \/ Top(g) \/ WaitPolls(g) \/ WaitReady(g) \/ Served(g) \/ QueueDone(g) \/ NextRound(g)
  PROVE  OwnInv'
<1>1. /\ lp[g].at \in Free
      /\ \E step \in Free : GoTo(g, step)
      /\ UNCHANGED <<inlineSeq, inlineRun, inlineRoute, workers, wd, scan>>
  BY Zenon DEF Top, WaitPolls, WaitReady, Served, QueueDone, NextRound, At, Free, worker, dog
<1>2. PICK step \in Free : GoTo(g, step)
  BY <1>1, Zenon
<1>3. /\ lp'[g].at \in Free /\ lp'[g].seq = lp[g].seq /\ lp'[g].route = lp[g].route
      /\ Others(g)
  BY <1>2, MoveEffect, Zenon DEF Free, LoopSteps
<1>4. Alike(g)
  BY <1>1, <1>3, ZenonT(60) DEF Alike, Free, InRun
<1>5. \A h \in Loopers : Alike(h)
  BY <1>3, <1>4 DEF Others, Alike
<1> QED
  BY <1>1, <1>5, AlikeOwn, Zenon

\* A run that is under way keeps the loop, or has lost it already.
LEMMA RunOwn ==
  ASSUME TypeInv, OwnInv, NEW g \in Loopers, SignalDog(g) \/ HandlerReturns(g)
  PROVE  OwnInv'
<1>1. UNCHANGED <<inlineSeq, inlineRun, inlineRoute, workers, wd, scan>>
  BY ZenonT(60) DEF SignalDog, HandlerReturns, worker, dog
<1>2. CASE SignalDog(g)
  <2>1. lp[g].at = "signal" /\ GoTo(g, "handler")
    BY <1>2, Zenon DEF SignalDog, At
  <2>2. /\ lp'[g].at = "handler" /\ lp'[g].seq = lp[g].seq /\ lp'[g].route = lp[g].route
        /\ lp'[g].live = lp[g].live /\ Others(g)
    BY <2>1, MoveEffect, Zenon DEF LoopSteps
  <2>3. Alike(g)
    BY <2>1, <2>2, ZenonT(60) DEF Alike, Free, InRun
  <2> QED
    BY <1>1, <2>2, <2>3, AlikeOwn, SMTT(60) DEF Others, Alike
<1>3. CASE HandlerReturns(g)
  <2>1. Alike(g) /\ Others(g)
    BY <1>3, ReturnEffect, Zenon DEF Alike, Free, InRun
  <2> QED
    BY <1>1, <2>1, AlikeOwn DEF Others, Alike
<1> QED
  BY <1>2, <1>3, Zenon

\* queueH1Inline, spillInline: the queue says nothing of who owns the loop.
LEMMA QueueOwn ==
  ASSUME TypeInv, OwnInv, NEW g \in Loopers,
         (\E r \in Routes : QueueInline(g, r)) \/ SpillInline(g)
  PROVE  OwnInv'
<1>1. UNCHANGED <<lp, inlineSeq, inlineRun, inlineRoute, workers, wd, scan>>
  BY Zenon DEF QueueInline, SpillInline, dog
<1> QED
  BY <1>1, AlikeOwn, Zenon DEF Alike

\* runInlineQueue takes a handler: the run's number is new, so no goroutine has it and
\* no successor of it runs.
LEMMA TakeOwn ==
  ASSUME TypeInv, OwnInv, NEW g \in Loopers, TakeInline(g)
  PROVE  OwnInv'
<1> DEFINE w == g[1]
           n == inlineSeq[w] + 1
           r == Head(inlineQ[w])
<1>1. /\ w \in Workers /\ inlineSeq[w] \in 0..MaxRuns /\ inlineSeq \in [Workers -> 0..MaxRuns]
      /\ inlineRoute \in [Workers -> Routes \cup {NoRoute}]
      /\ inlineQ[w] \in Seq(Routes) /\ inlineSeq[w] + Len(inlineQ[w]) <= queued[w] /\ queued[w] \in 0..MaxRuns
      /\ lp \in [Loopers -> Recs]
  BY LooperParts, SMTT(60) DEF TypeInv, TypeOK, QueueInv, Recs
<1>2. lp[g].at = "queue" /\ inlineQ[w] # <<>>
  BY Zenon DEF TakeInline, At
<1>3. Len(inlineQ[w]) \in Nat \ {0}
  BY <1>1, <1>2
<1>4. n \in 1..MaxRuns
  BY <1>1, <1>3, InlineAssumption, SMTT(60)
<1>5. /\ lp'[g].at = "store" /\ lp'[g].seq = n /\ lp'[g].live /\ lp'[g].route = r
      /\ Others(g)
  BY <1>1, Zenon DEF TakeInline, Others
<1>6. /\ inlineSeq'[w] = n /\ inlineRoute'[w] = r
      /\ \A v \in Workers : v # w => inlineSeq'[v] = inlineSeq[v] /\ inlineRoute'[v] = inlineRoute[v]
  BY <1>1, Zenon DEF TakeInline
<1>7. UNCHANGED <<inlineRun, workers, wd, scan>>
  BY Zenon DEF TakeInline, dog
<1> HIDE DEF w, n, r
<1>8. \A v : (Quiet(v)' <=> Quiet(v)) /\ (DogHolds(v)' <=> DogHolds(v))
  BY <1>7, Zenon DEF Quiet, DogHolds
<1>9. Holds(g) /\ Holds(g)' /\ \A h \in Loopers : Holds(h)' <=> Holds(h)
  BY <1>2, <1>5, <1>7, SMTT(30) DEF Holds, Owns, Others
<1>10. Quiet(w) /\ lp[g].at \notin Running /\ lp'[g].at \in Running /\ ~DogHolds(w)
  BY <1>2, <1>5, <1>9, ZenonT(60) DEF OwnInv, QuietInv, HolderInv, Free, Running, InRun, w
<1>11. \A h \in Loopers : h[1] = w => lp[h].seq \in 0..inlineSeq[w]
  BY <1>1, LooperParts, SMTT(60) DEF OwnInv, RunsInv
<1>12. RunsInv'
  <2>1. ASSUME NEW h \in Loopers
        PROVE  /\ lp'[h].at \in Running => lp'[h].seq \in 1..inlineSeq'[h[1]]
               /\ lp'[h].at \notin Running => lp'[h].seq = 0
               /\ h[2] > inlineSeq'[h[1]] => lp'[h].at = "off"
    <3>1. h[1] \in Workers /\ h[2] \in 0..MaxRuns /\ inlineSeq[h[1]] \in 0..MaxRuns
      BY <1>1, LooperParts, ZenonT(60)
    <3>2. CASE h = g
      <4>1. g[2] <= inlineSeq[w]
        BY <1>1, <1>2, <3>1, <3>2, SMTT(60) DEF OwnInv, RunsInv, w
      <4> QED
        BY <1>1, <1>4, <1>5, <1>6, <1>10, <3>1, <3>2, <4>1, SMTT(60) DEF w, n
    <3>3. CASE h # g
      <4>1. lp'[h] = lp[h] /\ inlineSeq'[h[1]] \in {inlineSeq[h[1]], inlineSeq[h[1]] + 1}
        BY <1>5, <1>6, <3>1, <3>3, SMTT(30) DEF Others, n
      <4>2. /\ lp[h].at \in Running => lp[h].seq \in 1..inlineSeq[h[1]]
            /\ lp[h].at \notin Running => lp[h].seq = 0
            /\ h[2] > inlineSeq[h[1]] => lp[h].at = "off"
        BY Zenon DEF OwnInv, RunsInv
      <4> QED
        BY <3>1, <4>1, <4>2
    <3> QED
      BY <3>2, <3>3, Zenon
  <2>2. ASSUME NEW h \in Loopers, NEW i \in Loopers, h[1] = i[1], lp'[h].at \in Running,
               lp'[h].seq = lp'[i].seq
        PROVE  h = i
    <3>1. \A j \in Loopers : j # g /\ j[1] = w => lp'[j].seq # n
      BY <1>1, <1>5, <1>11, SMTT(30) DEF Others, n
    <3>2. CASE h = g \/ i = g
      BY <1>5, <2>2, <3>1, <3>2, ZenonT(60) DEF w
    <3>3. CASE h # g /\ i # g
      BY <1>5, <2>2, <3>3, SMTT(30) DEF Others, OwnInv, RunsInv
    <3> QED
      BY <3>2, <3>3, Zenon
  <2>3. \A v \in Workers : Quiet(v)' \/ inlineRun'[v] <= inlineSeq'[v]
    <3>1. \A v \in Workers : v # w => Quiet(v) \/ inlineRun[v] <= inlineSeq'[v]
      BY <1>6, Zenon DEF OwnInv, RunsInv
    <3> QED
      BY <1>7, <1>8, <1>10, <3>1, Zenon
  <2> QED
    BY <2>1, <2>2, <2>3, Zenon DEF RunsInv
<1>13. HolderInv'
  BY <1>7, <1>8, <1>9, SMTT(30) DEF OwnInv, HolderInv
<1>14. QuietInv'
  <2>1. \A h \in Loopers : /\ lp'[h].at \in Free \cup {"store"} => Quiet(h[1])
                           /\ lp'[h].at = "spawn" => inlineRun[h[1]] = HandedOff
    BY <1>5, <1>10 DEF OwnInv, QuietInv, Others, w
  <2> QED
    BY <1>7, <1>8, <2>1, ZenonT(60) DEF OwnInv, QuietInv
<1>15. RunInv'
  <2>1. SUFFICES ASSUME NEW h \in Loopers, Holds(h)', lp'[h].at \in Running
                 PROVE  /\ lp'[<<h[1], lp'[h].seq>>].at = "off"
                        /\ inlineRoute'[h[1]] = lp'[h].route
                        /\ lp'[h].at \in {"store", "signal", "handler"} => lp'[h].live
    BY ZenonT(60) DEF RunInv
  <2>2. CASE h = g
    <3>1. <<w, n>> \in Loopers /\ <<w, n>>[1] = w /\ <<w, n>>[2] = n
      BY <1>1, <1>4, LooperParts, SMTT(30)
    <3>2. lp[<<w, n>>].at = "off"
      BY <1>1, <3>1 DEF OwnInv, RunsInv, n
    <3>3. lp'[<<w, n>>].at = "off"
      BY <1>2, <1>5, <3>1, <3>2, ZenonT(60) DEF Others
    <3> QED
      BY <1>5, <1>6, <2>2, <3>3, SMTT(30) DEF w
  <2>3. CASE h # g
    <3>1. Holds(h) /\ lp'[h] = lp[h] /\ h[1] # w /\ h[1] \in Workers /\ lp[h].seq \in 0..MaxRuns
      BY <1>1, <1>5, <1>9, <2>1, <2>3, LooperParts, SMTT(30) DEF OwnInv, HolderInv, Others, w, Recs
    <3>2. /\ lp[<<h[1], lp[h].seq>>].at = "off" /\ inlineRoute[h[1]] = lp[h].route
          /\ lp[h].at \in {"store", "signal", "handler"} => lp[h].live
      BY <2>1, <3>1, SMTT(30) DEF OwnInv, RunInv
    <3>3. <<h[1], lp[h].seq>> \in Loopers /\ <<h[1], lp[h].seq>> # g
      BY <1>2, <3>1, <3>2, LooperParts, SMTT(60)
    <3> QED
      BY <1>5, <1>6, <3>1, <3>2, <3>3, SMTT(30) DEF Others
  <2> QED
    BY <2>2, <2>3, Zenon
<1>16. DogInv'
  <2>1. wd' \in {"swap", "spawn"} => scan'.seq # 0 /\ \A v, u \in scan'.hand : v = u
    BY <1>7, Zenon DEF OwnInv, DogInv
  <2>2. ASSUME NEW v \in Workers, DogHolds(v)
        PROVE  /\ scan.seq <= inlineSeq'[v] /\ lp'[<<v, scan.seq>>].at = "off"
               /\ \A h \in Loopers : h[1] = v /\ lp'[h].seq = scan.seq => inlineRoute'[v] = lp'[h].route
    <3>1. v # w /\ <<v, scan.seq>> \in Loopers /\ <<v, scan.seq>>[1] = v
      BY <1>10, <2>2, LooperParts, SMTT(60) DEF TypeInv, TypeOK
    <3>2. /\ scan.seq <= inlineSeq[v] /\ lp[<<v, scan.seq>>].at = "off"
          /\ \A h \in Loopers : h[1] = v /\ lp[h].seq = scan.seq => inlineRoute[v] = lp[h].route
      BY <2>2, ZenonT(60) DEF OwnInv, DogInv
    <3> QED
      BY <1>5, <1>6, <3>1, <3>2, SMTT(30) DEF Others, w
  <2> QED
    BY <1>7, <1>8, <2>1, <2>2, SMTT(30) DEF DogInv
<1> QED
  BY <1>12, <1>13, <1>14, <1>15, <1>16, ZenonT(60) DEF OwnInv

\* inlineRun.Store: the run that owned the loop is now the one inlineRun names.
LEMMA StoreOwn ==
  ASSUME TypeInv, OwnInv, NEW g \in Loopers, StoreRun(g)
  PROVE  OwnInv'
<1> DEFINE w == g[1]
<1>1. w \in Workers /\ lp[g].at = "store" /\ inlineRun \in [Workers -> 0..HandedOff] /\ lp[g].seq \in 0..MaxRuns
  BY LooperParts, SMTT(60) DEF StoreRun, At, TypeInv, TypeOK
<1>2. /\ lp'[g].at = "signal" /\ lp'[g].seq = lp[g].seq /\ lp'[g].route = lp[g].route
      /\ lp'[g].live = lp[g].live /\ Others(g)
  BY MoveEffect, Zenon DEF StoreRun, LoopSteps
<1>3. inlineRun'[w] = lp[g].seq /\ \A v \in Workers : v # w => inlineRun'[v] = inlineRun[v]
  BY <1>1, Zenon DEF StoreRun
<1>4. UNCHANGED <<inlineSeq, inlineRoute, workers, wd, scan>>
  BY Zenon DEF StoreRun, dog
<1>5. Holds(g) /\ lp[g].at \in Running /\ lp'[g].at \in Running
  BY <1>1, <1>2, Zenon DEF Holds, Owns, Running, InRun
<1>6. w \in workers /\ ~DogHolds(w) /\ \A h \in Loopers : h[1] = w /\ Holds(h) => h = g
  BY <1>5, Zenon DEF OwnInv, HolderInv, w
<1> HIDE DEF w
<1>7. \A v : DogHolds(v)' <=> DogHolds(v)
  BY <1>4 DEF DogHolds
<1>8. \A v \in Workers : v # w => (Quiet(v)' <=> Quiet(v))
  BY <1>3, Zenon DEF Quiet
<1>9. \A h \in Loopers : lp'[h].seq = lp[h].seq /\ lp'[h].route = lp[h].route
                         /\ (lp'[h].at \in Running <=> lp[h].at \in Running)
                         /\ (lp'[h].at = "off" <=> lp[h].at = "off")
  BY <1>1, <1>2, <1>5, ZenonT(60) DEF Others
<1>10. \A h \in Loopers : Holds(h)' <=> Holds(h)
  <2>1. Holds(g)'
    BY <1>2, <1>3, ZenonT(60) DEF Holds, Owns, w
  <2>2. ASSUME NEW h \in Loopers, h # g, h[1] # w PROVE Holds(h)' <=> Holds(h)
    BY <1>2, <1>3, <2>2, LooperParts, SMTT(30) DEF Others, Holds, Owns
  <2>3. ASSUME NEW h \in Loopers, h # g, h[1] = w PROVE ~Holds(h)' /\ ~Holds(h)
    <3>1. ~Holds(h)
      BY <1>6, <2>3, ZenonT(60)
    <3>2. lp[h].at \in Running => lp[h].seq # lp[g].seq
      BY <1>5, <2>3 DEF OwnInv, RunsInv, w
    <3>3. lp[h].at \in {"signal", "handler", "swap"} => inlineRun'[w] # lp[h].seq
      BY <1>3, <3>2, ZenonT(60) DEF Running, InRun
    <3> QED
      BY <1>2, <2>3, <3>1, <3>3 DEF Others, Holds, Owns
  <2> QED
    BY <1>5, <2>1, <2>2, <2>3, SMTT(30)
<1>11. RunsInv'
  <2>1. lp[g].seq <= inlineSeq[w]
    BY <1>5, SMTT(30) DEF OwnInv, RunsInv, w
  <2>2. \A v \in Workers : Quiet(v)' \/ inlineRun'[v] <= inlineSeq'[v]
    BY <1>3, <1>4, <1>8, <2>1, SMTT(30) DEF OwnInv, RunsInv
  <2> QED
    BY <1>4, <1>9, <2>2, SMTT(60) DEF OwnInv, RunsInv
<1>12. HolderInv'
  BY <1>4, <1>7, <1>10, ZenonT(60) DEF OwnInv, HolderInv
<1>13. QuietInv'
  <2>1. ASSUME NEW h \in Loopers
        PROVE  /\ lp'[h].at \in Free \cup {"store"} => Quiet(h[1])'
               /\ lp'[h].at = "spawn" => inlineRun'[h[1]] = HandedOff
    <3>1. lp'[h].at \in Free \cup {"store", "spawn"} => h[1] # w /\ h[1] \in Workers /\ lp'[h] = lp[h]
      BY <1>2, <1>6, LooperParts, SMTT(30) DEF Free, Holds, Owns, Others
    <3> QED
      BY <1>3, <1>8, <3>1, SMTT(30) DEF OwnInv, QuietInv
  <2>2. \A v \in Workers : DogHolds(v) => v # w
    BY <1>6, Zenon
  <2> QED
    BY <1>3, <1>4, <1>6, <1>7, <1>8, <2>1, <2>2, SMTT(60) DEF OwnInv, QuietInv
<1>14. RunInv'
  <2>1. SUFFICES ASSUME NEW h \in Loopers, Holds(h)', lp'[h].at \in Running
                 PROVE  /\ lp'[<<h[1], lp'[h].seq>>].at = "off"
                        /\ inlineRoute'[h[1]] = lp'[h].route
                        /\ lp'[h].at \in {"store", "signal", "handler"} => lp'[h].live
    BY Zenon DEF RunInv
  <2>2. /\ lp[<<h[1], lp[h].seq>>].at = "off" /\ inlineRoute[h[1]] = lp[h].route
        /\ lp[h].at \in {"store", "signal", "handler"} => lp[h].live
    BY <1>9, <1>10, <2>1 DEF OwnInv, RunInv
  <2>3. <<h[1], lp[h].seq>> \in Loopers
    BY LooperParts, ZenonT(60) DEF TypeInv, TypeOK
  <2>4. lp'[h].at \in {"store", "signal", "handler"} => lp'[h].live
    BY <1>1, <1>2, <2>2, Zenon DEF Others
  <2> QED
    BY <1>4, <1>9, <2>2, <2>3, <2>4, ZenonT(60)
<1>15. DogInv'
  <2>1. \A v \in Workers : <<v, scan.seq>> \in Loopers
    BY LooperParts, Zenon DEF TypeInv, TypeOK
  <2> QED
    BY <1>4, <1>7, <1>9, <2>1 DEF OwnInv, DogInv
<1> QED
  BY <1>11, <1>12, <1>13, <1>14, <1>15, Zenon DEF OwnInv

\* closeLoop: the owner leaves, and only goroutines that have lost the loop remain.
LEMMA CloseOwn ==
  ASSUME TypeInv, OwnInv, NEW g \in Loopers, CloseLoop(g)
  PROVE  OwnInv'
<1> DEFINE w == g[1]
<1>1. w \in Workers /\ lp[g].at = "top" /\ workers' = workers \ {w} /\ wd \notin {"scan", "swap", "spawn"}
  BY LooperParts, Zenon DEF CloseLoop, At, MuFree
<1>2. lp'[g].at = "off" /\ lp'[g].seq = lp[g].seq /\ Others(g)
  BY MoveEffect, Zenon DEF CloseLoop, LoopSteps
<1>3. UNCHANGED <<inlineSeq, inlineRun, inlineRoute, wd, scan>>
  BY ZenonT(60) DEF CloseLoop, worker, dog
<1>4. Holds(g) /\ lp[g].at \notin Running /\ lp'[g].at \notin Running /\ ~Holds(g)'
  BY <1>1, <1>2, SMTT(30) DEF Holds, Owns, Running, InRun
<1>5. \A h \in Loopers : h[1] = w /\ Holds(h) => h = g
  BY <1>4, Zenon DEF OwnInv, HolderInv
<1>6. Quiet(w)
  BY <1>1, Zenon DEF OwnInv, QuietInv, Free
<1> HIDE DEF w
<1>7. \A v : ~DogHolds(v)' /\ ~DogHolds(v) /\ (Quiet(v)' <=> Quiet(v))
  BY <1>1, <1>3, Zenon DEF DogHolds, Quiet
<1>8. \A h \in Loopers : h # g => (Holds(h)' <=> Holds(h)) /\ lp'[h] = lp[h]
  BY <1>2, <1>3, ZenonT(60) DEF Others, Holds, Owns
<1>9. RunsInv'
  <2>1. ASSUME NEW h \in Loopers
        PROVE  /\ lp'[h].seq = lp[h].seq /\ (lp'[h].at \in Running <=> lp[h].at \in Running)
               /\ lp[h].at = "off" => lp'[h].at = "off"
    BY <1>2, <1>4, <1>8, Zenon
  <2>2. ASSUME NEW h \in Loopers
        PROVE  /\ lp'[h].at \in Running => lp'[h].seq \in 1..inlineSeq[h[1]]
               /\ lp'[h].at \notin Running => lp'[h].seq = 0
               /\ h[2] > inlineSeq[h[1]] => lp'[h].at = "off"
    BY <2>1, Zenon DEF OwnInv, RunsInv
  <2>3. ASSUME NEW h \in Loopers, NEW i \in Loopers, h[1] = i[1], lp'[h].at \in Running, lp'[h].seq = lp'[i].seq
        PROVE  h = i
    <3>1. lp[h].at \in Running /\ lp[h].seq = lp[i].seq
      BY <2>1, <2>3, Zenon
    <3> QED
      BY <2>3, <3>1, Zenon DEF OwnInv, RunsInv
  <2>4. \A v \in Workers : Quiet(v)' \/ inlineRun[v] <= inlineSeq[v]
    BY <1>7, Zenon DEF OwnInv, RunsInv
  <2> QED
    BY <1>3, <2>2, <2>3, <2>4, Zenon DEF RunsInv
<1>10. HolderInv'
  <2>1. \A h, i \in Loopers : h[1] = i[1] /\ Holds(h)' /\ Holds(i)' => h = i
    BY <1>4, <1>8, ZenonT(60) DEF OwnInv, HolderInv
  <2>2. \A h \in Loopers : Holds(h)' => ~DogHolds(h[1])' /\ h[1] \in workers'
    BY <1>1, <1>4, <1>5, <1>7, <1>8, SMTT(30) DEF OwnInv, HolderInv
  <2>3. \A v \in workers' : \E h \in Loopers : h[1] = v /\ Holds(h)'
    <3> SUFFICES ASSUME NEW v \in workers, v # w PROVE \E h \in Loopers : h[1] = v /\ Holds(h)'
      BY <1>1, Zenon
    <3>1. PICK h \in Loopers : h[1] = v /\ Holds(h)
      BY <1>7, ZenonT(60) DEF OwnInv, HolderInv
    <3> QED
      BY <1>8, <3>1, Zenon DEF w
  <2> QED
    BY <1>7, <2>1, <2>2, <2>3, Zenon DEF HolderInv
<1>11. QuietInv'
  BY <1>1, <1>2, <1>3, <1>6, <1>7, <1>8, SMTT(60) DEF OwnInv, QuietInv, Free
<1>12. RunInv'
  <2>1. \A h \in Loopers : <<h[1], lp[h].seq>> \in Loopers
    BY LooperParts, SMTT(120) DEF TypeInv, TypeOK
  <2> QED
    BY <1>2, <1>3, <1>4, <1>8, <2>1, SMTT(30) DEF OwnInv, RunInv
<1>13. DogInv'
  BY <1>3, <1>7, Zenon DEF OwnInv, DogInv
<1> QED
  BY <1>9, <1>10, <1>11, <1>12, <1>13, Zenon DEF OwnInv

\* A goroutine that has lost the loop may go on with its handler or end.
LEMMA LostOwn ==
  ASSUME TypeInv, OwnInv, NEW g \in Loopers, lp[g].at \in InRun, ~Owns(g), Others(g),
         UNCHANGED <<inlineSeq, inlineRun, inlineRoute, workers, wd, scan>>,
         \/ lp'[g].at = "off" /\ lp'[g].seq = 0
         \/ lp'[g].at = "handler" /\ lp'[g].seq = lp[g].seq /\ lp'[g].route = lp[g].route
  PROVE  OwnInv'
<1>1. ~Holds(g) /\ ~Holds(g)' /\ lp[g].at \in Running /\ lp[g].at # "off"
  BY Zenon DEF Holds, Owns, InRun, Running
<1>2. \A v : (DogHolds(v)' <=> DogHolds(v)) /\ (Quiet(v)' <=> Quiet(v))
  BY Zenon DEF DogHolds, Quiet
<1>3. \A h \in Loopers : h # g => lp'[h] = lp[h]
  BY Zenon DEF Others
<1>4. \A h \in Loopers : Holds(h)' <=> Holds(h)
  <2>1. \A h \in Loopers : h # g => (Holds(h)' <=> Holds(h))
    BY <1>3, Zenon DEF Holds, Owns
  <2> QED
    BY <1>1, <2>1, SMTT(60)
<1>5. \/ lp'[g].at = "off" /\ lp'[g].seq = 0 /\ lp'[g].at \notin Running
      \/ lp'[g].at = "handler" /\ lp'[g].seq = lp[g].seq /\ lp'[g].route = lp[g].route /\ lp'[g].at \in Running
  BY Zenon DEF Running, InRun
<1>6. RunsInv'
  <2>1. \A h \in Loopers : /\ lp'[h].at \in Running => lp'[h].seq \in 1..inlineSeq[h[1]]
                           /\ lp'[h].at \notin Running => lp'[h].seq = 0
                           /\ h[2] > inlineSeq[h[1]] => lp'[h].at = "off"
    BY <1>1, <1>3, <1>5, ZenonT(60) DEF OwnInv, RunsInv
  <2>2. ASSUME NEW h \in Loopers, NEW i \in Loopers, h[1] = i[1], lp'[h].at \in Running, lp'[h].seq = lp'[i].seq
        PROVE  h = i
    <3>1. lp'[h].seq = lp[h].seq /\ lp[h].at \in Running /\ lp'[h].seq # 0
      BY <1>1, <1>3, <1>5, <2>1, <2>2
    <3>2. lp'[i].seq = lp[i].seq
      BY <1>3, <1>5, <2>2, <3>1, Zenon
    <3> QED
      BY <2>2, <3>1, <3>2, ZenonT(60) DEF OwnInv, RunsInv
  <2>3. inlineSeq' = inlineSeq /\ inlineRun' = inlineRun
    BY Zenon
  <2>4. \A v \in Workers : Quiet(v)' \/ inlineRun'[v] <= inlineSeq'[v]
    BY <1>2, <2>3, Zenon DEF OwnInv, RunsInv
  <2> QED
    BY <2>1, <2>2, <2>3, <2>4, Zenon DEF RunsInv
<1>7. HolderInv'
  BY <1>2, <1>4, ZenonT(60) DEF OwnInv, HolderInv
<1>8. QuietInv'
  BY <1>2, <1>3, <1>5, ZenonT(60) DEF OwnInv, QuietInv, Free
<1>9. \A h \in Loopers : lp[h].at = "off" => lp'[h].at = "off"
  BY <1>1, <1>3, Zenon
<1>10. RunInv'
  <2>1. \A h \in Loopers : <<h[1], lp[h].seq>> \in Loopers
    BY LooperParts, ZenonT(30) DEF TypeInv, TypeOK
  <2> QED
    BY <1>1, <1>3, <1>4, <1>9, <2>1, SMTT(30) DEF OwnInv, RunInv
<1>11. DogInv'
  <2>1. \A v \in Workers : <<v, scan.seq>> \in Loopers
    BY LooperParts, ZenonT(60) DEF TypeInv, TypeOK
  <2>2. ASSUME NEW v \in Workers, DogHolds(v)
        PROVE  /\ scan.seq <= inlineSeq[v] /\ lp'[<<v, scan.seq>>].at = "off" /\ scan.seq # 0
               /\ \A h \in Loopers : h[1] = v /\ lp'[h].seq = scan.seq => inlineRoute[v] = lp'[h].route
    <3>1. scan.seq # 0
      BY <2>2, Zenon DEF OwnInv, DogInv, DogHolds
    <3>2. \A h \in Loopers : lp'[h].seq = scan.seq => lp[h].seq = scan.seq /\ lp'[h].route = lp[h].route
      BY <1>3, <1>5, <3>1, Zenon
    <3> QED
      BY <1>9, <2>1, <2>2, <3>1, <3>2, SMTT(60) DEF OwnInv, DogInv
  <2> QED
    BY <1>2, <2>2, Zenon DEF OwnInv, DogInv
<1> QED
  BY <1>6, <1>7, <1>8, <1>10, <1>11 DEF OwnInv

\* handOff by the goroutine itself: between its swap and the start of the successor it
\* still holds the loop.
LEMMA GiveOwn ==
  ASSUME TypeInv, OwnInv, NEW g \in Loopers, lp[g].at = "handler", inlineRun[g[1]] = lp[g].seq,
         HandOffSwap(g[1], lp[g].seq), Others(g),
         lp'[g].at = "spawn", lp'[g].seq = lp[g].seq, lp'[g].route = lp[g].route,
         UNCHANGED <<inlineSeq, inlineRoute, workers, wd, scan>>
  PROVE  OwnInv'
<1> DEFINE w == g[1]
<1>1. w \in Workers /\ inlineRun \in [Workers -> 0..HandedOff]
  BY LooperParts, Zenon DEF TypeInv, TypeOK
<1>2. inlineRun'[w] = HandedOff /\ \A v \in Workers : v # w => inlineRun'[v] = inlineRun[v]
  BY <1>1, Zenon DEF HandOffSwap
<1>3. Holds(g) /\ Holds(g)' /\ lp[g].at \in Running /\ lp'[g].at \in Running
  BY Zenon DEF Holds, Owns, Running, InRun
<1>4. w \in workers /\ ~DogHolds(w) /\ \A h \in Loopers : h[1] = w /\ Holds(h) => h = g
  BY <1>3, ZenonT(60) DEF OwnInv, HolderInv
<1> HIDE DEF w
<1>5. \A v : DogHolds(v)' <=> DogHolds(v)
  BY SMTT(30) DEF DogHolds
<1>6. Quiet(w)' /\ \A v \in Workers : v # w => (Quiet(v)' <=> Quiet(v))
  BY <1>2, SMTT(60) DEF Quiet
<1>7. \A h \in Loopers : lp'[h].seq = lp[h].seq /\ lp'[h].route = lp[h].route
                         /\ (lp'[h].at \in Running <=> lp[h].at \in Running)
                         /\ (lp'[h].at = "off" <=> lp[h].at = "off")
  BY <1>3, ZenonT(60) DEF Others
<1>8. \A h \in Loopers : lp[h].seq \in 0..MaxRuns /\ lp[h].seq # HandedOff
  BY InlineAssumption, SMTT(60) DEF TypeInv, TypeOK, HandedOff
<1>9. \A h \in Loopers : Holds(h)' <=> Holds(h)
  <2>1. ASSUME NEW h \in Loopers, h # g, h[1] # w PROVE Holds(h)' <=> Holds(h)
    BY <1>2, <2>1, LooperParts, ZenonT(60) DEF Others, Holds, Owns
  <2>2. ASSUME NEW h \in Loopers, h # g, h[1] = w PROVE ~Holds(h)' /\ ~Holds(h)
    <3>1. ~Holds(h)
      BY <1>4, <2>2, Zenon
    <3> QED
      BY <1>2, <1>8, <2>2, <3>1, SMTT(60) DEF Others, Holds, Owns
  <2> QED
    BY <1>3, <2>1, <2>2, Zenon
<1>10. RunsInv'
  <2>1. \A v \in Workers : Quiet(v)' \/ inlineRun'[v] <= inlineSeq'[v]
    BY <1>2, <1>6, Zenon DEF OwnInv, RunsInv
  <2>2. inlineSeq' = inlineSeq
    BY Zenon
  <2>3. \A h \in Loopers : /\ lp'[h].at \in Running => lp'[h].seq \in 1..inlineSeq'[h[1]]
                           /\ lp'[h].at \notin Running => lp'[h].seq = 0
                           /\ h[2] > inlineSeq'[h[1]] => lp'[h].at = "off"
    BY <1>7, <2>2, ZenonT(60) DEF OwnInv, RunsInv
  <2>4. ASSUME NEW h \in Loopers, NEW i \in Loopers, h[1] = i[1], lp'[h].at \in Running, lp'[h].seq = lp'[i].seq
        PROVE  h = i
    BY <1>7, <2>4, ZenonT(120) DEF OwnInv, RunsInv
  <2> QED
    BY <2>1, <2>3, <2>4, Zenon DEF RunsInv
<1>11. HolderInv'
  BY <1>5, <1>9, ZenonT(60) DEF OwnInv, HolderInv
<1>12. QuietInv'
  <2>1. ASSUME NEW h \in Loopers
        PROVE  /\ lp'[h].at \in Free \cup {"store"} => Quiet(h[1])'
               /\ lp'[h].at = "spawn" => inlineRun'[h[1]] = HandedOff
    <3>1. CASE h[1] = w
      BY <1>2, <1>6, <3>1, ZenonT(60)
    <3>2. CASE h[1] # w
      BY <1>2, <1>6, <3>2, LooperParts DEF Others, OwnInv, QuietInv, w
    <3> QED
      BY <3>1, <3>2, ZenonT(60)
  <2>2. \A v \in Workers : DogHolds(v) => inlineRun'[v] = HandedOff
    BY <1>2, Zenon DEF OwnInv, QuietInv
  <2>3. \A v \in Workers : v \notin workers => Quiet(v)'
    BY <1>6, Zenon DEF OwnInv, QuietInv
  <2> QED
    BY <1>5, <2>1, <2>2, <2>3, ZenonT(60) DEF QuietInv
<1>13. RunInv'
  <2>1. \A h \in Loopers : <<h[1], lp[h].seq>> \in Loopers
    BY LooperParts, Zenon DEF TypeInv, TypeOK
  <2>2. \A h \in Loopers : lp'[h].at \in {"store", "signal", "handler"} => lp'[h] = lp[h]
    BY ZenonT(60) DEF Others
  <2> QED
    BY <1>7, <1>9, <2>1, <2>2, SMTT(60) DEF OwnInv, RunInv
<1>14. DogInv'
  <2>1. \A v \in Workers : <<v, scan.seq>> \in Loopers
    BY LooperParts, Zenon DEF TypeInv, TypeOK
  <2> QED
    BY <1>5, <1>7, <2>1 DEF OwnInv, DogInv
<1> QED
  BY <1>10, <1>11, <1>12, <1>13, <1>14, Zenon DEF OwnInv

\* leaveInline, and a handler that ends its goroutine.
LEMMA HandlerOwn ==
  ASSUME TypeInv, OwnInv, NEW g \in Loopers, LeaveInline(g) \/ HandlerExits(g)
  PROVE  OwnInv' /\ TypeInv'
<1>1. lp[g].at = "handler" /\ lp[g].at \in InRun
  BY LeaveEffect, ExitEffect, ZenonT(30) DEF InRun
<1>2. UNCHANGED <<inlineSeq, inlineRoute, workers, wd, scan>>
  BY Zenon DEF LeaveInline, HandlerExits, dog
<1>3. lp' \in [Loopers -> Recs] /\ Others(g)
  BY LeaveEffect, ExitEffect, Zenon
<1>4. TypeInv'
  BY <1>3, HandlerTypes, ZenonT(60)
<1>5. CASE lp[g].live /\ inlineRun[g[1]] = lp[g].seq
  <2>1. lp'[g].at = "spawn" /\ lp'[g].seq = lp[g].seq /\ lp'[g].route = lp[g].route
    BY <1>5, LeaveEffect, ExitEffect, Zenon
  <2>2. HandOffSwap(g[1], lp[g].seq)
    BY <1>5, Zenon DEF LeaveInline, HandlerExits
  <2> QED
    BY <1>1, <1>2, <1>3, <1>4, <1>5, <2>1, <2>2, GiveOwn, SMTT(60)
<1>6. CASE ~(lp[g].live /\ inlineRun[g[1]] = lp[g].seq)
  <2>1. ~Owns(g)
    <3>1. Owns(g) => lp[g].live
      BY <1>1, Zenon DEF OwnInv, RunInv, Holds, Running
    <3> QED
      BY <1>1, <1>6, <3>1, Zenon DEF Owns
  <2>2. CASE LeaveInline(g)
    <3>1. inlineRun[g[1]] # lp[g].seq
      BY <1>6, <2>2, Zenon DEF LeaveInline
    <3>2. inlineRun' = inlineRun
      BY <2>2, <3>1, Zenon DEF LeaveInline, HandOffSwap
    <3>3. lp'[g].at = "handler" /\ lp'[g].seq = lp[g].seq /\ lp'[g].route = lp[g].route
      BY <2>2, <3>1, LeaveEffect, Zenon
    <3> QED
      BY <1>1, <1>2, <1>3, <1>4, <2>1, <3>2, <3>3, LostOwn, ZenonT(60)
  <2>3. CASE HandlerExits(g)
    <3>1. lp'[g] = Asleep /\ inlineRun' = inlineRun
      BY <1>6, <2>3, ExitEffect, ZenonT(60)
    <3>2. lp'[g].at = "off" /\ lp'[g].seq = 0
      BY <3>1 DEF Asleep
    <3> QED
      BY <1>1, <1>2, <1>3, <1>4, <2>1, <3>1, <3>2, LostOwn, ZenonT(60)
  <2> QED
    BY <2>2, <2>3, Zenon
<1> QED
  BY <1>5, <1>6, Zenon

--------------------------------------------------------------------------------
(* The owner of a loop: the steps that hand it over.                            *)

\* runInlineQueue after the handler: the swap tells the goroutine whether it still owns
\* the loop.
LEMMA SwapOwn ==
  ASSUME TypeInv, OwnInv, NEW g \in Loopers, SwapBack(g)
  PROVE  OwnInv' /\ TypeInv'
<1> DEFINE w == g[1]
<1>1. /\ lp[g].at = "swap" /\ lp'[g].seq = 0 /\ Others(g)
      /\ lp'[g].at = IF inlineRun[w] = lp[g].seq THEN "queue" ELSE "off"
  BY SwapEffect, Zenon
<1>2. UNCHANGED <<inlineSeq, inlineRoute, workers, wd, scan>>
  BY Zenon DEF SwapBack, dog
<1>3. TypeInv'
  BY SwapEffect, HandlerTypes, ZenonT(60)
<1>4. CASE inlineRun[w] # lp[g].seq
  <2>1. inlineRun' = inlineRun /\ ~Owns(g) /\ lp[g].at \in InRun
    BY <1>1, <1>4, Zenon DEF SwapBack, Owns, InRun
  <2> QED
    BY <1>1, <1>2, <1>3, <1>4, <2>1, LostOwn, SMTT(30)
<1>5. CASE inlineRun[w] = lp[g].seq
  <2>1. w \in Workers /\ inlineRun \in [Workers -> 0..HandedOff]
    BY LooperParts DEF TypeInv, TypeOK
  <2>2. inlineRun'[w] = 0 /\ \A v \in Workers : v # w => inlineRun'[v] = inlineRun[v]
    BY <1>5, <2>1, Zenon DEF SwapBack
  <2>3. Holds(g) /\ Holds(g)' /\ lp[g].at \in Running /\ lp'[g].at \notin Running /\ lp'[g].at = "queue"
    BY <1>1, <1>5, Zenon DEF Holds, Owns, Running, InRun
  <2>4. w \in workers /\ ~DogHolds(w) /\ \A h \in Loopers : h[1] = w /\ Holds(h) => h = g
    BY <2>3, ZenonT(60) DEF OwnInv, HolderInv
  <2>5. \A h \in Loopers : h # g => lp'[h] = lp[h]
    BY <1>1 DEF Others
  <2> HIDE DEF w
  <2>6. \A v : DogHolds(v)' <=> DogHolds(v)
    BY <1>2, Zenon DEF DogHolds
  <2>7. Quiet(w)' /\ \A v \in Workers : v # w => (Quiet(v)' <=> Quiet(v))
    BY <2>2, ZenonT(60) DEF Quiet
  <2>8. \A h \in Loopers : lp[h].at \in Running => lp[h].seq # 0
    BY DEF OwnInv, RunsInv
  <2>9. \A h \in Loopers : Holds(h)' <=> Holds(h)
    <3>1. ASSUME NEW h \in Loopers, h # g, h[1] # w PROVE Holds(h)' <=> Holds(h)
      BY <2>2, <2>5, <3>1, LooperParts, SMTT(30) DEF Holds, Owns
    <3>2. ASSUME NEW h \in Loopers, h # g, h[1] = w PROVE ~Holds(h)' /\ ~Holds(h)
      <4>1. ~Holds(h)
        BY <2>4, <3>2, Zenon
      <4> QED
        BY <2>2, <2>5, <2>8, <3>2, <4>1, ZenonT(60) DEF Holds, Owns, Running, InRun
    <3> QED
      BY <2>3, <3>1, <3>2, ZenonT(60)
  <2>10. RunsInv'
    <3>1. \A v \in Workers : Quiet(v)' \/ inlineRun'[v] <= inlineSeq'[v]
      BY <1>2, <2>2, <2>7, SMTT(30) DEF OwnInv, RunsInv
    <3>2. \A h \in Loopers : /\ lp'[h].at \in Running => lp'[h].seq \in 1..inlineSeq'[h[1]]
                             /\ lp'[h].at \notin Running => lp'[h].seq = 0
                             /\ h[2] > inlineSeq'[h[1]] => lp'[h].at = "off"
      BY <1>1, <1>2, <2>3, <2>5, SMTT(30) DEF OwnInv, RunsInv
    <3>3. ASSUME NEW h \in Loopers, NEW i \in Loopers, h[1] = i[1], lp'[h].at \in Running, lp'[h].seq = lp'[i].seq
          PROVE  h = i
      <4>1. h # g /\ lp'[h] = lp[h]
        BY <2>3, <2>5, <3>3, Zenon
      <4>2. lp'[h].seq # 0
        BY <2>8, <3>3, <4>1, Zenon
      <4>3. i # g /\ lp'[i] = lp[i]
        BY <1>1, <2>5, <3>3, <4>2, ZenonT(60)
      <4> QED
        BY <3>3, <4>1, <4>3, ZenonT(60) DEF OwnInv, RunsInv
    <3> QED
      BY <3>1, <3>2, <3>3, SMTT(30) DEF RunsInv
  <2>11. HolderInv'
    BY <1>2, <2>6, <2>9, Zenon DEF OwnInv, HolderInv
  <2>12. QuietInv'
    <3>1. ASSUME NEW h \in Loopers
          PROVE  /\ lp'[h].at \in Free \cup {"store"} => Quiet(h[1])'
                 /\ lp'[h].at = "spawn" => inlineRun'[h[1]] = HandedOff
      <4>1. CASE h = g
        BY <2>3, <2>7, <4>1, ZenonT(60) DEF w
      <4>2. CASE h # g /\ h[1] = w
        <5>1. ~Holds(h)
          BY <2>4, <4>2, ZenonT(60)
        <5> QED
          BY <2>5, <2>7, <4>2, <5>1, SMTT(30) DEF Holds
      <4>3. CASE h[1] # w
        BY <2>2, <2>5, <2>7, <4>3, LooperParts, SMTT(30) DEF OwnInv, QuietInv, w
      <4> QED
        BY <4>1, <4>2, <4>3, SMTT(30)
    <3>2. \A v \in Workers : DogHolds(v) => inlineRun'[v] = HandedOff
      BY <2>2, <2>4, SMTT(30) DEF OwnInv, QuietInv
    <3>3. \A v \in Workers : v \notin workers => Quiet(v)'
      BY <2>7, SMTT(30) DEF OwnInv, QuietInv
    <3> QED
      BY <1>2, <2>6, <3>1, <3>2, <3>3, SMTT(30) DEF QuietInv
  <2>13. RunInv'
    <3>1. \A h \in Loopers : <<h[1], lp[h].seq>> \in Loopers
      BY LooperParts, Zenon DEF TypeInv, TypeOK
    <3>2. \A h \in Loopers : lp[h].at = "off" => lp'[h].at = "off"
      BY <1>1, <2>5, ZenonT(60)
    <3> QED
      BY <1>2, <2>3, <2>5, <2>9, <3>1, <3>2, SMTT(30) DEF OwnInv, RunInv
  <2>14. DogInv'
    <3>1. \A v \in Workers : <<v, scan.seq>> \in Loopers
      BY LooperParts, Zenon DEF TypeInv, TypeOK
    <3>2. \A h \in Loopers : lp[h].at = "off" => lp'[h].at = "off"
      BY <1>1, <2>5, Zenon
    <3>3. \A v \in Workers : DogHolds(v) => v # w
      BY <2>4, Zenon
    <3>4. \A h \in Loopers : h[1] # w => lp'[h] = lp[h]
      BY <2>5, ZenonT(60) DEF w
    <3> QED
      BY <1>2, <2>6, <3>1, <3>2, <3>3, <3>4, SMTT(30) DEF OwnInv, DogInv
  <2> QED
    BY <1>3, <2>10, <2>11, <2>12, <2>13, <2>14, SMTT(30) DEF OwnInv
<1> QED
  BY <1>4, <1>5, Zenon

\* handOff: the successor takes over from whoever starts it.
LEMMA StartOwn ==
  ASSUME TypeInv, OwnInv, NEW k \in Loopers, k[2] <= inlineSeq[k[1]], lp[k].at = "off",
         inlineRun[k[1]] = HandedOff, k[1] \in workers, lp'[k].at = "top", lp'[k].seq = 0,
         \A h \in Loopers : h # k =>
            \/ lp'[h] = lp[h] /\ (h[1] = k[1] => ~Holds(h))
            \/ h[1] = k[1] /\ lp'[h].at = "off" /\ lp'[h].seq = 0
            \/ /\ h[1] = k[1] /\ lp[h].at = "spawn" /\ lp'[h].at = "handler"
               /\ lp'[h].seq = lp[h].seq /\ lp'[h].route = lp[h].route,
         UNCHANGED <<inlineSeq, inlineRun, inlineRoute, workers>>,
         \/ wd' = wd /\ scan' = scan /\ ~DogHolds(k[1])
         \/ wd' = "scan" /\ DogHolds(k[1])
  PROVE  OwnInv'
<1> DEFINE w == k[1]
<1>1. w \in Workers
  BY LooperParts, ZenonT(60)
<1>2. \A h \in Loopers : lp[h].seq # HandedOff /\ <<h[1], lp[h].seq>> \in Loopers
                         /\ <<h[1], lp[h].seq>>[1] = h[1]
  <2>1. \A h \in Loopers : lp[h].seq \in 0..MaxRuns
    BY ZenonT(60) DEF TypeInv, TypeOK
  <2>2. HandedOff \notin 0..MaxRuns
    BY InlineAssumption DEF HandedOff
  <2> QED
    BY <2>1, <2>2, LooperParts
<1>3. Quiet(w)' /\ Quiet(w) /\ \A v : Quiet(v)' <=> Quiet(v)
  BY ZenonT(30) DEF Quiet
<1>4. ~DogHolds(w)' /\ \A v \in Workers : v # w => (DogHolds(v)' <=> DogHolds(v))
  BY Zenon DEF DogHolds, OwnInv, DogInv
<1>5. \A h \in Loopers : h[1] # w => lp'[h] = lp[h]
  BY Zenon
<1>6. Holds(k)' /\ lp'[k].at \notin Running /\ ~Holds(k) /\ lp[k].at \notin Running
  BY ZenonT(60) DEF Holds, Owns, Running, InRun
<1>7. \A h \in Loopers : h # k /\ h[1] = w => ~Holds(h)'
  <2> SUFFICES ASSUME NEW h \in Loopers, h # k, h[1] = w PROVE ~Holds(h)'
    BY Zenon
  <2>1. CASE lp'[h] = lp[h] /\ ~Holds(h)
    BY <2>1, ZenonT(30) DEF Holds, Owns
  <2>2. CASE lp'[h].at = "off"
    BY <2>2, ZenonT(60) DEF Holds, Owns
  <2>3. CASE lp'[h].at = "handler" /\ lp'[h].seq = lp[h].seq
    <3>1. inlineRun'[h[1]] # lp'[h].seq
      <4>1. lp[h].seq # HandedOff
        BY <1>2, Zenon
      <4>2. inlineRun'[h[1]] = HandedOff
        BY Zenon
      <4> QED
        BY <2>3, <4>1, <4>2, Zenon
    <3> QED
      BY <2>3, <3>1, ZenonT(30) DEF Holds, Owns
  <2> QED
    BY <2>1, <2>2, <2>3, ZenonT(30)
<1>8. \A h \in Loopers : h[1] # w => (Holds(h)' <=> Holds(h))
  BY <1>5, ZenonT(60) DEF Holds, Owns
<1>9. \A h \in Loopers : h # k => /\ lp[h].at = "off" => lp'[h].at = "off"
                                  /\ lp'[h].at \in Running => lp'[h].seq = lp[h].seq /\ lp[h].at \in Running
                                  /\ lp'[h].at \notin Running => lp'[h].seq = 0
                                  /\ lp'[h].seq # 0 => lp'[h].seq = lp[h].seq
  <2>1. "off" \notin Running /\ "spawn" \in Running /\ "handler" \in Running
    BY Zenon DEF Running, InRun
  <2>2. \A h \in Loopers : lp[h].at \notin Running => lp[h].seq = 0
    BY ZenonT(60) DEF OwnInv, RunsInv
  <2>3. ASSUME NEW h \in Loopers, h # k, lp[h].at = "off" PROVE lp'[h].at = "off"
    BY <2>3, ZenonT(60)
  <2> QED
    BY <2>1, <2>2, <2>3, ZenonT(60)
<1>10. RunsInv'
  <2>1. ASSUME NEW h \in Loopers
        PROVE  /\ lp'[h].at \in Running => lp'[h].seq \in 1..inlineSeq[h[1]]
               /\ lp'[h].at \notin Running => lp'[h].seq = 0
               /\ h[2] > inlineSeq[h[1]] => lp'[h].at = "off"
    <3>1. CASE h = k
      <4>1. ~(k[2] > inlineSeq[k[1]])
        <5>1. k[2] \in 0..MaxRuns /\ inlineSeq[k[1]] \in 0..MaxRuns
          BY LooperParts, SMTT(30) DEF TypeInv, TypeOK
        <5> QED
          BY <5>1, SMTT(30)
      <4> QED
        BY <1>6, <3>1, <4>1, SMTT(30)
    <3>2. CASE h # k
      BY <1>9, <3>2, Zenon DEF OwnInv, RunsInv
    <3> QED
      BY <3>1, <3>2, ZenonT(60)
  <2>2. ASSUME NEW h \in Loopers, NEW i \in Loopers, h[1] = i[1], lp'[h].at \in Running, lp'[h].seq = lp'[i].seq
        PROVE  h = i
    <3>1. h # k /\ lp'[h].seq = lp[h].seq /\ lp[h].at \in Running
      BY <1>6, <1>9, <2>2, Zenon
    <3>2. lp'[h].seq # 0
      BY <3>1 DEF OwnInv, RunsInv
    <3>3. i # k /\ lp'[i].seq = lp[i].seq
      BY <1>9, <2>2, <3>2, Zenon
    <3> QED
      BY <2>2, <3>1, <3>3, ZenonT(120) DEF OwnInv, RunsInv
  <2> QED
    BY <1>3, <2>1, <2>2, ZenonT(120) DEF OwnInv, RunsInv
<1> HIDE DEF w
<1>11. HolderInv'
  <2>1. ASSUME NEW h \in Loopers, NEW i \in Loopers, h[1] = i[1], Holds(h)', Holds(i)' PROVE h = i
    <3>1. CASE h[1] = w
      BY <1>7, <2>1, <3>1, ZenonT(60)
    <3>2. CASE h[1] # w
      BY <1>8, <2>1, <3>2, Zenon DEF OwnInv, HolderInv
    <3> QED
      BY <3>1, <3>2, ZenonT(60)
  <2>2. \A h \in Loopers : Holds(h)' => ~DogHolds(h[1])' /\ h[1] \in workers
    BY <1>4, <1>8, LooperParts DEF OwnInv, HolderInv, w
  <2>3. ASSUME NEW v \in workers PROVE DogHolds(v)' \/ \E h \in Loopers : h[1] = v /\ Holds(h)'
    <3>1. CASE v = w
      BY <1>6, <3>1, ZenonT(60) DEF w
    <3>2. CASE v # w
      <4>1. v \in Workers
        BY ZenonT(60) DEF TypeInv, TypeOK
      <4>2. DogHolds(v) \/ \E h \in Loopers : h[1] = v /\ Holds(h)
        BY ZenonT(60) DEF OwnInv, HolderInv
      <4> QED
        BY <1>4, <1>8, <3>2, <4>1, <4>2, ZenonT(60)
    <3> QED
      BY <3>1, <3>2, ZenonT(60)
  <2>4. \A v \in Workers : DogHolds(v)' => v \in workers
    BY <1>4, ZenonT(60) DEF OwnInv, HolderInv
  <2> QED
    BY <2>1, <2>2, <2>3, <2>4, ZenonT(60) DEF HolderInv
<1>12. QuietInv'
  <2>1. ASSUME NEW h \in Loopers
        PROVE  /\ lp'[h].at \in Free \cup {"store"} => Quiet(h[1])'
               /\ lp'[h].at = "spawn" => inlineRun'[h[1]] = HandedOff
    <3>1. CASE h[1] = w
      BY <1>3, <3>1, ZenonT(60) DEF w
    <3>2. CASE h[1] # w
      BY <1>3, <1>5, <3>2 DEF OwnInv, QuietInv
    <3> QED
      BY <3>1, <3>2, ZenonT(60)
  <2> QED
    BY <1>3, <1>4, <2>1, ZenonT(60) DEF OwnInv, QuietInv
<1>13. RunInv'
  <2>1. SUFFICES ASSUME NEW h \in Loopers, Holds(h)', lp'[h].at \in Running
                 PROVE  /\ lp'[<<h[1], lp'[h].seq>>].at = "off"
                        /\ inlineRoute'[h[1]] = lp'[h].route
                        /\ lp'[h].at \in {"store", "signal", "handler"} => lp'[h].live
    BY Zenon DEF RunInv
  <2>2. h[1] # w
    BY <1>6, <1>7, <2>1, ZenonT(60)
  <2>3. Holds(h) /\ lp'[h] = lp[h]
    BY <1>5, <1>8, <2>1, <2>2, Zenon
  <2>4. /\ lp[<<h[1], lp[h].seq>>].at = "off" /\ inlineRoute[h[1]] = lp[h].route
        /\ lp[h].at \in {"store", "signal", "handler"} => lp[h].live
    BY <2>1, <2>3, ZenonT(60) DEF OwnInv, RunInv
  <2>5. lp'[<<h[1], lp[h].seq>>] = lp[<<h[1], lp[h].seq>>]
    BY <1>2, <1>5, <2>2, Zenon
  <2> QED
    BY <2>3, <2>4, <2>5, ZenonT(120)
<1>14. DogInv'
  <2>1. CASE wd' = "scan"
    BY <2>1, Zenon DEF DogInv, DogHolds
  <2>2. CASE wd' = wd /\ scan' = scan
    <3>1. \A v \in Workers : <<v, scan.seq>> \in Loopers /\ <<v, scan.seq>>[1] = v
      BY LooperParts, Zenon DEF TypeInv, TypeOK
    <3>2. (wd \in {"swap", "spawn"} => scan.seq # 0 /\ \A u, v \in scan.hand : u = v)'
      BY <2>2, Zenon DEF OwnInv, DogInv
    <3>3. ASSUME NEW v \in Workers, DogHolds(v)'
          PROVE  (/\ scan.seq <= inlineSeq[v]
                  /\ lp[<<v, scan.seq>>].at = "off"
                  /\ \A h \in Loopers : h[1] = v /\ lp[h].seq = scan.seq => inlineRoute[v] = lp[h].route)'
      <4>1. v # w /\ DogHolds(v)
        BY <1>4, <3>3, Zenon
      <4>2. lp'[<<v, scan.seq>>] = lp[<<v, scan.seq>>] /\ \A h \in Loopers : h[1] = v => lp'[h] = lp[h]
        BY <1>5, <3>1, <4>1, Zenon
      <4>3. /\ scan.seq <= inlineSeq[v] /\ lp[<<v, scan.seq>>].at = "off"
            /\ \A h \in Loopers : h[1] = v /\ lp[h].seq = scan.seq => inlineRoute[v] = lp[h].route
        BY <4>1, Zenon DEF OwnInv, DogInv
      <4> QED
        BY <2>2, <4>2, <4>3, ZenonT(60)
    <3> QED
      BY <3>2, <3>3, Zenon DEF DogInv
  <2> QED
    BY <2>1, <2>2, ZenonT(60)
<1> QED
  BY <1>10, <1>11, <1>12, <1>13, <1>14, ZenonT(30) DEF OwnInv

\* A goroutine that gave the loop away starts its successor.
LEMMA SpawnOwn ==
  ASSUME TypeInv, OwnInv, NEW g \in Loopers, SpawnSelf(g)
  PROVE  OwnInv' /\ TypeInv'
<1> DEFINE k == <<g[1], lp[g].seq>>
<1>1. lp[g].at = "spawn" /\ Holds(g) /\ lp[g].at \in Running
  BY Zenon DEF SpawnSelf, At, Holds, Running
<1>2. lp[k].at = "off"
  BY <1>1, ZenonT(60) DEF OwnInv, RunInv
<1>3. /\ k \in Loopers /\ g # k /\ lp'[k].at = "top" /\ lp'[k].seq = 0
      /\ \/ lp'[g].at = "off" /\ lp'[g].seq = 0
         \/ lp'[g].at = "handler" /\ lp'[g].seq = lp[g].seq /\ lp'[g].route = lp[g].route
      /\ \A h \in Loopers : h # g /\ h # k => lp'[h] = lp[h]
      /\ lp' \in [Loopers -> Recs]
  BY <1>2, SpawnEffect, Zenon
<1>4. TypeInv'
  BY <1>3, HandlerTypes, ZenonT(60)
<1>5. k[1] = g[1] /\ k[2] = lp[g].seq /\ lp[g].seq <= inlineSeq[g[1]]
  BY <1>1 DEF OwnInv, RunsInv
<1>6. UNCHANGED <<inlineSeq, inlineRun, inlineRoute, workers, wd, scan>>
  BY Zenon DEF SpawnSelf, dog
<1>7. inlineRun[g[1]] = HandedOff /\ g[1] \in workers /\ ~DogHolds(g[1])
      /\ \A h \in Loopers : h[1] = g[1] /\ Holds(h) => h = g
  BY <1>1, ZenonT(60) DEF OwnInv, QuietInv, HolderInv
<1> HIDE DEF k
<1>8. ASSUME NEW h \in Loopers, h # k
      PROVE  \/ lp'[h] = lp[h] /\ (h[1] = k[1] => ~Holds(h))
             \/ h[1] = k[1] /\ lp'[h].at = "off" /\ lp'[h].seq = 0
             \/ /\ h[1] = k[1] /\ lp[h].at = "spawn" /\ lp'[h].at = "handler"
                /\ lp'[h].seq = lp[h].seq /\ lp'[h].route = lp[h].route
  BY <1>1, <1>3, <1>5, <1>7, <1>8, ZenonT(60)
<1>9. OwnInv'
  BY <1>2, <1>3, <1>5, <1>6, <1>7, <1>8, StartOwn, ZenonT(60)
<1> QED
  BY <1>4, <1>9, Zenon

\* The watchdog starts the successor of the run it took the loop from.
LEMMA DogSpawnOwn ==
  ASSUME TypeInv, OwnInv, NEW w \in Workers, DogSpawn(w)
  PROVE  OwnInv'
<1> DEFINE k == <<w, scan.seq>>
<1>1. DogHolds(w) /\ wd' = "scan"
  BY Zenon DEF DogSpawn, DogHolds
<1>2. /\ k \in Loopers /\ lp'[k].at = "top" /\ lp'[k].seq = 0
      /\ \A h \in Loopers : h # k => lp'[h] = lp[h]
  BY DogSpawnEffect, ZenonT(60)
<1>3. k[1] = w /\ k[2] = scan.seq /\ scan.seq <= inlineSeq[w] /\ lp[k].at = "off"
  BY <1>1, ZenonT(60) DEF OwnInv, DogInv
<1>4. inlineRun[w] = HandedOff /\ w \in workers /\ \A h \in Loopers : h[1] = w => ~Holds(h)
  BY <1>1 DEF OwnInv, QuietInv, HolderInv
<1>5. UNCHANGED <<inlineSeq, inlineRun, inlineRoute, workers>>
  BY Zenon DEF DogSpawn
<1> HIDE DEF k
<1>6. \A h \in Loopers : h # k => lp'[h] = lp[h] /\ (h[1] = k[1] => ~Holds(h))
  BY <1>2, <1>3, <1>4, Zenon
<1> QED
  BY <1>1, <1>2, <1>3, <1>4, <1>5, <1>6, StartOwn, Zenon

\* The watchdog's scans change nothing of the loops.
LEMMA ScanOwn ==
  ASSUME TypeInv, OwnInv, wd' \notin {"spawn"}, wd \notin {"spawn"},
         wd' = "swap" => scan'.seq # 0 /\ \A v, w \in scan'.hand : v = w,
         UNCHANGED <<lp, inlineSeq, inlineRun, inlineRoute, workers>>
  PROVE  OwnInv'
<1>1. \A v : ~DogHolds(v)' /\ ~DogHolds(v) /\ (Quiet(v)' <=> Quiet(v))
  BY Zenon DEF DogHolds, Quiet
<1>2. \A g : Holds(g)' <=> Holds(g)
  BY Zenon DEF Holds, Owns
<1>3. RunsInv'
  BY <1>1, Zenon DEF OwnInv, RunsInv
<1>4. HolderInv'
  BY <1>1, <1>2, ZenonT(60) DEF OwnInv, HolderInv
<1>5. QuietInv'
  BY <1>1, Zenon DEF OwnInv, QuietInv
<1>6. RunInv'
  BY <1>2, Zenon DEF OwnInv, RunInv
<1>7. DogInv'
  BY <1>1, ZenonT(60) DEF DogInv
<1> QED
  BY <1>3, <1>4, <1>5, <1>6, <1>7, Zenon DEF OwnInv

\* handOff by the watchdog: a swap that succeeds takes the loop from the run that held
\* it, and from no other.
LEMMA DogSwapOwn ==
  ASSUME TypeInv, OwnInv, NEW w \in Workers, DogSwap(w)
  PROVE  OwnInv'
<1>1. UNCHANGED <<lp, inlineSeq, inlineRoute, workers>> /\ wd = "swap" /\ w \in scan.hand
  BY Zenon DEF DogSwap
<1>2. CASE inlineRun[w] # scan.seq
  <2>1. wd' = "scan" /\ inlineRun' = inlineRun
    BY <1>2, Zenon DEF DogSwap, HandOffSwap
  <2> QED
    BY <1>1, <2>1, ScanOwn, Zenon
<1>3. CASE inlineRun[w] = scan.seq
  <2>1. wd' = "spawn" /\ scan' = scan /\ inlineRun' = [inlineRun EXCEPT ![w] = HandedOff]
    BY <1>3, Zenon DEF DogSwap, HandOffSwap
  <2>2. inlineRun'[w] = HandedOff /\ \A v \in Workers : v # w => inlineRun'[v] = inlineRun[v]
    BY <2>1, Zenon DEF TypeInv, TypeOK
  <2>3. scan.seq # 0 /\ \A v \in scan.hand : v = w
    BY <1>1, Zenon DEF OwnInv, DogInv
  <2>4. \A h \in Loopers : lp[h].seq # HandedOff /\ <<h[1], lp[h].seq>> \in Loopers
    <3>1. \A h \in Loopers : lp[h].seq \in 0..MaxRuns
      BY Zenon DEF TypeInv, TypeOK
    <3>2. HandedOff \notin 0..MaxRuns
      BY InlineAssumption DEF HandedOff
    <3> QED
      BY <3>1, <3>2, LooperParts, Zenon
  <2>5. scan.seq # HandedOff
    BY InlineAssumption DEF TypeInv, TypeOK, HandedOff
  <2>6. ~Quiet(w) /\ inlineRun[w] # HandedOff
    BY <1>3, <2>3, <2>5, Zenon DEF Quiet
  <2>7. w \in workers /\ \A v : ~DogHolds(v)
    BY <1>1, <2>6, Zenon DEF OwnInv, QuietInv, DogHolds
  <2>8. PICK g \in Loopers : g[1] = w /\ Holds(g)
    BY <2>7, Zenon DEF OwnInv, HolderInv
  <2>9. lp[g].at \in InRun /\ lp[g].seq = scan.seq
    <3>1. lp[g].at \notin Free \cup {"store", "spawn"}
      BY <2>6, <2>8, Zenon DEF OwnInv, QuietInv
    <3> QED
      BY <1>3, <2>8, <3>1, StepKinds, Zenon DEF Holds
  <2>10. lp[g].at \in Running
    BY <2>9, Zenon DEF Running
  <2>11. \A h \in Loopers : h[1] = w => (Holds(h) => h = g)
    BY <2>8, Zenon DEF OwnInv, HolderInv
  <2>12. \A v \in Workers : DogHolds(v)' <=> v = w
    BY <1>1, <2>1, <2>3, Zenon DEF DogHolds
  <2>13. Quiet(w)' /\ \A v \in Workers : v # w => (Quiet(v)' <=> Quiet(v))
    BY <2>2, Zenon DEF Quiet
  <2>14. \A h \in Loopers : h[1] # w => (Holds(h)' <=> Holds(h))
    BY <1>1, <2>2, LooperParts DEF Holds, Owns
  <2>15. \A h \in Loopers : h[1] = w => ~Holds(h)'
    <3> SUFFICES ASSUME NEW h \in Loopers, h[1] = w PROVE ~Holds(h)'
      BY Zenon
    <3>1. inlineRun'[h[1]] # lp'[h].seq
      <4>1. lp'[h].seq # HandedOff
        BY <1>1, <2>4, ZenonT(60)
      <4>2. inlineRun'[h[1]] = HandedOff
        BY <2>2, Zenon
      <4> QED
        BY <4>1, <4>2, Zenon
    <3>2. lp[h].at \notin Free \cup {"store", "spawn"}
      BY <2>6, Zenon DEF OwnInv, QuietInv
    <3> QED
      BY <1>1, <3>1, <3>2, Zenon DEF Holds, Owns, Free
  <2>16. RunsInv'
    BY <1>1, <2>2, <2>13, Zenon DEF OwnInv, RunsInv
  <2>17. HolderInv'
    <3>1. \A h, i \in Loopers : h[1] = i[1] /\ Holds(h)' /\ Holds(i)' => h = i
      BY <2>14, <2>15, Zenon DEF OwnInv, HolderInv
    <3>2. \A h \in Loopers : Holds(h)' => ~DogHolds(h[1])' /\ h[1] \in workers'
      BY <1>1, <2>12, <2>14, <2>15, LooperParts, Zenon DEF OwnInv, HolderInv
    <3>3. ASSUME NEW v \in workers PROVE DogHolds(v)' \/ \E h \in Loopers : h[1] = v /\ Holds(h)'
      <4>1. v \in Workers
        BY Zenon DEF TypeInv, TypeOK
      <4>2. v # w => \E h \in Loopers : h[1] = v /\ Holds(h)
        BY <2>7, Zenon DEF OwnInv, HolderInv
      <4> QED
        BY <2>12, <2>14, <4>1, <4>2, Zenon
    <3> QED
      BY <1>1, <2>7, <2>12, <3>1, <3>2, <3>3, Zenon DEF HolderInv
  <2>18. QuietInv'
    <3>1. ASSUME NEW h \in Loopers
          PROVE  /\ lp'[h].at \in Free \cup {"store"} => Quiet(h[1])'
                 /\ lp'[h].at = "spawn" => inlineRun'[h[1]] = HandedOff
      <4>1. CASE h[1] = w
        BY <2>2, <2>13, <4>1, Zenon
      <4>2. CASE h[1] # w
        BY <1>1, <2>2, <2>13, <4>2, LooperParts, Zenon DEF OwnInv, QuietInv
      <4> QED
        BY <4>1, <4>2, Zenon
    <3>2. \A v \in Workers : v \notin workers => Quiet(v)'
      BY <2>13, Zenon DEF OwnInv, QuietInv
    <3> QED
      BY <1>1, <2>2, <2>12, <3>1, <3>2, Zenon DEF QuietInv
  <2>19. RunInv'
    BY <1>1, <2>14, <2>15, Zenon DEF OwnInv, RunInv
  <2>20. DogInv'
    <3>1. scan.seq <= inlineSeq[w]
      BY <2>8, <2>9, <2>10 DEF OwnInv, RunsInv
    <3>2. lp[<<w, scan.seq>>].at = "off" /\ inlineRoute[w] = lp[g].route
      BY <2>8, <2>9, <2>10, Zenon DEF OwnInv, RunInv
    <3>3. \A h \in Loopers : h[1] = w /\ lp[h].seq = scan.seq => h = g
      BY <2>8, <2>9, <2>10, Zenon DEF OwnInv, RunsInv
    <3> QED
      BY <1>1, <2>1, <2>3, <2>12, <3>1, <3>2, <3>3, ZenonT(60) DEF DogInv
  <2> QED
    BY <2>16, <2>17, <2>18, <2>19, <2>20, Zenon DEF OwnInv
<1> QED
  BY <1>2, <1>3, Zenon

\* Every step keeps the types and the owner.
LEMMA OwnStep ==
  ASSUME TypeInv, OwnInv, [Next]_vars
  PROVE  TypeInv' /\ OwnInv'
<1>1. ASSUME NEW g \in Loopers,
             \/ Top(g) \/ WaitPolls(g) \/ WaitReady(g) \/ Served(g) \/ QueueDone(g) \/ NextRound(g)
      PROVE  TypeInv' /\ OwnInv'
  BY <1>1, LoopTypes, FreeOwn, Zenon
<1>2. ASSUME NEW g \in Loopers, StoreRun(g) \/ SignalDog(g) \/ CloseLoop(g)
      PROVE  TypeInv' /\ OwnInv'
  BY <1>2, LoopTypes, StoreOwn, RunOwn, CloseOwn, Zenon
<1>3. ASSUME NEW g \in Loopers,
             TakeInline(g) \/ SpillInline(g) \/ (\E r \in Routes : QueueInline(g, r))
      PROVE  TypeInv' /\ OwnInv'
  BY <1>3, QueueTypes, TakeOwn, QueueOwn, Zenon
<1>4. ASSUME NEW g \in Loopers, HandlerReturns(g)
      PROVE  TypeInv' /\ OwnInv'
  BY <1>4, ReturnEffect, HandlerTypes, RunOwn, Zenon
<1>5. ASSUME NEW g \in Loopers, LeaveInline(g) \/ HandlerExits(g) \/ SpawnSelf(g) \/ SwapBack(g)
      PROVE  TypeInv' /\ OwnInv'
  BY <1>5, HandlerOwn, SpawnOwn, SwapOwn, Zenon
<1>6. ASSUME \/ Tick \/ EndTickScan \/ Park \/ ParkScan \/ EndParkScan
             \/ Woken \/ Unpark \/ WokenScan \/ EndWokenScan
      PROVE  TypeInv' /\ OwnInv'
  <2>1. UNCHANGED <<lp, inlineSeq, inlineRun, inlineRoute, workers>>
    BY <1>6, Zenon DEF Tick, EndTickScan, Park, ParkScan, EndParkScan, Woken, Unpark, WokenScan, EndWokenScan, worker
  <2>2. wd # "spawn" /\ wd' \notin {"swap", "spawn"}
    BY <1>6, Zenon DEF Tick, EndTickScan, Park, ParkScan, EndParkScan, Woken, Unpark, WokenScan, EndWokenScan, BeginScan
  <2> QED
    BY <1>6, <2>1, <2>2, ScanStepTypes, ScanOwn, ZenonT(60)
<1>7. ASSUME NEW w \in Workers, CheckStall(w)
      PROVE  TypeInv' /\ OwnInv'
  <2>1. UNCHANGED <<lp, inlineSeq, inlineRun, inlineRoute, workers>>
    BY <1>7, Zenon DEF CheckStall
  <2>2. wd # "spawn" /\ wd' # "spawn"
    BY <1>7, CheckEffect, ZenonT(60)
  <2>3. wd' = "swap" => scan'.seq # 0 /\ \A u, v \in scan'.hand : u = v
    <3>1. ASSUME wd' = "swap" PROVE scan'.hand = {w} /\ scan'.seq \in 1..MaxRuns
      BY <1>7, <3>1, CheckEffect, Zenon
    <3> QED
      BY <3>1
  <2> QED
    BY <1>7, <2>1, <2>2, <2>3, CheckTypes, ScanOwn, Zenon
<1>8. ASSUME NEW w \in Workers, DogSwap(w) \/ DogSpawn(w)
      PROVE  TypeInv' /\ OwnInv'
  BY <1>8, DogSwapTypes, DogSwapOwn, DogSpawnEffect, DogSpawnOwn, ZenonT(60)
<1>9. ASSUME UNCHANGED vars
      PROVE  TypeInv' /\ OwnInv'
  <2>1. TypeInv'
    BY <1>9, Zenon DEF vars, worker, dog, TypeInv, TypeOK, QueueInv
  <2> QED
    BY <1>9, <2>1, AlikeOwn, Zenon DEF vars, worker, dog, Alike
<1> QED
  BY <1>1, <1>2, <1>3, <1>4, <1>5, <1>6, <1>7, <1>8, <1>9
     DEF Next, LoopStep, HandlerStep, DogStep

--------------------------------------------------------------------------------
(* The watchdog's sleep.                                                        *)

\* The watchdog has raised parked and is on its way to sleep, or asleep.
Asked == wd \in {"parkScan", "sleep"} \/ (wd \in {"scan", "swap", "spawn"} /\ scan.why = "park")

\* It has yet to see what worker w runs, or is about to take the loop from it.
Unseen(w) ==
    \/ wd = "parkScan"
    \/ wd \in {"scan", "swap", "spawn"} /\ w \in scan.left
    \/ wd = "swap" /\ w \in scan.hand /\ inlineRun[w] = scan.seq

\* A handler that owns the loop.
Busy(g) == Owns(g) /\ lp[g].at \in {"handler", "swap"}

\* park: a handler that began before parked was raised is still to be seen by the scan,
\* and one that began after it has left a token in the channel.
ParkInv ==
    /\ Asked => parked
    /\ Asked /\ ~wake /\ ~scan.busy => \A g \in Loopers : Busy(g) => Unseen(g[1])
    /\ wd \notin {"scan", "swap", "spawn"} => ~scan.busy

\* A step of a loop goroutine that makes no new handler busy, or wakes the watchdog.
LEMMA ParkKept ==
  ASSUME TypeInv, ParkInv, UNCHANGED <<wd, scan, parked>>, wake => wake',
         \/ Asked => wake'
         \/ \A g \in Loopers : Busy(g)' => Busy(g) /\ inlineRun'[g[1]] = inlineRun[g[1]]
  PROVE  ParkInv'
<1>1. (Asked' <=> Asked) /\ (Asked => parked)
  BY Zenon DEF Asked, ParkInv
<1>2. \A w : Unseen(w) /\ inlineRun'[w] = inlineRun[w] => Unseen(w)'
  BY Zenon DEF Unseen
<1>3. ASSUME Asked, ~wake', ~scan.busy
      PROVE  \A g \in Loopers : Busy(g)' => Unseen(g[1])'
  <2>1. \A g \in Loopers : Busy(g) => Unseen(g[1])
    BY <1>3, Zenon DEF ParkInv
  <2> QED
    BY <1>2, <1>3, <2>1, Zenon
<1> QED
  BY <1>1, <1>3, ZenonT(60) DEF ParkInv

\* The loop goroutines against park.
LEMMA ParkLoop ==
  ASSUME TypeInv, OwnInv, OwnInv', ParkInv, NEW g \in Loopers,
         \/ LoopStep(g) \/ HandlerStep(g) \/ WaitReady(g) \/ CloseLoop(g)
         \/ \E r \in Routes : QueueInline(g, r)
  PROVE  ParkInv'
<1>1. UNCHANGED <<wd, scan, parked>>
  BY Zenon DEF LoopStep, HandlerStep, WaitReady, CloseLoop, QueueInline, Top, WaitPolls, Served, TakeInline,
         SpillInline, StoreRun, SignalDog, SpawnSelf, SwapBack, QueueDone, NextRound, HandlerReturns,
         LeaveInline, HandlerExits, dog
<1>2. CASE SignalDog(g)
  BY <1>1, <1>2, ParkKept, ZenonT(60) DEF SignalDog, ParkInv
<1>3. CASE CloseLoop(g)
  BY <1>1, <1>3, ParkKept, ZenonT(60) DEF CloseLoop
<1>4. CASE (\E r \in Routes : QueueInline(g, r)) \/ SpillInline(g)
  <2>1. UNCHANGED <<lp, inlineRun, wake>>
    BY <1>4, Zenon DEF QueueInline, SpillInline
  <2>2. \A h \in Loopers : Busy(h)' => Busy(h) /\ inlineRun'[h[1]] = inlineRun[h[1]]
    BY <2>1, ZenonT(60) DEF Busy, Owns
  <2> QED
    BY <1>1, <2>1, <2>2, ParkKept, Zenon
<1>5. CASE \/ Top(g) \/ WaitPolls(g) \/ WaitReady(g) \/ Served(g) \/ QueueDone(g) \/ NextRound(g)
           \/ TakeInline(g)
  <2>1. UNCHANGED <<inlineRun, wake>>
    BY <1>5, ZenonT(60) DEF Top, WaitPolls, WaitReady, Served, QueueDone, NextRound, TakeInline, worker
  <2>2. lp'[g].at \notin {"handler", "swap"} /\ Others(g)
    <3>1. CASE TakeInline(g)
      BY <3>1, ZenonT(60) DEF TakeInline, TypeInv, TypeOK, Others
    <3>2. CASE ~TakeInline(g)
      <4>1. PICK step \in {"top", "wait", "serve", "queue", "tail"} : GoTo(g, step)
        BY <1>5, <3>2, Zenon DEF Top, WaitPolls, WaitReady, Served, QueueDone, NextRound
      <4>2. step \in LoopSteps
        BY Zenon DEF LoopSteps
      <4> QED
        BY <4>1, <4>2, MoveEffect, ZenonT(60)
    <3> QED
      BY <3>1, <3>2, Zenon
  <2>3. \A h \in Loopers : Busy(h)' => Busy(h) /\ inlineRun'[h[1]] = inlineRun[h[1]]
    BY <2>1, <2>2, ZenonT(60) DEF Others, Busy, Owns
  <2> QED
    BY <1>1, <2>1, <2>3, ParkKept, ZenonT(60)
<1>6. CASE HandlerReturns(g)
  <2>1. UNCHANGED <<inlineRun, wake>>
    BY <1>6, Zenon DEF HandlerReturns, worker
  <2>2. lp[g].at = "handler" /\ lp'[g].at = "swap" /\ lp'[g].seq = lp[g].seq /\ Others(g)
    BY <1>6, ReturnEffect, ZenonT(60)
  <2>3. \A h \in Loopers : Busy(h)' => Busy(h) /\ inlineRun'[h[1]] = inlineRun[h[1]]
    BY <2>1, <2>2, Zenon DEF Others, Busy, Owns
  <2> QED
    BY <1>1, <2>1, <2>3, ParkKept, Zenon
<1>7. CASE StoreRun(g) \/ LeaveInline(g) \/ HandlerExits(g) \/ SwapBack(g)
  <2>1. wake' = wake /\ Others(g)
    BY <1>7, MoveEffect, LeaveEffect, ExitEffect, SwapEffect, ZenonT(60)
       DEF StoreRun, LeaveInline, HandlerExits, SwapBack, LoopSteps
  <2>2. inlineRun' = inlineRun \/ (Holds(g)' /\ lp'[g].at \notin {"handler", "swap"})
    <3>1. CASE StoreRun(g)
      <4>1. lp'[g].at = "signal" /\ lp'[g].seq = lp[g].seq
        BY <3>1, MoveEffect, ZenonT(60) DEF StoreRun, LoopSteps
      <4>2. inlineRun'[g[1]] = lp[g].seq
        BY <3>1, LooperParts DEF StoreRun, TypeInv, TypeOK
      <4> QED
        BY <4>1, <4>2, Zenon DEF Holds, Owns
    <3>2. CASE LeaveInline(g)
      <4>1. CASE inlineRun[g[1]] = lp[g].seq
        BY <3>2, <4>1, LeaveEffect, Zenon DEF Holds
      <4>2. CASE inlineRun[g[1]] # lp[g].seq
        BY <3>2, <4>2, Zenon DEF LeaveInline, HandOffSwap
      <4> QED
        BY <4>1, <4>2, ZenonT(60)
    <3>3. CASE HandlerExits(g)
      BY <3>3, ExitEffect, Zenon DEF Holds
    <3>4. CASE SwapBack(g)
      BY <3>4, SwapEffect, Zenon DEF SwapBack, Holds, Owns
    <3> QED
      BY <1>7, <3>1, <3>2, <3>3, <3>4, ZenonT(60)
  <2>3. \A v \in Workers : v # g[1] => inlineRun'[v] = inlineRun[v]
    BY <1>7, ZenonT(60) DEF StoreRun, LeaveInline, HandlerExits, SwapBack, HandOffSwap, TypeInv, TypeOK
  <2>4. inlineRun' = inlineRun => ~Busy(g)' \/ Busy(g)
    <3>1. CASE StoreRun(g)
      BY <3>1, MoveEffect, Zenon DEF StoreRun, LoopSteps, Busy
    <3>2. CASE LeaveInline(g)
      BY <3>2, LeaveEffect, ZenonT(60) DEF Busy, Owns
    <3>3. CASE HandlerExits(g)
      <4>1. CASE lp[g].live /\ inlineRun[g[1]] = lp[g].seq
        BY <3>3, <4>1, ExitEffect, Zenon DEF Busy
      <4>2. CASE ~(lp[g].live /\ inlineRun[g[1]] = lp[g].seq)
        <5>1. lp'[g] = Asleep
          BY <3>3, <4>2, ExitEffect, Zenon
        <5>2. Asleep.at = "off"
          BY DEF Asleep
        <5> QED
          BY <5>1, <5>2, Zenon DEF Busy
      <4> QED
        BY <4>1, <4>2, Zenon
    <3>4. CASE SwapBack(g)
      BY <3>4, SwapEffect, Zenon DEF Busy
    <3> QED
      BY <1>7, <3>1, <3>2, <3>3, <3>4, Zenon
  <2>5. ASSUME NEW h \in Loopers, Busy(h)' PROVE Busy(h) /\ inlineRun'[h[1]] = inlineRun[h[1]]
    <3>1. CASE inlineRun' = inlineRun
      <4>1. h # g => Busy(h)
        BY <2>1, <2>5, <3>1, ZenonT(60) DEF Others, Busy, Owns
      <4> QED
        BY <2>4, <2>5, <3>1, <4>1, Zenon
    <3>2. CASE Holds(g)' /\ lp'[g].at \notin {"handler", "swap"}
      <4>1. h # g /\ Holds(h)'
        BY <2>5, <3>2, ZenonT(60) DEF Busy, Holds
      <4>2. h[1] # g[1]
        BY <3>2, <4>1, Zenon DEF OwnInv, HolderInv
      <4>3. inlineRun'[h[1]] = inlineRun[h[1]]
        BY <2>3, <4>2, LooperParts, Zenon
      <4> QED
        BY <2>1, <2>5, <4>1, <4>3, ZenonT(60) DEF Others, Busy, Owns
    <3> QED
      BY <2>2, <3>1, <3>2, ZenonT(60)
  <2> QED
    BY <1>1, <2>1, <2>5, ParkKept, ZenonT(60)
<1>8. CASE SpawnSelf(g)
  <2>1. UNCHANGED <<inlineRun, wake>>
    BY <1>8, Zenon DEF SpawnSelf
  <2>2. lp[<<g[1], lp[g].seq>>].at = "off"
    BY <1>8, Zenon DEF SpawnSelf, At, OwnInv, RunInv, Holds, Running
  <2>3. PICK k \in Loopers : /\ k[1] = g[1] /\ k # g /\ lp'[k].at = "top"
                             /\ \A h \in Loopers : h # g /\ h # k => lp'[h] = lp[h]
    BY <1>8, <2>2, SpawnEffect, Zenon
  <2>4. Holds(k)' /\ ~Busy(k)'
    BY <2>3, Zenon DEF Holds, Owns, Busy
  <2>5. ~Busy(g)'
    BY <2>3, <2>4, ZenonT(60) DEF OwnInv, HolderInv, Busy, Holds
  <2>6. \A h \in Loopers : Busy(h)' => Busy(h) /\ inlineRun'[h[1]] = inlineRun[h[1]]
    <3>1. \A h \in Loopers : h # g /\ h # k => (Busy(h)' <=> Busy(h))
      BY <2>1, <2>3, Zenon DEF Busy, Owns
    <3> QED
      BY <2>1, <2>4, <2>5, <3>1, Zenon
  <2> QED
    BY <1>1, <2>1, <2>6, ParkKept, Zenon
<1> QED
  BY <1>2, <1>3, <1>4, <1>5, <1>6, <1>7, <1>8, SMTT(60) DEF LoopStep, HandlerStep

\* The watchdog's own steps.
LEMMA ParkDog ==
  ASSUME TypeInv, OwnInv, OwnInv', ParkInv, DogStep
  PROVE  ParkInv'
<1>1. \A g \in Loopers : Busy(g) => g[1] \in workers /\ ~Quiet(g[1]) /\ g[1] \in Workers
  <2> SUFFICES ASSUME NEW g \in Loopers, Busy(g) PROVE g[1] \in workers /\ ~Quiet(g[1])
    BY LooperParts, Zenon
  <2>1. Holds(g) /\ inlineRun[g[1]] = lp[g].seq /\ lp[g].at \in Running
    BY Zenon DEF Busy, Owns, Holds, Running, InRun
  <2>2. lp[g].seq # 0
    <3>1. lp[g].seq \in 1..inlineSeq[g[1]]
      BY <2>1, Zenon DEF OwnInv, RunsInv
    <3>2. inlineSeq[g[1]] \in Nat
      BY LooperParts, InlineAssumption DEF TypeInv, TypeOK
    <3> QED
      BY <3>1, <3>2
  <2>3. lp[g].seq # HandedOff
    BY InlineAssumption DEF TypeInv, TypeOK, HandedOff
  <2> QED
    BY <2>1, <2>2, <2>3, Zenon DEF OwnInv, HolderInv, Quiet
<1>2. ASSUME Tick \/ WokenScan \/ ParkScan
      PROVE  ParkInv'
  <2>1. UNCHANGED <<worker, lp, workers, wake>>
    BY <1>2, Zenon DEF Tick, WokenScan, ParkScan
  <2>2. PICK why \in {"tick", "park", "woken"} : BeginScan(why) /\ (why = "park" => wd = "parkScan")
    BY <1>2, Zenon DEF Tick, WokenScan, ParkScan
  <2>3. CASE wd' = "off"
    BY <2>2, <2>3, BeginEffect, Zenon DEF ParkInv, Asked
  <2>4. CASE wd' = "scan"
    <3>1. scan'.busy = FALSE /\ parked' = parked /\ scan'.why = why /\ scan'.left = workers
      BY <2>2, <2>4, BeginEffect, ZenonT(60)
    <3>2. \A g \in Loopers : Busy(g)' => Unseen(g[1])'
      <4>1. \A g \in Loopers : Busy(g)' <=> Busy(g)
        BY <2>1, Zenon DEF Busy, Owns, worker
      <4> QED
        BY <1>1, <2>4, <3>1, <4>1, Zenon DEF Unseen
    <3>3. Asked' => parked'
      BY <2>2, <2>4, <3>1, Zenon DEF Asked, ParkInv
    <3> QED
      BY <2>4, <3>2, <3>3, Zenon DEF ParkInv
  <2> QED
    BY <2>2, <2>3, <2>4, BeginEffect, Zenon
<1>3. ASSUME EndTickScan \/ Woken \/ Unpark \/ EndWokenScan
      PROVE  ParkInv'
  <2>1. ~Asked' /\ wd' \notin {"scan", "swap", "spawn"}
    BY <1>3, Zenon DEF EndTickScan, Woken, Unpark, EndWokenScan, Asked
  <2>2. ~scan'.busy
    BY <1>3, NoScanType, Zenon DEF EndTickScan, Woken, Unpark, EndWokenScan, ParkInv
  <2> QED
    BY <2>1, <2>2, Zenon DEF ParkInv
<1>4. ASSUME Park
      PROVE  ParkInv'
  BY <1>4, ZenonT(60) DEF Park, ParkInv, Unseen
<1>5. ASSUME EndParkScan
      PROVE  ParkInv'
  <2>1. UNCHANGED <<worker, lp, parked, wake>> /\ wd = "scan" /\ scan.left = {} /\ scan.why = "park"
        /\ ~scan'.busy /\ wd' = IF scan.busy THEN "unpark" ELSE "sleep"
    BY <1>5, NoScanType, Zenon DEF EndParkScan
  <2>2. Asked /\ \A g : (Busy(g)' <=> Busy(g)) /\ ~Unseen(g[1])
    BY <2>1, Zenon DEF Asked, Busy, Owns, worker, Unseen
  <2>3. Asked' => ~scan.busy
    BY <2>1, Zenon DEF Asked
  <2> QED
    BY <2>1, <2>2, <2>3, Zenon DEF ParkInv
<1>6. ASSUME NEW w \in Workers, CheckStall(w)
      PROVE  ParkInv'
  <2>1. UNCHANGED <<inlineRun, lp, workers, parked, wake>>
    BY <1>6, Zenon DEF CheckStall
  <2>2. wd = "scan" /\ w \in scan.left /\ wd' \in {"scan", "swap"} /\ scan'.why = scan.why
        /\ scan'.left = scan.left \ {w}
    BY <1>6, CheckEffect, ZenonT(60)
  <2>3. Asked' <=> Asked
    BY <2>2, Zenon DEF Asked
  <2>4. ASSUME Asked, ~wake, ~scan'.busy, NEW g \in Loopers, Busy(g)'
        PROVE  Unseen(g[1])'
    <3>1. Busy(g) /\ ~Quiet(g[1])
      BY <1>1, <2>1, <2>4, Zenon DEF Busy, Owns
    <3>2. ~scan.busy
      BY <1>6, <2>4, CheckEffect, Zenon
    <3>3. g[1] \in scan.left
      BY <2>2, <2>4, <3>1, <3>2, Zenon DEF ParkInv, Unseen
    <3>4. CASE g[1] # w
      BY <2>2, <3>3, <3>4, Zenon DEF Unseen
    <3>5. CASE g[1] = w
      <4>1. wd' = "swap" /\ scan'.hand = {w} /\ scan'.seq = inlineRun[w]
        BY <1>6, <2>4, <3>1, <3>5, CheckEffect, Zenon
      <4> QED
        BY <2>1, <3>5, <4>1, Zenon DEF Unseen
    <3> QED
      BY <3>4, <3>5, Zenon
  <2> QED
    BY <2>1, <2>2, <2>3, <2>4, Zenon DEF ParkInv
<1>7. ASSUME NEW w \in Workers, DogSwap(w)
      PROVE  ParkInv'
  <2>1. UNCHANGED <<lp, workers, parked, wake>> /\ wd = "swap" /\ w \in scan.hand
    BY <1>7, Zenon DEF DogSwap
  <2>2. scan'.why = scan.why /\ scan'.left = scan.left /\ scan'.busy = scan.busy /\ wd' \in {"scan", "spawn"}
    BY <1>7, DogSwapTypes, Zenon DEF DogSwap
  <2>3. Asked' <=> Asked
    BY <2>1, <2>2, Zenon DEF Asked
  <2>4. \A v \in scan.hand : v = w
    BY <2>1, Zenon DEF OwnInv, DogInv
  <2>5. ASSUME Asked, ~wake, ~scan.busy, NEW g \in Loopers, Busy(g)'
        PROVE  Unseen(g[1])'
    <3>1. CASE inlineRun[w] = scan.seq
      <4>1. DogHolds(w)' /\ inlineRun' = [inlineRun EXCEPT ![w] = HandedOff]
        BY <1>7, <2>1, <3>1, Zenon DEF DogSwap, HandOffSwap, DogHolds
      <4>2. Holds(g)' /\ g[1] # w
        <5>1. Holds(g)'
          BY <2>5, Zenon DEF Busy, Holds
        <5>2. ~DogHolds(g[1])'
          BY <5>1, Zenon DEF OwnInv, HolderInv
        <5> QED
          BY <4>1, <5>1, <5>2, Zenon
      <4>3. inlineRun'[g[1]] = inlineRun[g[1]]
        BY <4>1, <4>2, LooperParts DEF TypeInv, TypeOK
      <4>4. Busy(g)
        BY <2>1, <2>5, <4>3, Zenon DEF Busy, Owns
      <4>5. g[1] \in scan.left
        BY <2>1, <2>4, <2>5, <4>2, <4>4, Zenon DEF ParkInv, Unseen
      <4> QED
        BY <2>2, <4>5, Zenon DEF Unseen
    <3>2. CASE inlineRun[w] # scan.seq
      <4>1. inlineRun' = inlineRun
        BY <1>7, <3>2, Zenon DEF DogSwap, HandOffSwap
      <4>2. Busy(g)
        BY <2>1, <2>5, <4>1, Zenon DEF Busy, Owns
      <4>3. g[1] \in scan.left
        BY <2>1, <2>4, <2>5, <3>2, <4>2, SMTT(30) DEF ParkInv, Unseen
      <4> QED
        BY <2>2, <4>3, Zenon DEF Unseen
    <3> QED
      BY <3>1, <3>2, Zenon
  <2> QED
    BY <2>1, <2>2, <2>3, <2>5, Zenon DEF ParkInv
<1>8. ASSUME NEW w \in Workers, DogSpawn(w)
      PROVE  ParkInv'
  <2>1. UNCHANGED <<inlineRun, workers, parked, wake>> /\ wd = "spawn" /\ wd' = "scan"
    BY <1>8, Zenon DEF DogSpawn
  <2>2. scan'.why = scan.why /\ scan'.left = scan.left /\ scan'.busy = scan.busy
    BY <1>8, DogSpawnEffect, Zenon
  <2>3. Asked' <=> Asked
    BY <2>1, <2>2, Zenon DEF Asked
  <2>4. \A g \in Loopers : Busy(g)' => Busy(g)
    <3>1. PICK k \in Loopers : lp'[k].at = "top" /\ \A h \in Loopers : h # k => lp'[h] = lp[h]
      BY <1>8, DogSpawnEffect, Zenon
    <3> QED
      BY <2>1, <3>1, Zenon DEF Busy, Owns
  <2>5. ASSUME Asked, ~wake, ~scan.busy, NEW g \in Loopers, Busy(g)'
        PROVE  Unseen(g[1])'
    <3>1. g[1] \in scan.left
      BY <2>1, <2>4, <2>5, Zenon DEF ParkInv, Unseen
    <3> QED
      BY <2>1, <2>2, <3>1, Zenon DEF Unseen
  <2> QED
    BY <2>1, <2>2, <2>3, <2>5, Zenon DEF ParkInv
<1> QED
  BY <1>2, <1>3, <1>4, <1>5, <1>6, <1>7, <1>8, Zenon DEF DogStep

--------------------------------------------------------------------------------
(* The theorems.                                                                *)

\* The whole invariant, which every step keeps.
HandoffInv == TypeInv /\ OwnInv /\ ParkInv

\* runInlineQueue, handOff, leaveInline, park: no step breaks it.
THEOREM HandoffInductive ==
  Spec => []HandoffInv
<1>1. Init => HandoffInv
  <2> SUFFICES ASSUME Init PROVE HandoffInv
    BY Zenon
  <2>1. ParkInv
    BY Zenon DEF Init, NoScan, ParkInv, Asked
  <2> QED
    BY <2>1, InitTypes, InitOwn, Zenon DEF HandoffInv
<1>2. HandoffInv /\ [Next]_vars => HandoffInv'
  <2> SUFFICES ASSUME HandoffInv, [Next]_vars PROVE HandoffInv'
    BY Zenon
  <2>1. TypeInv' /\ OwnInv'
    BY OwnStep, Zenon DEF HandoffInv
  <2>2. CASE DogStep
    BY <2>1, <2>2, ParkDog, Zenon DEF HandoffInv
  <2>3. ASSUME NEW g \in Loopers,
               \/ LoopStep(g) \/ HandlerStep(g) \/ WaitReady(g) \/ CloseLoop(g)
               \/ \E r \in Routes : QueueInline(g, r)
        PROVE  ParkInv'
    BY <2>1, <2>3, ParkLoop, Zenon DEF HandoffInv
  <2>4. CASE UNCHANGED vars
    <3>1. UNCHANGED <<wd, scan, parked, wake, lp, inlineRun>>
      BY <2>4, Zenon DEF vars, worker, dog
    <3>2. \A g \in Loopers : Busy(g)' => Busy(g) /\ inlineRun'[g[1]] = inlineRun[g[1]]
      BY <3>1, Zenon DEF Busy, Owns
    <3> QED
      BY <2>1, <3>1, <3>2, ParkKept, Zenon DEF HandoffInv
  <2> QED
    BY <2>1, <2>2, <2>3, <2>4, Zenon DEF HandoffInv, Next
<1> QED
  BY <1>1, <1>2, PTL DEF Spec

\* The types of the worker's inline state, of the loop goroutines and of the watchdog.
THEOREM TypeCorrect ==
  Spec => []TypeOK
<1>1. HandoffInv => TypeOK
  BY Zenon DEF HandoffInv, TypeInv
<1> QED
  BY <1>1, HandoffInductive, PTL

\* handOff, runInlineQueue: a worker's unsynchronised state is never used by two loop
\* goroutines, nor while a successor is being started, for any number of workers and
\* handler runs and whenever the watchdog, leaveInline or a Goexit interferes.
THEOREM LoopHasOneOwner ==
  Spec => []OneOwner
<1>1. HandoffInv => OneOwner
  <2> SUFFICES ASSUME HandoffInv PROVE OneOwner
    BY Zenon
  <2>1. \A g, h \in Loopers : g[1] = h[1] /\ Owns(g) /\ Owns(h) => g = h
    BY Zenon DEF HandoffInv, OwnInv, HolderInv, Holds
  <2>2. ASSUME NEW g \in Loopers, Owns(g) PROVE ~HandingOff(g[1])
    <3>1. ~DogHolds(g[1])
      BY <2>2, Zenon DEF HandoffInv, OwnInv, HolderInv, Holds
    <3>2. ASSUME NEW h \in Loopers, h[1] = g[1] PROVE lp[h].at # "spawn"
      BY <2>2, <3>2 DEF HandoffInv, OwnInv, HolderInv, Holds, Owns
    <3> QED
      BY <3>1, <3>2, Zenon DEF HandingOff, DogHolds
  <2> QED
    BY <2>1, <2>2, Zenon DEF OneOwner
<1> QED
  BY <1>1, HandoffInductive, PTL

\* handOff, endInlineHandler, closeLoop: until its loop is closed, a worker has an owner
\* or a successor on its way.
THEOREM LoopNeverOrphaned ==
  Spec => []NeverOrphaned
<1>1. HandoffInv => NeverOrphaned
  BY ZenonT(60) DEF HandoffInv, OwnInv, HolderInv, Holds, DogHolds, HandingOff, NeverOrphaned
<1> QED
  BY <1>1, HandoffInductive, PTL

\* handOff reads inlineRoute after its compare-and-swap: the route it demotes is that of
\* the handler it took the loop from, whoever runs handOff.
THEOREM StalledRouteIsDemoted ==
  Spec => []DemotesTheStalledRoute
<1>1. HandoffInv => DemotesTheStalledRoute
  <2> SUFFICES ASSUME HandoffInv, NEW g \in Loopers,
                      \/ lp[g].at = "spawn"
                      \/ wd = "spawn" /\ g[1] \in scan.hand /\ lp[g].seq = scan.seq
               PROVE  inlineRoute[g[1]] = lp[g].route
    BY Zenon DEF DemotesTheStalledRoute
  <2>1. CASE lp[g].at = "spawn"
    BY <2>1, Zenon DEF HandoffInv, OwnInv, RunInv, Holds, Running
  <2>2. CASE wd = "spawn" /\ g[1] \in scan.hand /\ lp[g].seq = scan.seq
    <3>1. g[1] \in Workers /\ DogHolds(g[1])
      BY <2>2, LooperParts, Zenon DEF DogHolds
    <3> QED
      BY <2>2, <3>1, ZenonT(60) DEF HandoffInv, OwnInv, DogInv
  <2> QED
    BY <2>1, <2>2, Zenon
<1> QED
  BY <1>1, HandoffInductive, PTL

\* park against runInlineQueue: the watchdog never sleeps, with no token in its channel,
\* while a handler runs inline that it should be watching.
THEOREM DogNeverMissesARun ==
  Spec => []DogSleepsOnlyWhenIdle
<1>1. HandoffInv => DogSleepsOnlyWhenIdle
  <2> SUFFICES ASSUME HandoffInv, wd = "sleep", ~wake, NEW g \in Loopers, lp[g].at \in {"handler", "swap"}
               PROVE  ~Owns(g)
    BY Zenon DEF DogSleepsOnlyWhenIdle
  <2>1. Asked /\ ~scan.busy /\ ~Unseen(g[1])
    BY Zenon DEF HandoffInv, ParkInv, Asked, Unseen
  <2> QED
    BY <2>1, Zenon DEF HandoffInv, ParkInv, Busy
<1> QED
  BY <1>1, HandoffInductive, PTL

\* handOff, park: the types, the demoted route and the watchdog's sleep together, as the
\* model checker checks them.
THEOREM HandoffIsSound ==
  Spec => []HandoffSound
<1>1. TypeOK /\ DemotesTheStalledRoute /\ DogSleepsOnlyWhenIdle => HandoffSound
  BY Zenon DEF HandoffSound
<1> QED
  BY <1>1, TypeCorrect, StalledRouteIsDemoted, DogNeverMissesARun, PTL

================================================================================
