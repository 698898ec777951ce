------------------------------- MODULE EpollLoop -------------------------------
(* The event loop of one epoll worker and the goroutines that hand it work      *)
(* (src/core/epoll_backend_linux_amd64.go).                                     *)
(*                                                                              *)
(* A worker blocks in epoll_wait.  Handler goroutines give it work in three     *)
(* ways: a task on the bounded channel taskCh (postTask), the completion of a   *)
(* dispatch on a lock-free stack (pushH1Done, pushH2Done), and a late wake      *)
(* (pushTakeoverUnpin and the WebSocket wakes).  Each of them publishes the     *)
(* work, raises taskPending, and writes the eventfd only when it reads parked.  *)
(* The loop raises parked, reads taskPending, and blocks only if it was down.   *)
(* Every load and store of an atomic is a step of its own here.                 *)
EXTENDS Naturals, Sequences

CONSTANTS
    Conns,        \* connections whose requests are dispatched to goroutines
    H2Conns,      \* those of them whose completions go on the h2Done stack
    Goroutines,   \* handler goroutines (and the closers of taken-over sockets)
    QueueSize,    \* epollTaskQueueSize, the capacity of taskCh
    Rounds,       \* epollDispatchRounds, drains per pass of the loop
    MaxTasks,     \* bound: tasks one dispatch posts
    Nobody        \* the connection of a goroutine that runs no handler

ASSUME LoopAssumption ==
    /\ H2Conns \subseteq Conns
    /\ Nobody \notin Conns
    /\ QueueSize \in Nat \ {0}
    /\ Rounds \in Nat \ {0}
    /\ MaxTasks \in Nat

VARIABLES
    taskCh,       \* epollWorker.taskCh: for each task, the connection it is for
    h1Done,       \* epollWorker.h1Done, the newest completion first
    h2Done,       \* epollWorker.h2Done
    late,         \* epollWorker.takeoverUnpins and wsWake: the pushers' names
    taskPending,  \* epollWorker.taskPending
    parked,       \* epollWorker.parked
    wakeFd,       \* the eventfd's counter is not zero
    status,       \* of a connection: no request, handler running, completion pushed
    posted,       \* tasks the current dispatch of a connection has posted
    gr,           \* what each goroutine is doing, and for which connection
    pc,           \* where the loop is
    blocking,     \* waitMs # 0 in waitEvents
    tasksPending, \* loop's local: the eventfd was among the events
    round,        \* loop's local, 0 outside the dispatch rounds
    spawned,      \* epollWorker.spawned # 0: handlers were started since the last yield
    h1Batch,      \* drainTasks' local done
    h2Batch       \* drainTasks' local h2Done

queues == <<taskCh, h1Done, h2Done, late>>
flags  == <<taskPending, parked, wakeFd>>
work   == <<status, posted, gr>>
locals == <<pc, blocking, tasksPending, round, spawned, h1Batch, h2Batch>>
vars   == <<queues, flags, work, locals>>

Elements(q) == {q[i] : i \in DOMAIN q}

H1Conns == Conns \ H2Conns

\* Work no drain has taken yet.
WorkQueued == taskCh # <<>> \/ h1Done # <<>> \/ h2Done # <<>> \/ late # {}

LoopSteps == {"top", "check", "wait", "unpark", "events", "rounds", "swap1",
              "swap2", "drain", "finish", "late", "tail"}

\* "run": in the handler; "pend": work published, taskPending not yet raised;
\* "test": about to read parked; "wake": about to write the eventfd.
GoSteps == {"idle", "run", "pend", "test", "wake"}

\* taskCh never holds more than its capacity, and each stack only connections of
\* its own protocol (postTask, pushH1Done, pushH2Done).
TypeOK ==
    /\ taskCh \in Seq(Conns) /\ Len(taskCh) <= QueueSize
    /\ h1Done \in Seq(H1Conns) /\ h2Done \in Seq(H2Conns)
    /\ late \subseteq Goroutines
    /\ taskPending \in BOOLEAN /\ parked \in BOOLEAN /\ wakeFd \in BOOLEAN
    /\ status \in [Conns -> {"idle", "running", "ended"}]
    /\ posted \in [Conns -> 0..MaxTasks]
    /\ gr \in [Goroutines -> [at : GoSteps, conn : Conns \cup {Nobody}]]
    /\ pc \in LoopSteps
    /\ blocking \in BOOLEAN /\ tasksPending \in BOOLEAN /\ spawned \in BOOLEAN
    /\ round \in 0..Rounds
    /\ h1Batch \in Seq(H1Conns) /\ h2Batch \in Seq(H2Conns)

Init ==
    /\ taskCh = <<>> /\ h1Done = <<>> /\ h2Done = <<>> /\ late = {}
    /\ taskPending = FALSE /\ parked = FALSE /\ wakeFd = FALSE
    /\ status = [c \in Conns |-> "idle"]
    /\ posted = [c \in Conns |-> 0]
    /\ gr = [g \in Goroutines |-> [at |-> "idle", conn |-> Nobody]]
    /\ pc = "top" /\ blocking = FALSE /\ tasksPending = FALSE /\ round = 0 /\ spawned = FALSE
    /\ h1Batch = <<>> /\ h2Batch = <<>>

--------------------------------------------------------------------------------
(* Handler goroutines.                                                          *)

\* The step of goroutine g, keeping its connection.
GoTo(g, step) == gr' = [gr EXCEPT ![g].at = step]

\* Mutant: a send that does not wait for room in the channel.
PostTaskUnbounded(g) ==
    /\ gr[g].at = "run"
    /\ posted[gr[g].conn] < MaxTasks
    /\ taskCh' = Append(taskCh, gr[g].conn)
    /\ posted' = [posted EXCEPT ![gr[g].conn] = @ + 1]
    /\ GoTo(g, "pend")
    /\ UNCHANGED <<h1Done, h2Done, late, flags, status, locals>>

\* postTask: the send on taskCh, which blocks while the channel is full.
PostTask(g) ==
    /\ gr[g].at = "run"
    /\ posted[gr[g].conn] < MaxTasks
    /\ Len(taskCh) < QueueSize
    /\ taskCh' = Append(taskCh, gr[g].conn)
    /\ posted' = [posted EXCEPT ![gr[g].conn] = @ + 1]
    /\ GoTo(g, "pend")
    /\ UNCHANGED <<h1Done, h2Done, late, flags, status, locals>>

\* pushH1Done: the compare-and-swap that links the connection into h1Done.
PushH1Done(g) ==
    /\ gr[g].at = "run"
    /\ gr[g].conn \in H1Conns
    /\ h1Done' = <<gr[g].conn>> \o h1Done
    /\ status' = [status EXCEPT ![gr[g].conn] = "ended"]
    /\ posted' = [posted EXCEPT ![gr[g].conn] = 0]
    /\ gr' = [gr EXCEPT ![g] = [at |-> "pend", conn |-> Nobody]]
    /\ UNCHANGED <<taskCh, h2Done, late, flags, locals>>

\* pushH2Done, the same for a stream of an HTTP/2 connection.
PushH2Done(g) ==
    /\ gr[g].at = "run"
    /\ gr[g].conn \in H2Conns
    /\ h2Done' = <<gr[g].conn>> \o h2Done
    /\ status' = [status EXCEPT ![gr[g].conn] = "ended"]
    /\ posted' = [posted EXCEPT ![gr[g].conn] = 0]
    /\ gr' = [gr EXCEPT ![g] = [at |-> "pend", conn |-> Nobody]]
    /\ UNCHANGED <<taskCh, h1Done, late, flags, locals>>

\* Mutant: the push forgets taskPending.Store(true).
PushLateUnflagged(g) ==
    /\ gr[g].at = "idle"
    /\ late' = late \cup {g}
    /\ GoTo(g, "test")
    /\ UNCHANGED <<taskCh, h1Done, h2Done, flags, status, posted, locals>>

\* pushTakeoverUnpin and pushWSWake: the close of a taken-over socket, or a
\* WebSocket write, asks the loop for service.
PushLate(g) ==
    /\ gr[g].at = "idle"
    /\ late' = late \cup {g}
    /\ GoTo(g, "pend")
    /\ UNCHANGED <<taskCh, h1Done, h2Done, flags, status, posted, locals>>

\* What follows a publication in all four: taskPending.Store(true) ...
RaisePending(g) ==
    /\ gr[g].at = "pend"
    /\ taskPending' = TRUE
    /\ GoTo(g, "test")
    /\ UNCHANGED <<queues, parked, wakeFd, status, posted, locals>>

\* Back to the handler after a postTask, done after a push.
Resume(g) == IF gr[g].conn = Nobody THEN "idle" ELSE "run"

\* ... then the read of parked, which decides whether to wake the loop ...
TestParked(g) ==
    /\ gr[g].at = "test"
    /\ GoTo(g, IF parked THEN "wake" ELSE Resume(g))
    /\ UNCHANGED <<queues, flags, status, posted, locals>>

\* ... and the write of the eventfd.
WriteWake(g) ==
    /\ gr[g].at = "wake"
    /\ wakeFd' = TRUE
    /\ GoTo(g, Resume(g))
    /\ UNCHANGED <<queues, taskPending, parked, status, posted, locals>>

GoroutineStep(g) ==
    \/ PostTask(g) \/ PushH1Done(g) \/ PushH2Done(g)
    \/ RaisePending(g) \/ TestParked(g) \/ WriteWake(g)

--------------------------------------------------------------------------------
(* The loop.                                                                    *)

\* The rest of the loop's locals keep their values when only pc moves.
Goto(step) ==
    /\ pc' = step
    /\ UNCHANGED <<blocking, tasksPending, round, spawned, h1Batch, h2Batch>>

\* waitEvents: parked.Store(true).
Park ==
    /\ pc = "top"
    /\ parked' = TRUE
    /\ Goto("check")
    /\ UNCHANGED <<queues, taskPending, wakeFd, work>>

\* Mutant: waitEvents does not look at taskPending again once it is parked.
CheckNothing ==
    /\ pc = "check"
    /\ blocking' = TRUE
    /\ pc' = "wait"
    /\ UNCHANGED <<queues, flags, work, tasksPending, round, spawned, h1Batch, h2Batch>>

\* waitEvents: the read of taskPending that turns the wait into a poll.
CheckPending ==
    /\ pc = "check"
    /\ blocking' = ~taskPending
    /\ pc' = "wait"
    /\ UNCHANGED <<queues, flags, work, tasksPending, round, spawned, h1Batch, h2Batch>>

\* EpollWait returns because of the eventfd, or at once when it polls.
EpollReturn ==
    /\ pc = "wait"
    /\ wakeFd \/ ~blocking
    /\ tasksPending' = wakeFd
    /\ pc' = "unpark"
    /\ UNCHANGED <<queues, flags, work, blocking, round, spawned, h1Batch, h2Batch>>

\* EpollWait returns for a socket or because the sweep interval is over.
EpollOther ==
    /\ pc = "wait"
    /\ blocking /\ ~wakeFd
    /\ tasksPending' = FALSE
    /\ pc' = "unpark"
    /\ UNCHANGED <<queues, flags, work, blocking, round, spawned, h1Batch, h2Batch>>

\* waitEvents: parked.Store(false).
Unpark ==
    /\ pc = "unpark"
    /\ parked' = FALSE
    /\ blocking' = FALSE
    /\ pc' = "events"
    /\ UNCHANGED <<queues, taskPending, wakeFd, work, tasksPending, round, spawned, h1Batch, h2Batch>>

\* A request of c is handed to a goroutine of the pool: when c's socket is
\* served, when a task or a completion of the drain resumes c, or when the
\* flush at the end of the pass does.
Dispatch(c, g) ==
    /\ pc \in {"events", "drain", "finish", "tail"}
    /\ status[c] = "idle" /\ gr[g].at = "idle"
    /\ status' = [status EXCEPT ![c] = "running"]
    /\ gr' = [gr EXCEPT ![g] = [at |-> "run", conn |-> c]]
    /\ spawned' = TRUE
    /\ UNCHANGED <<queues, flags, posted, pc, blocking, tasksPending, round, h1Batch, h2Batch>>

\* The end of the events: the eventfd is read if it was among them.
ReadWake ==
    /\ pc = "events"
    /\ wakeFd' = (wakeFd /\ ~tasksPending)
    /\ Goto("rounds")
    /\ UNCHANGED <<queues, taskPending, parked, work>>

\* What keeps the dispatch rounds going.
RoundDue == round < Rounds /\ (tasksPending \/ spawned \/ taskPending)

\* A dispatch round: the yield to the handlers just started, then, when
\* taskPending is up, drainTasks, which begins by lowering it.
Round ==
    /\ pc = "rounds"
    /\ RoundDue
    /\ round' = round + 1
    /\ tasksPending' = FALSE
    /\ spawned' = FALSE
    /\ taskPending' = FALSE
    /\ pc' = IF taskPending THEN "swap1" ELSE "rounds"
    /\ UNCHANGED <<queues, parked, wakeFd, work, blocking, h1Batch, h2Batch>>

EndRounds ==
    /\ pc = "rounds"
    /\ ~RoundDue
    /\ round' = 0
    /\ tasksPending' = FALSE
    /\ pc' = "tail"
    /\ UNCHANGED <<queues, flags, work, blocking, spawned, h1Batch, h2Batch>>

\* Mutant: drainTasks loads the stack and does not clear it.
LoadH1Done ==
    /\ pc = "swap1"
    /\ h1Batch' = h1Done
    /\ pc' = "swap2"
    /\ UNCHANGED <<queues, flags, work, blocking, tasksPending, round, spawned, h2Batch>>

\* drainTasks: done := h1Done.Swap(nil).
SwapH1Done ==
    /\ pc = "swap1"
    /\ h1Batch' = h1Done
    /\ h1Done' = <<>>
    /\ pc' = "swap2"
    /\ UNCHANGED <<taskCh, h2Done, late, flags, work, blocking, tasksPending, round, spawned, h2Batch>>

\* Mutant: taskPending is lowered after the swaps.
SwapThenLower ==
    /\ pc = "swap2"
    /\ h2Batch' = h2Done
    /\ h2Done' = <<>>
    /\ taskPending' = FALSE
    /\ pc' = "drain"
    /\ UNCHANGED <<taskCh, h1Done, late, parked, wakeFd, work, blocking, tasksPending, round, spawned, h1Batch>>

\* drainTasks: h2Done := h2Done.Swap(nil).
SwapH2Done ==
    /\ pc = "swap2"
    /\ h2Batch' = h2Done
    /\ h2Done' = <<>>
    /\ pc' = "drain"
    /\ UNCHANGED <<taskCh, h1Done, late, flags, work, blocking, tasksPending, round, spawned, h1Batch>>

\* drainTasks: one task is received and run ...
RunTask ==
    /\ pc = "drain"
    /\ taskCh # <<>>
    /\ taskCh' = Tail(taskCh)
    /\ UNCHANGED <<h1Done, h2Done, late, flags, work, locals>>

\* ... until the channel is empty.
TasksDrained ==
    /\ pc = "drain"
    /\ taskCh = <<>>
    /\ Goto("finish")
    /\ UNCHANGED <<queues, flags, work>>

\* finishH1Done reverses the stack: the oldest completion is finished first.
\* The connection, and the objects its tasks refer to, are free afterwards.
FinishH1 ==
    /\ pc = "finish"
    /\ h1Batch # <<>>
    /\ status' = [status EXCEPT ![h1Batch[Len(h1Batch)]] = "idle"]
    /\ h1Batch' = SubSeq(h1Batch, 1, Len(h1Batch) - 1)
    /\ UNCHANGED <<queues, flags, posted, gr, pc, blocking, tasksPending, round, spawned, h2Batch>>

\* finishH2Done, after all of finishH1Done.
FinishH2 ==
    /\ pc = "finish"
    /\ h1Batch = <<>> /\ h2Batch # <<>>
    /\ status' = [status EXCEPT ![h2Batch[Len(h2Batch)]] = "idle"]
    /\ h2Batch' = SubSeq(h2Batch, 1, Len(h2Batch) - 1)
    /\ UNCHANGED <<queues, flags, posted, gr, pc, blocking, tasksPending, round, spawned, h1Batch>>

\* Mutant: completions that arrived meanwhile are finished in the same drain.
FinishNewOnes ==
    /\ pc = "finish"
    /\ h1Batch = <<>> /\ h2Batch = <<>>
    /\ h1Batch' = h1Done
    /\ h1Done' = <<>>
    /\ pc' = IF h1Done = <<>> THEN "late" ELSE "finish"
    /\ UNCHANGED <<taskCh, h2Done, late, flags, work, blocking, tasksPending, round, spawned, h2Batch>>

AllFinished ==
    /\ pc = "finish"
    /\ h1Batch = <<>> /\ h2Batch = <<>>
    /\ Goto("late")
    /\ UNCHANGED <<queues, flags, work>>

\* runTakeoverUnpins and runWSWakes.
RunLate ==
    /\ pc = "late"
    /\ late' = {}
    /\ Goto("rounds")
    /\ UNCHANGED <<taskCh, h1Done, h2Done, flags, work>>

\* flushPending, acceptLoop and sweepDeadlines, then the next pass.
Tail_ ==
    /\ pc = "tail"
    /\ Goto("top")
    /\ UNCHANGED <<queues, flags, work>>

\* The steps the loop takes by itself, without a socket or a timeout.
LoopStep ==
    \/ Park \/ CheckPending \/ EpollReturn \/ Unpark \/ ReadWake
    \/ Round \/ EndRounds \/ SwapH1Done \/ SwapH2Done \/ RunTask \/ TasksDrained
    \/ FinishH1 \/ FinishH2 \/ AllFinished \/ RunLate \/ Tail_

Next ==
    \/ LoopStep
    \/ EpollOther
    \/ \E c \in Conns, g \in Goroutines : Dispatch(c, g)
    \/ \E g \in Goroutines : GoroutineStep(g) \/ PushLate(g)

Spec == Init /\ [][Next]_vars

(* The scheduler runs the loop and every goroutine that is not blocked; nothing *)
(* is assumed of sockets and timeouts, so no progress below relies on them.     *)
Fairness ==
    /\ WF_vars(LoopStep)
    /\ \A g \in Goroutines :
          WF_vars(RaisePending(g) \/ TestParked(g) \/ WriteWake(g))

FairSpec == Spec /\ Fairness

--------------------------------------------------------------------------------
(* Properties.                                                                  *)

\* postTask, pushH1Done, waitEvents: a loop blocked in epoll_wait with work
\* queued is about to be woken.  The eventfd is readable, or a goroutine has
\* still to raise taskPending, read parked or write the eventfd.
NoLostWakeup ==
    (pc = "wait" /\ blocking /\ ~wakeFd /\ WorkQueued)
        => \E g \in Goroutines : gr[g].at \in {"pend", "test", "wake"}

\* drainTasks swaps the completion stacks before it empties taskCh, so the tasks
\* a handler posted have all run when its completion is finished and the stream
\* writer they refer to goes back to its pool.
TasksBeforeFinish ==
    pc = "finish" =>
        Elements(h1Batch \o h2Batch) \cap Elements(taskCh) = {}

\* A completion is somewhere on its way to finishH1Done or finishH2Done exactly
\* once: it is neither lost between the stacks nor finished twice.
CompletionHeldOnce ==
    LET held == h1Done \o h2Done \o h1Batch \o h2Batch
    IN  /\ \A i, j \in DOMAIN held : held[i] = held[j] => i = j
        /\ \A c \in Conns : status[c] = "ended" <=> c \in Elements(held)

\* pushH1Done, drainTasks: the queues keep their types and bounds, and no
\* completion is lost or finished twice.
LoopSound == TypeOK /\ CompletionHeldOnce

\* Every completion is finished, without the help of a socket or the sweep
\* timeout: the wake-up protocol alone brings the loop to drainTasks.
CompletionsFinish ==
    \A c \in Conns : status[c] = "ended" ~> status[c] = "idle"

\* A late wake is served as well, although drainTasks looks for it only after
\* the completions.
LateServed == \A g \in Goroutines : g \in late ~> g \notin late

================================================================================
