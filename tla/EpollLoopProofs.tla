---------------------------- MODULE EpollLoopProofs ----------------------------
(* Proofs about EpollLoop, for any connections, goroutines, queue size and       *)
(* number of dispatch rounds.                                                    *)
EXTENDS EpollLoop, SequenceTheorems, TLAPS

\* A goroutine in a handler runs it for a connection.
RunsForConn == \A g \in Goroutines : gr[g].at = "run" => gr[g].conn \in Conns

TypeInv == TypeOK /\ RunsForConn

\* A goroutine has published work and has still to raise taskPending.
Publishing == \E g \in Goroutines : gr[g].at = "pend"

\* Work is flagged, about to be flagged, or about to be taken by the drain that
\* lowered the flag; each queue is safe until the step of drainTasks that empties it.
Flagged == taskPending \/ Publishing
WorkFlagged ==
    /\ h1Done # <<>> => Flagged \/ pc = "swap1"
    /\ h2Done # <<>> => Flagged \/ pc \in {"swap1", "swap2"}
    /\ taskCh # <<>> => Flagged \/ pc \in {"swap1", "swap2", "drain"}
    /\ late # {} => Flagged \/ pc \in {"swap1", "swap2", "drain", "finish", "late"}

\* The loop is in epoll_wait or next to it only while parked is up, and a flag
\* raised after it was read has a goroutine that will see parked.
ParkedInv ==
    /\ pc \in {"check", "wait"} => parked
    /\ pc = "wait" /\ blocking /\ taskPending /\ ~wakeFd =>
          \E g \in Goroutines : gr[g].at \in {"test", "wake"}

WakeInv == TypeInv /\ WorkFlagged /\ ParkedInv

--------------------------------------------------------------------------------
(* Sequences.                                                                   *)

\* Putting an element in front of a sequence (the push on a stack).
LEMMA PushType ==
  ASSUME NEW S, NEW s \in Seq(S), NEW e \in S
  PROVE  <<e>> \o s \in Seq(S)
  OBVIOUS

\* Taking the last element off (the oldest completion).
LEMMA DropLastType ==
  ASSUME NEW S, NEW s \in Seq(S), s # <<>>
  PROVE  /\ SubSeq(s, 1, Len(s) - 1) \in Seq(S)
         /\ Len(SubSeq(s, 1, Len(s) - 1)) = Len(s) - 1
         /\ \A i \in 1..(Len(s) - 1) : SubSeq(s, 1, Len(s) - 1)[i] = s[i]
         /\ Len(s) \in Nat \ {0}
         /\ s[Len(s)] \in S
<1>1. Len(s) \in Nat \ {0} /\ s[Len(s)] \in S
  OBVIOUS
<1> DEFINE n == Len(s) - 1
<1>2. n \in Nat /\ \A i \in 1..n : s[i] \in S
  BY <1>1
<1>3. /\ SubSeq(s, 1, n) \in Seq(S)
      /\ Len(SubSeq(s, 1, n)) = n
      /\ \A i \in 1..n : SubSeq(s, 1, n)[i] = s[i]
  <2> HIDE DEF n
  <2>1. /\ SubSeq(s, 1, n) \in Seq(S)
        /\ Len(SubSeq(s, 1, n)) = IF 1 <= n THEN n - 1 + 1 ELSE 0
        /\ \A i \in 1..(n - 1 + 1) : SubSeq(s, 1, n)[i] = s[1 + i - 1]
    BY <1>2, SubSeqProperties
  <2> DEFINE t == SubSeq(s, 1, n)
  <2>2. t \in Seq(S) /\ Len(t) = n
    <3> HIDE DEF t
    <3> QED BY <1>2, <2>1 DEF t
  <2>3. n - 1 + 1 = n /\ \A i \in 1..n : 1 + i - 1 = i
    BY <1>2
  <2>4. \A i \in 1..n : t[i] = s[i]
    BY <2>1, <2>3, ZenonT(60)
  <2> QED
    BY <2>2, <2>4, Zenon
<1> QED
  BY <1>1, <1>3, Zenon

--------------------------------------------------------------------------------
(* Types.                                                                       *)

\* The steps of goroutines preserve the types.
LEMMA GoroutineType ==
  ASSUME TypeInv, NEW g \in Goroutines, GoroutineStep(g) \/ PushLate(g)
  PROVE  TypeInv'
<1> USE LoopAssumption DEF TypeInv, TypeOK, RunsForConn, GoSteps, LoopSteps,
        H1Conns, queues, flags, work, locals, GoTo
<1>1. CASE PostTask(g)
  <2>1. gr[g].conn \in Conns
    BY <1>1, Zenon DEF PostTask
  <2>2. taskCh' \in Seq(Conns) /\ Len(taskCh') <= QueueSize
    BY <1>1, <2>1 DEF PostTask
  <2>3. posted' \in [Conns -> 0..MaxTasks]
    BY <1>1, <2>1, SMTT(120) DEF PostTask
  <2> QED
    BY <1>1, <2>2, <2>3, ZenonT(240) DEF PostTask
<1>2. CASE PushH1Done(g)
  <2>1. h1Done' \in Seq(H1Conns)
    BY <1>2, PushType, Zenon DEF PushH1Done
  <2> QED
    BY <1>2, <2>1, SMTT(30) DEF PushH1Done
<1>3. CASE PushH2Done(g)
  <2>1. h2Done' \in Seq(H2Conns)
    BY <1>3, PushType, Zenon DEF PushH2Done
  <2> QED
    BY <1>3, <2>1, SMTT(30) DEF PushH2Done
<1>4. CASE RaisePending(g)
  BY <1>4, SMTT(30) DEF RaisePending
<1>5. CASE TestParked(g)
  BY <1>5, ZenonT(120) DEF TestParked, Resume
<1>6. CASE WriteWake(g)
  <2>1. gr' \in [Goroutines -> [at : GoSteps, conn : Conns \cup {Nobody}]]
    BY <1>6, ZenonT(240) DEF WriteWake, Resume
  <2>2. RunsForConn'
    BY <1>6, SMTT(30) DEF WriteWake, Resume
  <2> QED
    BY <1>6, <2>1, <2>2, SMTT(60) DEF WriteWake
<1>7. CASE PushLate(g)
  BY <1>7, SMTT(30) DEF PushLate
<1> QED
  BY <1>1, <1>2, <1>3, <1>4, <1>5, <1>6, <1>7, Zenon DEF GoroutineStep

\* The steps of the loop preserve the types.
LEMMA LoopType ==
  ASSUME TypeInv, LoopStep \/ EpollOther PROVE TypeInv'
<1> USE LoopAssumption DEF TypeInv, TypeOK, RunsForConn, GoSteps, LoopSteps,
        H1Conns, queues, flags, work, locals, Goto
<1>1. CASE Park
  BY <1>1, Zenon DEF Park
<1>2. CASE CheckPending
  BY <1>2, Zenon DEF CheckPending
<1>3. CASE EpollReturn
  BY <1>3, Zenon DEF EpollReturn
<1>4. CASE EpollOther
  BY <1>4, Zenon DEF EpollOther
<1>5. CASE Unpark
  BY <1>5, Zenon DEF Unpark
<1>6. CASE ReadWake
  BY <1>6, Zenon DEF ReadWake
<1>7. CASE Round
  <2>1. round' \in 0..Rounds
    BY <1>7 DEF Round, RoundDue
  <2>2. pc' \in LoopSteps
    BY <1>7, Zenon DEF Round
  <2> QED
    BY <1>7, <2>1, <2>2, Zenon DEF Round
<1>8. CASE EndRounds
  <2>1. round' \in 0..Rounds
    BY <1>8, SMTT(30) DEF EndRounds
  <2> QED
    BY <1>8, <2>1, ZenonT(60) DEF EndRounds
<1>9. CASE SwapH1Done
  BY <1>9, SMTT(30) DEF SwapH1Done
<1>10. CASE SwapH2Done
  BY <1>10, SMTT(30) DEF SwapH2Done
<1>11. CASE RunTask
  BY <1>11, SMTT(30) DEF RunTask
<1>12. CASE TasksDrained
  BY <1>12, ZenonT(60) DEF TasksDrained
<1>13. CASE FinishH1
  <2>1. h1Batch' \in Seq(H1Conns)
    BY <1>13, DropLastType, Zenon DEF FinishH1
  <2> QED
    BY <1>13, <2>1, ZenonT(60) DEF FinishH1
<1>14. CASE FinishH2
  <2>1. h2Batch' \in Seq(H2Conns)
    BY <1>14, DropLastType, Zenon DEF FinishH2
  <2> QED
    BY <1>14, <2>1, ZenonT(60) DEF FinishH2
<1>15. CASE AllFinished
  BY <1>15, Zenon DEF AllFinished
<1>16. CASE RunLate
  BY <1>16, Zenon DEF RunLate
<1>17. CASE Tail_
  BY <1>17, Zenon DEF Tail_
<1> QED
  BY <1>1, <1>2, <1>3, <1>4, <1>5, <1>6, <1>7, <1>8, <1>9, <1>10, <1>11, <1>12,
     <1>13, <1>14, <1>15, <1>16, <1>17, ZenonT(60) DEF LoopStep

\* A dispatch preserves the types.
LEMMA DispatchType ==
  ASSUME TypeInv, NEW c \in Conns, NEW g \in Goroutines, Dispatch(c, g)
  PROVE  TypeInv'
  BY LoopAssumption, SMTT(30) DEF TypeInv, TypeOK, RunsForConn, GoSteps, LoopSteps, H1Conns,
     queues, flags, work, locals, Dispatch

\* The types are an inductive invariant.
LEMMA TypeStep == TypeInv /\ [Next]_vars => TypeInv'
<1> SUFFICES ASSUME TypeInv, [Next]_vars PROVE TypeInv'
  BY Zenon
<1>1. CASE UNCHANGED vars
  BY <1>1, Zenon DEF vars, queues, flags, work, locals, TypeInv, TypeOK, RunsForConn
<1> QED
  BY <1>1, GoroutineType, LoopType, DispatchType, Zenon DEF Next

\* newEpollWorker: everything starts empty and idle.
LEMMA TypeInit == Init => TypeInv
<1> SUFFICES ASSUME Init PROVE TypeInv
  BY Zenon
<1>1. /\ taskCh \in Seq(Conns) /\ Len(taskCh) <= QueueSize
      /\ h1Done \in Seq(H1Conns) /\ h2Done \in Seq(H2Conns)
      /\ h1Batch \in Seq(H1Conns) /\ h2Batch \in Seq(H2Conns)
  BY LoopAssumption DEF Init
<1>2. gr \in [Goroutines -> [at : GoSteps, conn : Conns \cup {Nobody}]] /\ RunsForConn
  BY Zenon DEF Init, RunsForConn, GoSteps
<1>3. posted \in [Conns -> 0..MaxTasks] /\ round \in 0..Rounds
  BY LoopAssumption DEF Init
<1> QED
  BY <1>1, <1>2, <1>3, Zenon DEF Init, TypeInv, TypeOK, LoopSteps

\* postTask, pushH1Done, pushH2Done: taskCh keeps to its capacity and each stack to
\* the completions of its protocol.
THEOREM TypeCorrect == Spec => []TypeOK
<1>1. TypeInv => TypeOK
  BY Zenon DEF TypeInv
<1> QED
  BY <1>1, TypeInit, TypeStep, PTL DEF Spec

--------------------------------------------------------------------------------
(* Wake-ups.                                                                    *)

\* The steps of goroutines keep the work flagged and the loop wakeable.
LEMMA GoroutineWake ==
  ASSUME WakeInv, TypeInv', NEW g \in Goroutines, GoroutineStep(g) \/ PushLate(g)
  PROVE  WakeInv'
<1> USE DEF WakeInv, TypeInv, TypeOK, queues, flags, work, locals, GoTo
<1>p. ASSUME gr[g].at \in {"run", "idle"}, gr'[g].at = "pend",
             UNCHANGED <<flags, locals>>,
             \A h \in Goroutines : h # g => gr'[h] = gr[h]
      PROVE  WakeInv'
  <2>1. Publishing'
    BY <1>p, Zenon DEF Publishing
  <2>2. ASSUME NEW h \in Goroutines, gr[h].at \in {"test", "wake"}
        PROVE  gr'[h].at \in {"test", "wake"}
    BY <1>p, <2>2, Zenon
  <2> QED
    BY <1>p, <2>1, <2>2, Zenon DEF WorkFlagged, Flagged, ParkedInv
<1>1. CASE PostTask(g)
  <2>1. gr'[g].at = "pend" /\ \A h \in Goroutines : h # g => gr'[h] = gr[h]
    BY <1>1 DEF PostTask
  <2> QED
    BY <1>1, <1>p, <2>1, ZenonT(60) DEF PostTask
<1>2. CASE PushH1Done(g)
  <2>1. gr'[g].at = "pend" /\ \A h \in Goroutines : h # g => gr'[h] = gr[h]
    BY <1>2 DEF PushH1Done
  <2> QED
    BY <1>2, <1>p, <2>1, ZenonT(60) DEF PushH1Done
<1>3. CASE PushH2Done(g)
  <2>1. gr'[g].at = "pend" /\ \A h \in Goroutines : h # g => gr'[h] = gr[h]
    BY <1>3 DEF PushH2Done
  <2> QED
    BY <1>3, <1>p, <2>1, ZenonT(60) DEF PushH2Done
<1>4. CASE RaisePending(g)
  <2>1. taskPending' /\ gr'[g].at = "test"
    BY <1>4 DEF RaisePending
  <2> QED
    BY <1>4, <2>1, Zenon DEF RaisePending, WorkFlagged, Flagged, ParkedInv
<1>5. CASE TestParked(g)
  <2>1. /\ Publishing => Publishing'
        /\ \A h \in Goroutines : h # g => gr'[h] = gr[h]
        /\ parked => gr'[g].at = "wake"
    BY <1>5 DEF TestParked, Publishing
  <2>2. WorkFlagged'
    BY <1>5, <2>1, Zenon DEF TestParked, WorkFlagged, Flagged
  <2>3. ParkedInv'
    BY <1>5, <2>1, Zenon DEF TestParked, ParkedInv
  <2> QED
    BY <2>2, <2>3, Zenon
<1>6. CASE WriteWake(g)
  <2>1. Publishing => Publishing'
    BY <1>6, Zenon DEF WriteWake, Publishing
  <2>2. WorkFlagged'
    BY <1>6, <2>1, Zenon DEF WriteWake, WorkFlagged, Flagged
  <2>3. ParkedInv'
    BY <1>6, Zenon DEF WriteWake, ParkedInv
  <2> QED
    BY <2>2, <2>3, Zenon
<1>7. CASE PushLate(g)
  <2>1. gr'[g].at = "pend" /\ \A h \in Goroutines : h # g => gr'[h] = gr[h]
    BY <1>7, SMTT(60) DEF PushLate
  <2> QED
    BY <1>7, <1>p, <2>1, Zenon DEF PushLate
<1> QED
  BY <1>1, <1>2, <1>3, <1>4, <1>5, <1>6, <1>7, Zenon DEF GoroutineStep

\* The steps of the loop do.
LEMMA LoopWake ==
  ASSUME WakeInv, TypeInv', LoopStep \/ EpollOther PROVE WakeInv'
<1> USE DEF WakeInv, WorkFlagged, Flagged, Publishing, ParkedInv,
        queues, flags, work, locals, Goto
<1>1. CASE Park
  BY <1>1, Zenon DEF Park
<1>2. CASE CheckPending
  BY <1>2, ZenonT(60) DEF CheckPending
<1>3. CASE EpollReturn
  BY <1>3, Zenon DEF EpollReturn
<1>4. CASE EpollOther
  BY <1>4, Zenon DEF EpollOther
<1>5. CASE Unpark
  BY <1>5, Zenon DEF Unpark
<1>6. CASE ReadWake
  BY <1>6, Zenon DEF ReadWake
<1>7. CASE Round
  BY <1>7, Zenon DEF Round
<1>8. CASE EndRounds
  BY <1>8, Zenon DEF EndRounds
<1>9. CASE SwapH1Done
  BY <1>9, Zenon DEF SwapH1Done
<1>10. CASE SwapH2Done
  BY <1>10, Zenon DEF SwapH2Done
<1>11. CASE RunTask
  BY <1>11, Zenon DEF RunTask
<1>12. CASE TasksDrained
  BY <1>12, Zenon DEF TasksDrained
<1>13. CASE FinishH1
  BY <1>13, Zenon DEF FinishH1
<1>14. CASE FinishH2
  BY <1>14, Zenon DEF FinishH2
<1>15. CASE AllFinished
  BY <1>15, Zenon DEF AllFinished
<1>16. CASE RunLate
  BY <1>16, Zenon DEF RunLate
<1>17. CASE Tail_
  BY <1>17, Zenon DEF Tail_
<1> QED
  BY <1>1, <1>2, <1>3, <1>4, <1>5, <1>6, <1>7, <1>8, <1>9, <1>10, <1>11, <1>12,
     <1>13, <1>14, <1>15, <1>16, <1>17, ZenonT(60) DEF LoopStep

\* A dispatch takes a goroutine that publishes nothing and wakes nobody.
LEMMA DispatchWake ==
  ASSUME WakeInv, TypeInv', NEW c \in Conns, NEW g \in Goroutines, Dispatch(c, g)
  PROVE  WakeInv'
<1>1. \A h \in Goroutines : gr[h].at \in {"pend", "test", "wake"} => gr'[h] = gr[h]
  BY SMTT(30) DEF Dispatch, WakeInv, TypeInv, TypeOK
<1> QED
  BY <1>1, ZenonT(60) DEF Dispatch, WakeInv, WorkFlagged, Flagged, Publishing, ParkedInv,
     queues, flags, work, locals

\* The invariant of the wake-up protocol is inductive.
LEMMA WakeStep == WakeInv /\ [Next]_vars => WakeInv'
<1> SUFFICES ASSUME WakeInv, [Next]_vars PROVE WakeInv'
  BY Zenon
<1>0. TypeInv'
  BY TypeStep, Zenon DEF WakeInv
<1>1. CASE UNCHANGED vars
  BY <1>0, <1>1, Zenon DEF vars, queues, flags, work, locals, WakeInv, WorkFlagged, Flagged,
     Publishing, ParkedInv
<1> QED
  BY <1>0, <1>1, GoroutineWake, LoopWake, DispatchWake, Zenon DEF Next

\* postTask, pushH1Done, pushH2Done, waitEvents: no wake-up is lost, with any number
\* of goroutines and connections.
THEOREM WakeupsArrive == Spec => []NoLostWakeup
<1>1. Init => WakeInv
  BY TypeInit, Zenon DEF Init, WakeInv, WorkFlagged, ParkedInv
<1>2. WakeInv => NoLostWakeup
  BY Zenon DEF WakeInv, WorkFlagged, Flagged, Publishing, ParkedInv, NoLostWakeup, WorkQueued
<1> QED
  BY <1>1, <1>2, WakeStep, PTL DEF Spec

--------------------------------------------------------------------------------
(* Completions.                                                                 *)

Ended(s) == \A i \in 1..Len(s) : status[s[i]] = "ended"
Distinct(s) == \A i, j \in 1..Len(s) : s[i] = s[j] => i = j
Apart(s, t) == \A i \in 1..Len(s), j \in 1..Len(t) : s[i] # t[j]

\* A connection whose handler runs has one goroutine, and no other has any.
OwnerInv ==
    /\ \A g \in Goroutines : gr[g].conn # Nobody => status[gr[g].conn] = "running"
    /\ \A g, h \in Goroutines : gr[g].conn = gr[h].conn /\ gr[g].conn # Nobody => g = h

\* A completion sits once on a stack or in a batch, of a connection whose handler
\* has ended.
HeldInv ==
    /\ Ended(h1Done) /\ Ended(h2Done) /\ Ended(h1Batch) /\ Ended(h2Batch)
    /\ Distinct(h1Done) /\ Distinct(h2Done) /\ Distinct(h1Batch) /\ Distinct(h2Batch)
    /\ Apart(h1Done, h1Batch) /\ Apart(h2Done, h2Batch)

\* While completions are finished, none of their connections has a task left.
TasksRan == pc = "finish" => Apart(taskCh, h1Batch) /\ Apart(taskCh, h2Batch)

FinishInv == TypeInv /\ OwnerInv /\ HeldInv /\ TasksRan

\* A stack after a push.
LEMMA PushProperties ==
  ASSUME NEW S, NEW s \in Seq(S), NEW e \in S
  PROVE  /\ <<e>> \o s \in Seq(S)
         /\ Len(<<e>> \o s) = Len(s) + 1
         /\ \A i \in 1..(Len(s) + 1) : (<<e>> \o s)[i] = IF i = 1 THEN e ELSE s[i - 1]
         /\ Len(s) \in Nat
  OBVIOUS

\* new is stack, whose completions and those of batch have ended, after the push
\* of e, the only element whose status changes.
Pushed(S, stack, batch, e, stat, stat2, new) ==
    /\ stack \in Seq(S) /\ batch \in Seq(S) /\ e \in S /\ new = <<e>> \o stack
    /\ \A i \in 1..Len(stack) : stat[stack[i]] = "ended"
    /\ \A i \in 1..Len(batch) : stat[batch[i]] = "ended"
    /\ Distinct(stack) /\ Apart(stack, batch)
    /\ stat[e] = "running" /\ stat2[e] = "ended"
    /\ \A d \in S : d # e => stat2[d] = stat[d]

\* What the push leaves true.
StillHeld(new, batch, stat2) ==
    /\ \A i \in 1..Len(new) : stat2[new[i]] = "ended"
    /\ \A i \in 1..Len(batch) : stat2[batch[i]] = "ended"
    /\ Distinct(new) /\ Apart(new, batch)

\* The push of a completion on one of the two stacks.
LEMMA PushHeld ==
  ASSUME NEW S, NEW stack, NEW batch, NEW e, NEW stat, NEW stat2, NEW new,
         Pushed(S, stack, batch, e, stat, stat2, new)
  PROVE  StillHeld(new, batch, stat2)
<1> USE DEF Pushed
<1>1. /\ new \in Seq(S) /\ Len(new) = Len(stack) + 1 /\ Len(stack) \in Nat
      /\ \A i \in 1..Len(new) : new[i] = IF i = 1 THEN e ELSE stack[i - 1]
  BY PushProperties
<1>2. \A i \in 1..Len(stack) : stack[i] \in S /\ stack[i] # e
  OBVIOUS
<1>3. \A i \in 1..Len(batch) : batch[i] \in S /\ batch[i] # e
  BY SMTT(30)
<1>4. \A i \in 1..Len(new) : i = 1 \/ (i - 1 \in 1..Len(stack) /\ new[i] = stack[i - 1])
  BY <1>1
<1>5. \A i \in 1..Len(new) : stat2[new[i]] = "ended"
  <2> SUFFICES ASSUME NEW i \in 1..Len(new) PROVE stat2[new[i]] = "ended"
    BY Zenon
  <2>1. CASE i = 1
    BY <1>1, <2>1, Zenon
  <2>2. CASE i # 1
    <3>1. PICK k \in 1..Len(stack) : new[i] = stack[k]
      BY <1>4, <2>2, Zenon
    <3> QED
      BY <1>2, <3>1, ZenonT(60)
  <2> QED
    BY <2>1, <2>2, Zenon
<1>6. \A i \in 1..Len(batch) : stat2[batch[i]] = "ended"
  BY <1>3, Zenon
<1>7. Distinct(new)
  <2> SUFFICES ASSUME NEW i \in 1..Len(new), NEW j \in 1..Len(new), new[i] = new[j]
               PROVE  i = j
    BY Zenon DEF Distinct
  <2>1. CASE i = 1 /\ j # 1
    BY <1>1, <1>2, <1>4, <2>1, SMTT(30)
  <2>2. CASE i # 1 /\ j = 1
    BY <1>1, <1>2, <1>4, <2>2, SMTT(30)
  <2>3. CASE i # 1 /\ j # 1
    <3>1. i - 1 \in 1..Len(stack) /\ j - 1 \in 1..Len(stack)
      BY <1>4, <2>3, Zenon
    <3>2. stack[i - 1] = stack[j - 1]
      BY <1>4, <2>3, Zenon
    <3>3. i - 1 = j - 1
      BY <3>1, <3>2, ZenonT(60) DEF Distinct
    <3> QED
      BY <1>1, <3>3
  <2> QED
    BY <2>1, <2>2, <2>3, Zenon
<1>8. Apart(new, batch)
  <2> SUFFICES ASSUME NEW i \in 1..Len(new), NEW j \in 1..Len(batch) PROVE new[i] # batch[j]
    BY Zenon DEF Apart
  <2>1. CASE i = 1
    BY <1>1, <1>3, <2>1, Zenon
  <2>2. CASE i # 1
    <3>1. PICK k \in 1..Len(stack) : new[i] = stack[k]
      BY <1>4, <2>2, Zenon
    <3> QED
      BY <3>1, ZenonT(60) DEF Apart
  <2> QED
    BY <2>1, <2>2, Zenon
<1> QED
  BY <1>5, <1>6, <1>7, <1>8, Zenon DEF StillHeld

\* A change of status that leaves every held completion ended keeps the rest.
LEMMA HeldUnchanged ==
  ASSUME HeldInv, UNCHANGED <<h1Done, h2Done, h1Batch, h2Batch>>,
         Ended(h1Done)', Ended(h2Done)', Ended(h1Batch)', Ended(h2Batch)'
  PROVE  HeldInv'
  BY SMTT(60) DEF HeldInv, Distinct, Apart

\* The elements of the sequences are connections.
LEMMA ElementTypes ==
  ASSUME TypeInv
  PROVE  /\ \A i \in 1..Len(h1Done) : h1Done[i] \in H1Conns
         /\ \A i \in 1..Len(h2Done) : h2Done[i] \in H2Conns
         /\ \A i \in 1..Len(h1Batch) : h1Batch[i] \in H1Conns
         /\ \A i \in 1..Len(h2Batch) : h2Batch[i] \in H2Conns
         /\ \A i \in 1..Len(taskCh) : taskCh[i] \in Conns
         /\ H1Conns \subseteq Conns /\ H2Conns \subseteq Conns
         /\ \A c \in H1Conns : c \notin H2Conns
  BY LoopAssumption, SMTT(120) DEF TypeInv, TypeOK, H1Conns

\* Goroutines that only move on change neither owners nor completions.
LEMMA MoveFinish ==
  ASSUME FinishInv, TypeInv', NEW g \in Goroutines, NEW step, GoTo(g, step),
         UNCHANGED <<taskCh, h1Done, h2Done, h1Batch, h2Batch, status, pc>>
  PROVE  FinishInv'
<1>1. \A h \in Goroutines : gr'[h].conn = gr[h].conn
  BY DEF GoTo, FinishInv, TypeInv, TypeOK
<1>2. OwnerInv'
  BY <1>1 DEF OwnerInv, FinishInv
<1>3. HeldInv'
  BY HeldUnchanged, Zenon DEF FinishInv, HeldInv, Ended
<1>4. TasksRan'
  BY SMTT(60) DEF TasksRan, FinishInv, Apart
<1> QED
  BY <1>2, <1>3, <1>4, Zenon DEF FinishInv

\* postTask: the connection's handler runs, so its completion is in no batch.
LEMMA PostFinish ==
  ASSUME FinishInv, TypeInv', NEW g \in Goroutines, PostTask(g) PROVE FinishInv'
<1> DEFINE c == gr[g].conn
<1>1. c \in Conns /\ c # Nobody /\ status[c] = "running"
  BY LoopAssumption, Zenon DEF PostTask, FinishInv, TypeInv, RunsForConn, OwnerInv
<1>2. \A h \in Goroutines : gr'[h].conn = gr[h].conn
  BY SMTT(60) DEF PostTask, GoTo, FinishInv, TypeInv, TypeOK
<1>3. OwnerInv'
  BY <1>2, SMTT(60) DEF OwnerInv, FinishInv, PostTask
<1>4. HeldInv'
  BY HeldUnchanged, Zenon DEF FinishInv, HeldInv, Ended, PostTask, locals
<1>5. TasksRan'
  <2>1. /\ Len(taskCh') = Len(taskCh) + 1 /\ Len(taskCh) \in Nat
        /\ \A i \in 1..Len(taskCh') : taskCh'[i] = c \/ (i \in 1..Len(taskCh) /\ taskCh'[i] = taskCh[i])
    <3>1. taskCh \in Seq(Conns) /\ taskCh' = Append(taskCh, c)
      BY Zenon DEF PostTask, FinishInv, TypeInv, TypeOK
    <3> HIDE DEF c
    <3> QED
      BY <1>1, <3>1
  <2>2. /\ \A i \in 1..Len(h1Batch) : h1Batch[i] # c
        /\ \A i \in 1..Len(h2Batch) : h2Batch[i] # c
    BY <1>1, ZenonT(60) DEF FinishInv, HeldInv, Ended
  <2>3. UNCHANGED <<pc, h1Batch, h2Batch>>
    BY Zenon DEF PostTask, locals
  <2> QED
    BY <2>1, <2>2, <2>3, ZenonT(120) DEF TasksRan, Apart, FinishInv
<1> QED
  BY <1>3, <1>4, <1>5, Zenon DEF FinishInv

\* pushH1Done and pushH2Done: the owner gives the connection up.
LEMMA PushFinish ==
  ASSUME FinishInv, TypeInv', NEW g \in Goroutines, PushH1Done(g) \/ PushH2Done(g)
  PROVE  FinishInv'
<1> DEFINE c == gr[g].conn
<1>1. c \in Conns /\ c # Nobody /\ status[c] = "running"
  BY LoopAssumption, Zenon DEF PushH1Done, PushH2Done, FinishInv, TypeInv, RunsForConn, OwnerInv
<1>2. /\ status'[c] = "ended" /\ \A d \in Conns : d # c => status'[d] = status[d]
      /\ gr'[g].conn = Nobody /\ \A h \in Goroutines : h # g => gr'[h] = gr[h]
      /\ UNCHANGED <<taskCh, pc, h1Batch, h2Batch>>
  BY <1>1, SMTT(60) DEF PushH1Done, PushH2Done, locals, FinishInv, TypeInv, TypeOK
<1>3. OwnerInv'
  <2>1. \A h \in Goroutines : h # g /\ gr[h].conn # Nobody => gr[h].conn # c /\ gr[h].conn \in Conns
    BY <1>1, Zenon DEF OwnerInv, FinishInv, TypeInv, TypeOK
  <2> QED
    BY <1>2, <2>1 DEF OwnerInv, FinishInv
<1>4. TasksRan'
  BY <1>2, SMTT(60) DEF TasksRan, FinishInv, Apart
<1>5. CASE PushH1Done(g)
  <2>1. c \in H1Conns /\ h1Done' = <<c>> \o h1Done /\ h2Done' = h2Done
    BY <1>5, Zenon DEF PushH1Done
  <2>2. Ended(h1Done)' /\ Ended(h1Batch)' /\ Distinct(h1Done)' /\ Apart(h1Done, h1Batch)'
    <3>1. h1Done \in Seq(H1Conns) /\ h1Batch \in Seq(H1Conns)
      BY Zenon DEF FinishInv, TypeInv, TypeOK
    <3>2. \A d \in H1Conns : d # c => status'[d] = status[d]
      BY <1>2, ElementTypes, ZenonT(60) DEF FinishInv
    <3>3. Pushed(H1Conns, h1Done, h1Batch, c, status, status', h1Done')
      BY <1>1, <1>2, <2>1, <3>1, <3>2, SMTT(60) DEF Pushed, FinishInv, HeldInv, Ended
    <3>4. StillHeld(h1Done', h1Batch, status')
      BY <3>3, PushHeld, Zenon
    <3> QED
      BY <1>2, <3>4, ZenonT(60) DEF StillHeld, Ended, Distinct, Apart
  <2>3. Ended(h2Done)' /\ Ended(h2Batch)'
    BY <1>2, <2>1, ElementTypes, ZenonT(120) DEF FinishInv, HeldInv, Ended
  <2> QED
    <3>1. h2Done' = h2Done /\ h2Batch' = h2Batch /\ h1Batch' = h1Batch
      BY <1>2, <2>1, Zenon
    <3>2. Distinct(h2Done) /\ Distinct(h2Batch) /\ Apart(h2Done, h2Batch) /\ Distinct(h1Batch)
      BY Zenon DEF FinishInv, HeldInv
    <3>3. Distinct(h2Done)' /\ Distinct(h2Batch)' /\ Distinct(h1Batch)'
      BY <3>1, <3>2, ZenonT(60) DEF Distinct
    <3>4. Apart(h2Done, h2Batch)'
      BY <3>1, <3>2, Zenon DEF Apart
    <3> QED
      BY <1>3, <1>4, <2>2, <2>3, <3>3, <3>4, Zenon DEF FinishInv, HeldInv
<1>6. CASE PushH2Done(g)
  <2>1. c \in H2Conns /\ h2Done' = <<c>> \o h2Done /\ h1Done' = h1Done
    BY <1>6, Zenon DEF PushH2Done
  <2>2. Ended(h2Done)' /\ Ended(h2Batch)' /\ Distinct(h2Done)' /\ Apart(h2Done, h2Batch)'
    <3>1. h2Done \in Seq(H2Conns) /\ h2Batch \in Seq(H2Conns)
      BY Zenon DEF FinishInv, TypeInv, TypeOK
    <3>2. \A d \in H2Conns : d # c => status'[d] = status[d]
      BY <1>2, ElementTypes, Zenon DEF FinishInv
    <3>3. Pushed(H2Conns, h2Done, h2Batch, c, status, status', h2Done')
      BY <1>1, <1>2, <2>1, <3>1, <3>2, Zenon DEF Pushed, FinishInv, HeldInv, Ended
    <3>4. StillHeld(h2Done', h2Batch, status')
      BY <3>3, PushHeld, Zenon
    <3> QED
      BY <1>2, <3>4, Zenon DEF StillHeld, Ended, Distinct, Apart
  <2>3. Ended(h1Done)' /\ Ended(h1Batch)'
    BY <1>2, <2>1, ElementTypes, ZenonT(120) DEF FinishInv, HeldInv, Ended
  <2> QED
    <3>1. h1Done' = h1Done /\ h1Batch' = h1Batch /\ h2Batch' = h2Batch
      BY <1>2, <2>1, Zenon
    <3>2. Distinct(h1Done) /\ Distinct(h1Batch) /\ Apart(h1Done, h1Batch) /\ Distinct(h2Batch)
      BY Zenon DEF FinishInv, HeldInv
    <3>3. Distinct(h1Done)' /\ Distinct(h1Batch)' /\ Distinct(h2Batch)'
      BY <3>1, <3>2, Zenon DEF Distinct
    <3>4. Apart(h1Done, h1Batch)'
      BY <3>1, <3>2, Zenon DEF Apart
    <3> QED
      BY <1>3, <1>4, <2>2, <2>3, <3>3, <3>4, Zenon DEF FinishInv, HeldInv
<1> QED
  BY <1>5, <1>6, Zenon

\* The loop steps that leave completions, tasks and owners alone, and do not
\* begin to finish.
LEMMA QuietFinish ==
  ASSUME FinishInv, TypeInv', pc' # "finish", UNCHANGED <<h1Done, h2Done, h1Batch, h2Batch, status, gr>>
  PROVE  FinishInv'
<1>1. OwnerInv'
  BY Zenon DEF OwnerInv, FinishInv
<1>2. HeldInv'
  BY HeldUnchanged, Zenon DEF FinishInv, HeldInv, Ended
<1> QED
  BY <1>1, <1>2, Zenon DEF FinishInv, TasksRan

\* drainTasks' swaps: the batch becomes the stack, and the stack empty.
LEMMA SwapFinish ==
  ASSUME FinishInv, TypeInv', SwapH1Done \/ SwapH2Done
  PROVE  FinishInv'
<1>1. OwnerInv'
  BY DEF OwnerInv, FinishInv, SwapH1Done, SwapH2Done, work
<1>2. TasksRan'
  BY Zenon DEF TasksRan, SwapH1Done, SwapH2Done
<1>3. Len(<<>>) = 0
  BY Zenon
<1>4. CASE SwapH1Done
  <2>1. h1Batch' = h1Done /\ h1Done' = <<>> /\ UNCHANGED <<h2Done, h2Batch, status>>
    BY <1>4, Zenon DEF SwapH1Done, work
  <2>2. Ended(h1Batch)' /\ Distinct(h1Batch)'
    BY <2>1, SMTT(60) DEF FinishInv, HeldInv, Ended, Distinct
  <2>3. Ended(h1Done)' /\ Distinct(h1Done)' /\ Apart(h1Done, h1Batch)'
    BY <1>3, <2>1, SMTT(60) DEF Ended, Distinct, Apart
  <2>4. Ended(h2Done)' /\ Ended(h2Batch)'
    BY <2>1, Zenon DEF FinishInv, HeldInv, Ended
  <2>5. Distinct(h2Done)' /\ Distinct(h2Batch)' /\ Apart(h2Done, h2Batch)'
    BY <2>1, SMTT(60) DEF FinishInv, HeldInv, Distinct, Apart
  <2> QED
    BY <1>1, <1>2, <2>2, <2>3, <2>4, <2>5, Zenon DEF FinishInv, HeldInv
<1>5. CASE SwapH2Done
  <2>1. h2Batch' = h2Done /\ h2Done' = <<>> /\ UNCHANGED <<h1Done, h1Batch, status>>
    BY <1>5, ZenonT(60) DEF SwapH2Done, work
  <2>2. Ended(h2Batch)' /\ Distinct(h2Batch)'
    BY <2>1, SMTT(60) DEF FinishInv, HeldInv, Ended, Distinct
  <2>3. Ended(h2Done)' /\ Distinct(h2Done)' /\ Apart(h2Done, h2Batch)'
    BY <1>3, <2>1, SMTT(60) DEF Ended, Distinct, Apart
  <2>4. Ended(h1Done)' /\ Ended(h1Batch)'
    BY <2>1, Zenon DEF FinishInv, HeldInv, Ended
  <2>5. Distinct(h1Done)' /\ Distinct(h1Batch)' /\ Apart(h1Done, h1Batch)'
    BY <2>1, SMTT(60) DEF FinishInv, HeldInv, Distinct, Apart
  <2> QED
    BY <1>1, <1>2, <2>2, <2>3, <2>4, <2>5, Zenon DEF FinishInv, HeldInv
<1> QED
  BY <1>4, <1>5, Zenon

\* A batch after its last element is taken: a prefix, without that element.
LEMMA DropLastElements ==
  ASSUME NEW S, NEW s \in Seq(S), s # <<>>, Distinct(s)
  PROVE  LET t == SubSeq(s, 1, Len(s) - 1)
         IN  /\ s[Len(s)] \in S
             /\ Len(t) \in Nat /\ Len(s) \in Nat /\ Len(t) < Len(s)
             /\ \A i \in 1..Len(t) : i \in 1..Len(s) /\ t[i] = s[i] /\ s[i] # s[Len(s)]
<1> DEFINE n == Len(s) - 1
<1>1. Len(s) \in Nat /\ Len(s) > 0 /\ n \in Nat /\ n + 1 = Len(s) /\ Len(s) \in 1..Len(s)
  OBVIOUS
<1>2. s[Len(s)] \in S
  BY <1>1
<1> HIDE DEF n
<1>3. Len(SubSeq(s, 1, n)) = n /\ \A i \in 1..n : SubSeq(s, 1, n)[i] = s[i]
  BY <1>1, SubSeqProperties
<1>4. \A i \in 1..n : i \in 1..Len(s) /\ i # Len(s)
  BY <1>1
<1>5. \A i \in 1..n : s[i] # s[Len(s)]
  BY <1>1, <1>4, Zenon DEF Distinct
<1>6. n < Len(s)
  BY <1>1
<1> QED
  BY <1>1, <1>2, <1>3, <1>4, <1>5, <1>6, Zenon DEF n

\* finishH1Done takes the oldest completion; its connection is in no other place.
LEMMA FinishH1Finish ==
  ASSUME FinishInv, TypeInv', FinishH1
  PROVE  FinishInv'
<1> DEFINE c == h1Batch[Len(h1Batch)]
<1>1. h1Batch \in Seq(H1Conns) /\ h1Batch # <<>> /\ Distinct(h1Batch)
  BY Zenon DEF FinishH1, FinishInv, TypeInv, TypeOK, HeldInv
<1>2. /\ c \in H1Conns
      /\ Len(h1Batch') \in Nat /\ Len(h1Batch) \in Nat /\ Len(h1Batch') < Len(h1Batch)
      /\ \A i \in 1..Len(h1Batch') : i \in 1..Len(h1Batch) /\ h1Batch'[i] = h1Batch[i] /\ h1Batch[i] # c
  BY <1>1, DropLastElements, SMTT(60) DEF FinishH1
<1>3. Len(h1Batch) \in 1..Len(h1Batch)
  BY <1>2
<1>4. /\ status[c] = "ended" /\ c \in Conns /\ c \notin H2Conns
      /\ \A i \in 1..Len(h1Done) : h1Done[i] # c /\ h1Done[i] \in Conns
      /\ \A i \in 1..Len(h1Batch) : h1Batch[i] \in Conns
      /\ \A i \in 1..Len(h2Done) : h2Done[i] # c /\ h2Done[i] \in Conns
      /\ \A i \in 1..Len(h2Batch) : h2Batch[i] # c /\ h2Batch[i] \in Conns
  BY <1>2, <1>3, ElementTypes, SMTT(60) DEF FinishInv, HeldInv, Ended, Apart
<1> HIDE DEF c
<1>5. /\ \A d \in Conns : d # c => status'[d] = status[d]
      /\ UNCHANGED <<gr, pc, taskCh, h1Done, h2Done, h2Batch>>
  BY <1>4, SMTT(60) DEF FinishH1, FinishInv, TypeInv, TypeOK, queues, c
<1>6. OwnerInv'
  <2>1. \A g \in Goroutines : gr[g].conn # Nobody => gr[g].conn \in Conns /\ gr[g].conn # c
    BY <1>4, ZenonT(60) DEF FinishInv, OwnerInv, TypeInv, TypeOK
  <2> QED
    BY <1>5, <2>1, Zenon DEF OwnerInv, FinishInv
<1>7. Ended(h1Done)' /\ Ended(h2Done)' /\ Ended(h2Batch)'
  BY <1>4, <1>5, SMTT(120) DEF FinishInv, HeldInv, Ended
<1>8. Ended(h1Batch)'
  BY <1>2, <1>4, <1>5, SMTT(60) DEF FinishInv, HeldInv, Ended
<1>9. Distinct(h1Batch)' /\ Apart(h1Done, h1Batch)'
  <2>1. Distinct(h1Batch) /\ Apart(h1Done, h1Batch)
    BY Zenon DEF FinishInv, HeldInv
  <2>2. Distinct(h1Batch)'
    BY <1>2, <2>1, SMTT(60) DEF Distinct
  <2>3. Apart(h1Done, h1Batch)'
    BY <1>2, <1>5, <2>1, SMTT(60) DEF Apart
  <2> QED
    BY <2>2, <2>3, Zenon
<1>10. Distinct(h1Done)' /\ Distinct(h2Done)' /\ Distinct(h2Batch)' /\ Apart(h2Done, h2Batch)'
  BY <1>5, SMTT(60) DEF FinishInv, HeldInv, Distinct, Apart
<1>11. TasksRan'
  BY <1>2, <1>5, SMTT(60) DEF FinishInv, TasksRan, Apart
<1> QED
  BY <1>6, <1>7, <1>8, <1>9, <1>10, <1>11, ZenonT(60) DEF FinishInv, HeldInv

\* finishH2Done takes the oldest completion; its connection is in no other place.
LEMMA FinishH2Finish ==
  ASSUME FinishInv, TypeInv', FinishH2
  PROVE  FinishInv'
<1> DEFINE c == h2Batch[Len(h2Batch)]
<1>1. h2Batch \in Seq(H2Conns) /\ h2Batch # <<>> /\ Distinct(h2Batch)
  BY Zenon DEF FinishH2, FinishInv, TypeInv, TypeOK, HeldInv
<1>2. /\ c \in H2Conns
      /\ Len(h2Batch') \in Nat /\ Len(h2Batch) \in Nat /\ Len(h2Batch') < Len(h2Batch)
      /\ \A i \in 1..Len(h2Batch') : i \in 1..Len(h2Batch) /\ h2Batch'[i] = h2Batch[i] /\ h2Batch[i] # c
  BY <1>1, DropLastElements, SMTT(60) DEF FinishH2
<1>3. Len(h2Batch) \in 1..Len(h2Batch)
  BY <1>2
<1>4. /\ status[c] = "ended" /\ c \in Conns /\ c \notin H1Conns
      /\ \A i \in 1..Len(h2Done) : h2Done[i] # c /\ h2Done[i] \in Conns
      /\ \A i \in 1..Len(h2Batch) : h2Batch[i] \in Conns
      /\ \A i \in 1..Len(h1Done) : h1Done[i] # c /\ h1Done[i] \in Conns
      /\ \A i \in 1..Len(h1Batch) : h1Batch[i] # c /\ h1Batch[i] \in Conns
  BY <1>2, <1>3, ElementTypes, SMTT(60) DEF FinishInv, HeldInv, Ended, Apart
<1> HIDE DEF c
<1>5. /\ \A d \in Conns : d # c => status'[d] = status[d]
      /\ UNCHANGED <<gr, pc, taskCh, h2Done, h1Done, h1Batch>>
  BY <1>4, SMTT(60) DEF FinishH2, FinishInv, TypeInv, TypeOK, queues, c
<1>6. OwnerInv'
  <2>1. \A g \in Goroutines : gr[g].conn # Nobody => gr[g].conn \in Conns /\ gr[g].conn # c
    BY <1>4, Zenon DEF FinishInv, OwnerInv, TypeInv, TypeOK
  <2> QED
    BY <1>5, <2>1, Zenon DEF OwnerInv, FinishInv
<1>7. Ended(h2Done)' /\ Ended(h1Done)' /\ Ended(h1Batch)'
  BY <1>4, <1>5, ZenonT(60) DEF FinishInv, HeldInv, Ended
<1>8. Ended(h2Batch)'
  BY <1>2, <1>4, <1>5, ZenonT(240) DEF FinishInv, HeldInv, Ended
<1>9. Distinct(h2Batch)' /\ Apart(h2Done, h2Batch)'
  <2>1. Distinct(h2Batch) /\ Apart(h2Done, h2Batch)
    BY Zenon DEF FinishInv, HeldInv
  <2>2. Distinct(h2Batch)'
    BY <1>2, <2>1, Zenon DEF Distinct
  <2>3. Apart(h2Done, h2Batch)'
    BY <1>2, <1>5, <2>1, SMTT(60) DEF Apart
  <2> QED
    BY <2>2, <2>3, Zenon
<1>10. Distinct(h2Done)' /\ Distinct(h1Done)' /\ Distinct(h1Batch)' /\ Apart(h1Done, h1Batch)'
  BY <1>5, SMTT(60) DEF FinishInv, HeldInv, Distinct, Apart
<1>11. TasksRan'
  BY <1>2, <1>5, SMTT(120) DEF FinishInv, TasksRan, Apart
<1> QED
  BY <1>6, <1>7, <1>8, <1>9, <1>10, <1>11, Zenon DEF FinishInv, HeldInv

\* A handler is started for a connection that is neither running nor held.
LEMMA DispatchFinish ==
  ASSUME FinishInv, TypeInv', NEW c \in Conns, NEW g \in Goroutines, Dispatch(c, g)
  PROVE  FinishInv'
<1>1. /\ status[c] = "idle" /\ status'[c] = "running"
      /\ \A d \in Conns : d # c => status'[d] = status[d]
      /\ gr'[g].conn = c /\ \A h \in Goroutines : h # g => gr'[h] = gr[h]
      /\ UNCHANGED <<pc, taskCh, h1Done, h2Done, h1Batch, h2Batch>>
  BY SMTT(60) DEF Dispatch, queues, FinishInv, TypeInv, TypeOK
<1>2. OwnerInv'
  <2>1. \A h \in Goroutines : gr[h].conn # Nobody => gr[h].conn # c /\ gr[h].conn \in Conns
    BY <1>1, SMTT(60) DEF OwnerInv, FinishInv, TypeInv, TypeOK
  <2>2. ASSUME NEW h \in Goroutines, gr'[h].conn # Nobody
        PROVE  status'[gr'[h].conn] = "running"
    <3>1. CASE h = g
      BY <1>1, <3>1, ZenonT(60)
    <3>2. CASE h # g
      <4>1. gr'[h] = gr[h] /\ status[gr[h].conn] = "running"
        BY <1>1, <2>2, <3>2, SMTT(30) DEF OwnerInv, FinishInv
      <4> QED
        BY <1>1, <2>1, <2>2, <4>1, SMTT(30)
    <3> QED
      BY <3>1, <3>2, Zenon
  <2>3. ASSUME NEW h \in Goroutines, NEW k \in Goroutines,
               gr'[h].conn = gr'[k].conn, gr'[h].conn # Nobody
        PROVE  h = k
    <3>1. CASE h # g /\ k # g
      BY <1>1, <2>3, <3>1, SMTT(30) DEF OwnerInv, FinishInv
    <3>2. CASE h = g \/ k = g
      BY <1>1, <2>1, <2>3, <3>2, SMTT(30)
    <3> QED
      BY <3>1, <3>2, SMTT(30)
  <2> QED
    BY <2>2, <2>3, Zenon DEF OwnerInv
<1>3. /\ \A i \in 1..Len(h1Done) : h1Done[i] \in Conns /\ h1Done[i] # c
      /\ \A i \in 1..Len(h2Done) : h2Done[i] \in Conns /\ h2Done[i] # c
      /\ \A i \in 1..Len(h1Batch) : h1Batch[i] \in Conns /\ h1Batch[i] # c
      /\ \A i \in 1..Len(h2Batch) : h2Batch[i] \in Conns /\ h2Batch[i] # c
  <2>1. Ended(h1Done) /\ Ended(h2Done) /\ Ended(h1Batch) /\ Ended(h2Batch) /\ TypeInv
    BY Zenon DEF FinishInv, HeldInv
  <2> QED
    BY <1>1, <2>1, ElementTypes, ZenonT(60) DEF Ended
<1>4. Ended(h1Done)' /\ Ended(h2Done)' /\ Ended(h1Batch)' /\ Ended(h2Batch)'
  <2>1. Ended(h1Done) /\ Ended(h2Done) /\ Ended(h1Batch) /\ Ended(h2Batch)
    BY Zenon DEF FinishInv, HeldInv
  <2> QED
    BY <1>1, <1>3, <2>1, SMTT(60) DEF Ended
<1>5. HeldInv'
  BY <1>1, <1>4, HeldUnchanged, ZenonT(60) DEF FinishInv
<1>6. TasksRan'
  BY <1>1, SMTT(60) DEF TasksRan, FinishInv, Apart
<1> QED
  BY <1>2, <1>5, <1>6, Zenon DEF FinishInv

\* The last receive of drainTasks found taskCh empty.
LEMMA DrainedFinish ==
  ASSUME FinishInv, TypeInv', TasksDrained
  PROVE  FinishInv'
<1>1. UNCHANGED <<gr, status, taskCh, h1Done, h2Done, h1Batch, h2Batch>> /\ taskCh = <<>>
  BY Zenon DEF TasksDrained, Goto, queues, work
<1>2. OwnerInv'
  BY <1>1, Zenon DEF OwnerInv, FinishInv
<1>3. HeldInv'
  BY <1>1, HeldUnchanged, Zenon DEF FinishInv, HeldInv, Ended
<1>4. TasksRan'
  BY <1>1, SMTT(60) DEF TasksRan, Apart
<1> QED
  BY <1>2, <1>3, <1>4, Zenon DEF FinishInv

\* Every step keeps the invariant.
LEMMA FinishStep ==
  FinishInv /\ [Next]_vars => FinishInv'
<1> SUFFICES ASSUME FinishInv, [Next]_vars PROVE FinishInv'
  BY Zenon
<1>1. TypeInv'
  BY TypeStep, Zenon DEF FinishInv
<1>2. CASE UNCHANGED vars
  <2>1. OwnerInv'
    BY <1>2, Zenon DEF OwnerInv, FinishInv, vars, work
  <2>2. HeldInv'
    BY <1>2, HeldUnchanged, Zenon DEF FinishInv, HeldInv, Ended, vars, work, queues, locals
  <2>3. TasksRan'
    BY <1>2, ZenonT(60) DEF TasksRan, FinishInv, Apart, vars, queues, locals
  <2> QED
    BY <1>1, <2>1, <2>2, <2>3, Zenon DEF FinishInv
<1>3. CASE EpollOther \/ Park \/ CheckPending \/ EpollReturn \/ Unpark \/ ReadWake \/ Round
           \/ EndRounds \/ RunTask \/ AllFinished \/ RunLate \/ Tail_
  <2>1. pc' # "finish" /\ UNCHANGED <<h1Done, h2Done, h1Batch, h2Batch, status, gr>>
    BY <1>3, Zenon DEF EpollOther, Park, CheckPending, EpollReturn, Unpark, ReadWake, Round,
                EndRounds, RunTask, AllFinished, RunLate, Tail_, Goto, queues, work, locals
  <2> QED
    BY <1>1, <2>1, QuietFinish, Zenon
<1>4. CASE SwapH1Done \/ SwapH2Done
  BY <1>1, <1>4, SwapFinish, Zenon
<1>5. CASE TasksDrained
  BY <1>1, <1>5, DrainedFinish, Zenon
<1>6. CASE FinishH1
  BY <1>1, <1>6, FinishH1Finish, SMTT(30)
<1>7. CASE FinishH2
  BY <1>1, <1>7, FinishH2Finish, Zenon
<1>8. CASE \E c \in Conns, g \in Goroutines : Dispatch(c, g)
  BY <1>1, <1>8, DispatchFinish, Zenon
<1>9. ASSUME NEW g \in Goroutines, GoroutineStep(g) \/ PushLate(g) PROVE FinishInv'
  <2>1. CASE PostTask(g)
    BY <1>1, <2>1, PostFinish, Zenon
  <2>2. CASE PushH1Done(g) \/ PushH2Done(g)
    BY <1>1, <2>2, PushFinish, Zenon
  <2>3. CASE RaisePending(g)
    BY <1>1, <2>3, MoveFinish, Zenon DEF RaisePending, queues, locals
  <2>4. CASE TestParked(g)
    BY <1>1, <2>4, MoveFinish, Zenon DEF TestParked, queues, locals
  <2>5. CASE WriteWake(g)
    BY <1>1, <2>5, MoveFinish, Zenon DEF WriteWake, queues, locals
  <2>6. CASE PushLate(g)
    BY <1>1, <2>6, MoveFinish, Zenon DEF PushLate, locals
  <2> QED
    BY <1>9, <2>1, <2>2, <2>3, <2>4, <2>5, <2>6, SMTT(30) DEF GoroutineStep
<1> QED
  BY <1>2, <1>3, <1>4, <1>5, <1>6, <1>7, <1>8, <1>9, SMTT(30) DEF Next, LoopStep

\* The first state has no completions.
LEMMA FinishInit == Init => FinishInv
<1> SUFFICES ASSUME Init PROVE FinishInv
  BY Zenon
<1>1. OwnerInv
  BY Zenon DEF Init, OwnerInv
<1>2. HeldInv
  BY SMTT(60) DEF Init, HeldInv, Ended, Distinct, Apart
<1>3. TasksRan
  BY Zenon DEF Init, TasksRan
<1> QED
  BY TypeInit, <1>1, <1>2, <1>3, SMTT(30) DEF FinishInv

\* drainTasks finishes a completion only after every task its handler posted has
\* run, for any number of connections, goroutines and rounds.
THEOREM TasksRunFirst == Spec => []TasksBeforeFinish
<1>1. Init => FinishInv
  BY FinishInit, Zenon
<1>2. FinishInv => TasksBeforeFinish
  <2> SUFFICES ASSUME FinishInv, pc = "finish",
                      NEW c \in Elements(h1Batch \o h2Batch), c \in Elements(taskCh)
               PROVE  FALSE
    BY ZenonT(60) DEF TasksBeforeFinish
  <2>1. h1Batch \in Seq(Conns) /\ h2Batch \in Seq(Conns) /\ taskCh \in Seq(Conns)
    BY LoopAssumption, SMTT(60) DEF FinishInv, TypeInv, TypeOK, H1Conns
  <2>2. PICK k \in 1..Len(taskCh) : taskCh[k] = c
    BY <2>1, SMTT(30) DEF Elements
  <2>3. PICK i \in 1..(Len(h1Batch) + Len(h2Batch)) : (h1Batch \o h2Batch)[i] = c
    BY <2>1, SMTT(30) DEF Elements
  <2>4. CASE i <= Len(h1Batch)
    <3>1. i \in 1..Len(h1Batch) /\ h1Batch[i] = c
      BY <2>1, <2>3, <2>4, SMTT(30)
    <3> QED
      BY <2>2, <3>1, Zenon DEF FinishInv, TasksRan, Apart
  <2>5. CASE i > Len(h1Batch)
    <3>1. i - Len(h1Batch) \in 1..Len(h2Batch) /\ h2Batch[i - Len(h1Batch)] = c
      BY <2>1, <2>3, <2>5, SMTT(30)
    <3> QED
      BY <2>2, <3>1, ZenonT(60) DEF FinishInv, TasksRan, Apart
  <2> QED
    BY <2>1, <2>3, <2>4, <2>5, SMTT(30)
<1> QED
  BY <1>1, <1>2, FinishStep, PTL DEF Spec

--------------------------------------------------------------------------------
(* No completion is lost.                                                       *)

\* The completions a drain has taken are finished before the next drain takes any.
EmptyBatches ==
    /\ pc \notin {"swap2", "drain", "finish"} => h1Batch = <<>>
    /\ pc \notin {"drain", "finish"} => h2Batch = <<>>

\* A connection whose handler has ended is on a stack or in a batch.
HeldSomewhere ==
    \A c \in Conns : status[c] = "ended" =>
        \/ c \in Elements(h1Done) \/ c \in Elements(h2Done)
        \/ c \in Elements(h1Batch) \/ c \in Elements(h2Batch)

CompletionInv == FinishInv /\ EmptyBatches /\ HeldSomewhere

\* What a stack holds after a push.
LEMMA PushElements ==
  ASSUME NEW S, NEW s \in Seq(S), NEW e \in S
  PROVE  e \in Elements(<<e>> \o s) /\ Elements(s) \subseteq Elements(<<e>> \o s)
<1> DEFINE t == <<e>> \o s
<1>1. /\ t \in Seq(S) /\ Len(t) = Len(s) + 1 /\ Len(s) \in Nat
      /\ \A i \in 1..(Len(s) + 1) : t[i] = IF i = 1 THEN e ELSE s[i - 1]
  BY PushProperties, SMTT(30)
<1> HIDE DEF t
<1>2. DOMAIN t = 1..(Len(s) + 1) /\ DOMAIN s = 1..Len(s)
  BY <1>1, SMTT(30)
<1>3. 1 \in DOMAIN t /\ t[1] = e
  BY <1>1, <1>2, SMTT(30)
<1>4. \A i \in DOMAIN s : i + 1 \in DOMAIN t /\ t[i + 1] = s[i]
  BY <1>1, <1>2
<1>5. e \in Elements(t)
  BY <1>3, Zenon DEF Elements
<1>6. Elements(s) \subseteq Elements(t)
  <2> SUFFICES ASSUME NEW i \in DOMAIN s PROVE s[i] \in Elements(t)
    BY DEF Elements
  <2> QED
    BY <1>4, Zenon DEF Elements
<1> QED
  BY <1>5, <1>6, ZenonT(60) DEF t

\* A batch loses only its last element.
LEMMA DropLastHolds ==
  ASSUME NEW S, NEW s \in Seq(S), s # <<>>, NEW d \in Elements(s), d # s[Len(s)]
  PROVE  d \in Elements(SubSeq(s, 1, Len(s) - 1))
<1> DEFINE t == SubSeq(s, 1, Len(s) - 1)
<1>1. /\ t \in Seq(S) /\ Len(t) = Len(s) - 1 /\ Len(s) \in Nat \ {0}
      /\ \A i \in 1..(Len(s) - 1) : t[i] = s[i]
  BY DropLastType, Zenon
<1>2. PICK i \in 1..Len(s) : s[i] = d
  BY SMTT(30) DEF Elements
<1> HIDE DEF t
<1>3. i \in 1..(Len(s) - 1) /\ DOMAIN t = 1..(Len(s) - 1)
  BY <1>1, <1>2
<1> QED
  BY <1>1, <1>2, <1>3, Zenon DEF Elements, t

\* Every step keeps every completion.
LEMMA CompletionStep ==
  CompletionInv /\ [Next]_vars => CompletionInv'
<1> SUFFICES ASSUME CompletionInv, [Next]_vars PROVE CompletionInv'
  BY Zenon
<1>1. FinishInv /\ FinishInv' /\ TypeInv /\ TypeInv'
  BY FinishStep, ZenonT(60) DEF CompletionInv, FinishInv
<1>2. EmptyBatches'
  <2> USE DEF EmptyBatches, CompletionInv
  <2>1. CASE UNCHANGED vars
    BY <2>1, Zenon DEF vars, locals
  <2>2. CASE EpollOther \/ Park \/ CheckPending \/ EpollReturn \/ Unpark \/ ReadWake \/ Round
             \/ EndRounds \/ RunTask \/ RunLate \/ Tail_ \/ TasksDrained \/ AllFinished
    BY <2>2, Zenon DEF EpollOther, Park, CheckPending, EpollReturn, Unpark, ReadWake, Round,
                EndRounds, RunTask, AllFinished, RunLate, Tail_, TasksDrained, Goto, locals
  <2>3. CASE SwapH1Done \/ SwapH2Done \/ FinishH1 \/ FinishH2
    BY <2>3, Zenon DEF SwapH1Done, SwapH2Done, FinishH1, FinishH2
  <2>4. CASE \E c \in Conns, g \in Goroutines : Dispatch(c, g)
    BY <2>4, Zenon DEF Dispatch
  <2>5. CASE \E g \in Goroutines : GoroutineStep(g) \/ PushLate(g)
    BY <2>5, ZenonT(60) DEF GoroutineStep, PostTask, PushH1Done, PushH2Done, PushLate, RaisePending,
                TestParked, WriteWake, locals
  <2> QED
    BY <2>1, <2>2, <2>3, <2>4, <2>5, SMTT(30) DEF Next, LoopStep
<1>3. HeldSomewhere'
  <2>1. CASE UNCHANGED <<h1Done, h2Done, h1Batch, h2Batch, status>>
    BY <2>1, Zenon DEF HeldSomewhere, CompletionInv, Elements
  <2>2. CASE SwapH1Done
    <3>1. h1Batch = <<>> /\ h1Batch' = h1Done /\ UNCHANGED <<h2Done, h2Batch, status>>
      BY <2>2, Zenon DEF SwapH1Done, CompletionInv, EmptyBatches, work
    <3>2. Elements(h1Batch) = {}
      BY <3>1 DEF Elements
    <3> QED
      BY <3>1, <3>2, Zenon DEF HeldSomewhere, CompletionInv, Elements
  <2>3. CASE SwapH2Done
    <3>1. h2Batch = <<>> /\ h2Batch' = h2Done /\ UNCHANGED <<h1Done, h1Batch, status>>
      BY <2>3, SMTT(30) DEF SwapH2Done, CompletionInv, EmptyBatches, work
    <3>2. Elements(h2Batch) = {}
      BY <3>1 DEF Elements
    <3> QED
      BY <3>1, <3>2, ZenonT(60) DEF HeldSomewhere, CompletionInv, Elements
  <2>4. CASE FinishH1
    <3>1. /\ h1Batch \in Seq(H1Conns) /\ h1Batch # <<>>
          /\ UNCHANGED <<h1Done, h2Done, h2Batch>>
          /\ h1Batch' = SubSeq(h1Batch, 1, Len(h1Batch) - 1)
          /\ \A c \in Conns : status'[c] = "ended" => status[c] = "ended" /\ c # h1Batch[Len(h1Batch)]
      BY <1>1, <2>4, Zenon DEF FinishH1, queues, TypeInv, TypeOK
    <3>2. \A c \in Elements(h1Batch) : c # h1Batch[Len(h1Batch)] => c \in Elements(h1Batch)'
      BY <3>1, DropLastHolds, Zenon
    <3> QED
      BY <3>1, <3>2, ZenonT(60) DEF HeldSomewhere, CompletionInv, Elements
  <2>5. CASE FinishH2
    <3>1. /\ h2Batch \in Seq(H2Conns) /\ h2Batch # <<>>
          /\ UNCHANGED <<h1Done, h2Done, h1Batch>>
          /\ h2Batch' = SubSeq(h2Batch, 1, Len(h2Batch) - 1)
          /\ \A c \in Conns : status'[c] = "ended" => status[c] = "ended" /\ c # h2Batch[Len(h2Batch)]
      BY <1>1, <2>5, SMTT(30) DEF FinishH2, queues, TypeInv, TypeOK
    <3>2. \A c \in Elements(h2Batch) : c # h2Batch[Len(h2Batch)] => c \in Elements(h2Batch)'
      BY <3>1, DropLastHolds
    <3> QED
      BY <3>1, <3>2, ZenonT(60) DEF HeldSomewhere, CompletionInv, Elements
  <2>6. ASSUME NEW c \in Conns, NEW g \in Goroutines, Dispatch(c, g) PROVE HeldSomewhere'
    <3>1. /\ UNCHANGED <<h1Done, h2Done, h1Batch, h2Batch>>
          /\ \A d \in Conns : status'[d] = "ended" => status[d] = "ended"
      BY <1>1, <2>6, Zenon DEF Dispatch, queues, TypeInv, TypeOK
    <3> QED
      BY <3>1, ZenonT(60) DEF HeldSomewhere, CompletionInv, Elements
  <2>7. ASSUME NEW g \in Goroutines, PushH1Done(g) PROVE HeldSomewhere'
    <3>1. PICK e \in H1Conns :
              /\ h1Done \in Seq(H1Conns) /\ h1Done' = <<e>> \o h1Done
              /\ UNCHANGED <<h2Done, h1Batch, h2Batch>>
              /\ \A d \in Conns : status'[d] = "ended" => status[d] = "ended" \/ d = e
      BY <1>1, <2>7, ZenonT(30) DEF PushH1Done, locals, TypeInv, TypeOK
    <3>2. e \in Elements(h1Done)' /\ Elements(h1Done) \subseteq Elements(h1Done)'
      BY <3>1, PushElements, Zenon
    <3> QED
      BY <3>1, <3>2, ZenonT(60) DEF HeldSomewhere, CompletionInv, Elements
  <2>8. ASSUME NEW g \in Goroutines, PushH2Done(g) PROVE HeldSomewhere'
    <3>1. PICK e \in H2Conns :
              /\ h2Done \in Seq(H2Conns) /\ h2Done' = <<e>> \o h2Done
              /\ UNCHANGED <<h1Done, h1Batch, h2Batch>>
              /\ \A d \in Conns : status'[d] = "ended" => status[d] = "ended" \/ d = e
      BY <1>1, <2>8, ZenonT(30) DEF PushH2Done, locals, TypeInv, TypeOK
    <3>2. e \in Elements(h2Done)' /\ Elements(h2Done) \subseteq Elements(h2Done)'
      BY <3>1, PushElements
    <3> QED
      BY <3>1, <3>2, ZenonT(60) DEF HeldSomewhere, CompletionInv, Elements
  <2>9. CASE UNCHANGED vars \/ EpollOther \/ Park \/ CheckPending \/ EpollReturn \/ Unpark
             \/ ReadWake \/ Round \/ EndRounds \/ RunTask \/ RunLate \/ Tail_ \/ TasksDrained
             \/ AllFinished
    BY <2>1, <2>9, Zenon DEF EpollOther, Park, CheckPending, EpollReturn, Unpark, ReadWake, Round,
                EndRounds, RunTask, AllFinished, RunLate, Tail_, TasksDrained, Goto, queues,
                work, locals, vars
  <2>10. ASSUME NEW g \in Goroutines,
                PostTask(g) \/ PushLate(g) \/ RaisePending(g) \/ TestParked(g) \/ WriteWake(g)
         PROVE  HeldSomewhere'
    BY <2>1, <2>10, ZenonT(30) DEF PostTask, PushLate, RaisePending, TestParked, WriteWake, queues, locals
  <2> QED
    BY <2>2, <2>3, <2>4, <2>5, <2>6, <2>7, <2>8, <2>9, <2>10, SMTT(30) DEF Next, LoopStep, GoroutineStep
<1> QED
  BY <1>1, <1>2, <1>3, Zenon DEF CompletionInv

\* Two sequences of distinct elements, with none in common, one after the other.
LEMMA ConcatDistinct ==
  ASSUME NEW S, NEW s \in Seq(S), NEW t \in Seq(S)
  PROVE  /\ s \o t \in Seq(S)
         /\ Elements(s \o t) = Elements(s) \cup Elements(t)
         /\ Distinct(s) /\ Distinct(t) /\ Elements(s) \cap Elements(t) = {} => Distinct(s \o t)
<1> DEFINE u == s \o t
<1> DEFINE m == Len(s)
<1> DEFINE n == Len(t)
<1>1. /\ u \in Seq(S) /\ m \in Nat /\ n \in Nat /\ Len(u) = m + n
      /\ \A i \in 1..(m + n) : u[i] = IF i <= m THEN s[i] ELSE t[i - m]
      /\ DOMAIN s = 1..m /\ DOMAIN t = 1..n /\ DOMAIN u = 1..(m + n)
  BY SMTT(60)
<1> HIDE DEF u, m, n
<1>2. \A i \in 1..(m + n) : \/ i \in 1..m /\ u[i] = s[i]
                            \/ i - m \in 1..n /\ i > m /\ u[i] = t[i - m]
  BY <1>1
<1>3. /\ \A i \in 1..m : i \in 1..(m + n) /\ u[i] = s[i]
      /\ \A i \in 1..n : i + m \in 1..(m + n) /\ u[i + m] = t[i]
  <2>1. m \in Nat /\ n \in Nat
    BY <1>1, Zenon
  <2>2. \A i \in 1..m : i \in 1..(m + n) /\ i <= m
    BY <2>1
  <2>3. \A i \in 1..n : i + m \in 1..(m + n) /\ ~(i + m <= m) /\ (i + m) - m = i
    BY <2>1
  <2> QED
    BY <1>1, <2>2, <2>3, Zenon
<1>4. Elements(u) = Elements(s) \cup Elements(t)
  <2>1. \A i \in DOMAIN u : u[i] \in Elements(s) \cup Elements(t)
    BY <1>1, <1>2, Zenon DEF Elements
  <2>2. \A i \in DOMAIN s : s[i] \in Elements(u)
    BY <1>1, <1>3, Zenon DEF Elements
  <2>3. \A i \in DOMAIN t : t[i] \in Elements(u)
    BY <1>1, <1>3, Zenon DEF Elements
  <2> QED
    BY <2>1, <2>2, <2>3, Zenon DEF Elements
<1>5. ASSUME Distinct(s), Distinct(t), Elements(s) \cap Elements(t) = {}
      PROVE  Distinct(u)
  <2> SUFFICES ASSUME NEW i \in 1..(m + n), NEW j \in 1..(m + n), u[i] = u[j] PROVE i = j
    BY <1>1, Zenon DEF Distinct
  <2>1. \A k \in 1..m, l \in 1..n : s[k] # t[l]
    BY <1>1, <1>5, Zenon DEF Elements
  <2>2. /\ \A k, l \in 1..m : s[k] = s[l] => k = l
        /\ \A k, l \in 1..n : t[k] = t[l] => k = l
    BY <1>5, Zenon DEF Distinct, m, n
  <2>3. CASE i \in 1..m /\ u[i] = s[i]
    <3>1. j \in 1..m /\ u[j] = s[j]
      BY <1>2, <2>1, <2>3, ZenonT(60)
    <3> QED
      BY <2>2, <2>3, <3>1, Zenon
  <2>4. CASE i - m \in 1..n /\ i > m /\ u[i] = t[i - m]
    <3>1. j - m \in 1..n /\ j > m /\ u[j] = t[j - m]
      BY <1>2, <2>1, <2>4, Zenon
    <3>2. i - m = j - m
      BY <2>2, <2>4, <3>1, Zenon
    <3> QED
      BY <1>1, <3>2, SMTT(30)
  <2> QED
    BY <1>2, <2>3, <2>4, Zenon
<1> QED
  BY <1>1, <1>4, <1>5, ZenonT(30) DEF u

\* The batch and the stack of a protocol hold different completions.
LEMMA ApartElements ==
  ASSUME NEW S, NEW s \in Seq(S), NEW t \in Seq(S), Apart(s, t)
  PROVE  Elements(s) \cap Elements(t) = {}
<1>1. DOMAIN s = 1..Len(s) /\ DOMAIN t = 1..Len(t)
  OBVIOUS
<1> QED
  BY <1>1, Zenon DEF Apart, Elements

\* What a sequence of ended connections holds.
LEMMA EndedElements ==
  ASSUME NEW S, NEW s \in Seq(S), Ended(s)
  PROVE  Elements(s) \subseteq S /\ \A c \in Elements(s) : status[c] = "ended"
<1>1. DOMAIN s = 1..Len(s) /\ \A i \in 1..Len(s) : s[i] \in S
  OBVIOUS
<1> QED
  BY <1>1, Zenon DEF Ended, Elements

\* The invariant holds all a completion's property says.
LEMMA CompletionHeld == CompletionInv => CompletionHeldOnce
<1> SUFFICES ASSUME CompletionInv PROVE CompletionHeldOnce
  OBVIOUS
<1>1. TypeInv /\ HeldInv
  BY DEF CompletionInv, FinishInv
<1>2. /\ h1Done \in Seq(H1Conns) /\ h1Batch \in Seq(H1Conns)
      /\ h2Done \in Seq(H2Conns) /\ h2Batch \in Seq(H2Conns)
  BY <1>1, Zenon DEF TypeInv, TypeOK
<1>3. /\ h1Done \in Seq(Conns) /\ h1Batch \in Seq(Conns)
      /\ h2Done \in Seq(Conns) /\ h2Batch \in Seq(Conns)
  BY <1>2, LoopAssumption, SMTT(30) DEF H1Conns
<1>4. /\ Elements(h1Done) \subseteq H1Conns /\ Elements(h1Batch) \subseteq H1Conns
      /\ Elements(h2Done) \subseteq H2Conns /\ Elements(h2Batch) \subseteq H2Conns
      /\ \A c \in Elements(h1Done) \cup Elements(h1Batch) : status[c] = "ended"
      /\ \A c \in Elements(h2Done) \cup Elements(h2Batch) : status[c] = "ended"
  <2>1. Ended(h1Done) /\ Ended(h1Batch) /\ Ended(h2Done) /\ Ended(h2Batch)
    BY <1>1, Zenon DEF HeldInv
  <2> QED
    BY <1>2, <2>1, EndedElements, SMTT(30)
<1>5. H1Conns \cap H2Conns = {}
  BY Zenon DEF H1Conns
<1>6. Elements(h1Done) \cap Elements(h1Batch) = {} /\ Elements(h2Done) \cap Elements(h2Batch) = {}
  BY <1>1, <1>3, ApartElements, SMTT(30) DEF HeldInv
<1>7. Distinct(h1Done) /\ Distinct(h1Batch) /\ Distinct(h2Done) /\ Distinct(h2Batch)
  BY <1>1, ZenonT(60) DEF HeldInv
<1> DEFINE two == h1Done \o h2Done
<1> DEFINE three == two \o h1Batch
<1> DEFINE held == three \o h2Batch
<1>8. two \in Seq(Conns) /\ Distinct(two) /\ Elements(two) = Elements(h1Done) \cup Elements(h2Done)
  <2>1. Elements(h1Done) \cap Elements(h2Done) = {}
    BY <1>4, <1>5, ZenonT(60)
  <2> QED
    BY <1>3, <1>7, <2>1, ConcatDistinct, SMTT(30)
<1> HIDE DEF two
<1>9. three \in Seq(Conns) /\ Distinct(three) /\ Elements(three) = Elements(two) \cup Elements(h1Batch)
  <2>1. Elements(two) \cap Elements(h1Batch) = {}
    BY <1>4, <1>5, <1>6, <1>8, SMTT(30)
  <2> QED
    BY <1>3, <1>7, <1>8, <2>1, ConcatDistinct, SMTT(30)
<1> HIDE DEF three
<1>10. held \in Seq(Conns) /\ Distinct(held) /\ Elements(held) = Elements(three) \cup Elements(h2Batch)
  <2>1. Elements(three) \cap Elements(h2Batch) = {}
    BY <1>4, <1>5, <1>6, <1>8, <1>9, ZenonT(60)
  <2> QED
    BY <1>3, <1>7, <1>9, <2>1, ConcatDistinct, SMTT(30)
<1> HIDE DEF held
<1>11. \A i, j \in DOMAIN held : held[i] = held[j] => i = j
  BY <1>10 DEF Distinct
<1>12. \A c \in Conns : status[c] = "ended" <=> c \in Elements(held)
  BY <1>4, <1>8, <1>9, <1>10, ZenonT(60) DEF CompletionInv, HeldSomewhere
<1>13. held = h1Done \o h2Done \o h1Batch \o h2Batch
  BY ZenonT(60) DEF held, three, two
<1> QED
  BY <1>11, <1>12, <1>13, Zenon DEF CompletionHeldOnce

\* pushH1Done, pushH2Done, drainTasks: the queues keep their types and bounds, and
\* a completion is on its way to be finished exactly once, for any connections,
\* goroutines, queue size and number of rounds.
THEOREM CompletionsAreHeldOnce == Spec => []LoopSound
<1>1. Init => CompletionInv
  <2> SUFFICES ASSUME Init PROVE CompletionInv
    BY Zenon
  <2>1. FinishInv
    BY FinishInit, Zenon
  <2>2. EmptyBatches /\ HeldSomewhere
    BY Zenon DEF Init, EmptyBatches, HeldSomewhere
  <2> QED
    BY <2>1, <2>2, Zenon DEF CompletionInv
<1>2. CompletionInv => LoopSound
  BY CompletionHeld, Zenon DEF LoopSound, CompletionInv, FinishInv, TypeInv
<1> QED
  BY <1>1, <1>2, CompletionStep, PTL DEF Spec
================================================================================
