------------------------------ MODULE MCEpollLoop ------------------------------
(* A worker with one HTTP/1 and one HTTP/2 connection and two goroutines.       *)
EXTENDS EpollLoop
CONSTANTS c1, c2, g1, g2, none

MCConns == {c1, c2}
MCH2Conns == {c2}
MCGoroutines == {g1, g2}
MCNobody == none

\* drainTasks: every completion is finished and every late wake is served, by the
\* wake-up protocol alone.
WorkServed == CompletionsFinish /\ LateServed
================================================================================
