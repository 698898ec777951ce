------------------------------ MODULE WsReader ------------------------------
(***************************************************************************)
(* What reading a WebSocket means in this server: the blocking reader      *)
(* (ReadMessageInto, websocket.go), which takes the peer's stream one      *)
(* whole frame a step.  It is the specification the event-driven           *)
(* connection of WsLoop is shown to implement however the bytes of the     *)
(* frames are cut up on their way.  The judgements on a frame head, a      *)
(* length, a ping, a close frame and a complete message are shared code    *)
(* and are the operators of the first half.                                *)
(*                                                                         *)
(* A payload is a sequence of symbols: "a" a character of one byte, "<"    *)
(* and ">" the two bytes of one character, "z" a compressed byte that      *)
(* inflates to Growth characters, "f" a final deflate block, "!" garbage;  *)
(* in a close frame "c" and "x" are the bytes of a valid and of an         *)
(* invalid status.                                                         *)
(***************************************************************************)
EXTENDS Integers, Sequences, SequencesExt, FiniteSets

CONSTANTS
    Scripts,        \* the frame sequences a peer may send
    Deflate,        \* permessage-deflate was negotiated
    MaxMessage,     \* maxMessageSize
    MaxControl,     \* wsMaxControlPayload
    PingMax,        \* wsPingWindowMax
    Growth,         \* what a compressed byte inflates to
    ResetCost,      \* wsInflateResetOverheadBytes
    ResetBudget     \* max(limit, wsInflateResetBudgetFloor)

VARIABLES
    script,         \* the frames the peer sends
    rd              \* the reader

NoStatus == 1005
Protocol == 1002
Invalid == 1007
TooBig == 1009
Abnormal == 1006

\* A verdict: the close code noted and the one the close frame carries (0 for
\* a close frame without a status).
Fine == [note |-> 0, said |-> 0]
Bare == [note |-> Protocol, said |-> 0]
Status(code) == [note |-> code, said |-> code]

Control(op) == op \in {"close", "ping", "pong", "ctl"}

VetHead(f, in) ==
    LET rsvBad == /\ f.rsv # "none"
                  /\ \/ f.rsv # "1"
                     \/ ~Deflate
                     \/ f.op = "cont"
                     \/ Control(f.op)
    IN  CASE rsvBad \/ ~f.masked -> Bare
          [] Control(f.op) /\ (~f.fin \/ f.len > MaxControl \/ f.op = "ctl") -> Status(Protocol)
          [] Control(f.op) -> Fine
          [] f.op = "odd" -> Status(Protocol)
          [] in # (f.op = "cont") -> Bare
          [] OTHER -> Fine

VetLength(f, assembled) ==
    CASE f.len < 0 -> Bare
      [] f.len > MaxMessage - assembled -> Status(TooBig)
      [] OTHER -> Fine

\* validUTF8: every character is complete.
ValidUTF8(s) ==
    \A i \in 1..Len(s) :
        /\ s[i] \in {"a", "<", ">"}
        /\ s[i] = "<" => i < Len(s) /\ s[i + 1] = ">"
        /\ s[i] = ">" => i > 1 /\ s[i - 1] = "<"

\* wsInflate, one compressed symbol at a time: the limit is checked on what
\* comes out, and every final block but the last costs a reset.
InflateSymbol(limit, d, i, s) ==
    LET grown == IF s[i] = "z" THEN d.out \o [k \in 1..Growth |-> "a"]
                 ELSE IF s[i] = "f" THEN d.out
                 ELSE Append(d.out, s[i])
        cost == d.cost + Len(d.out) + ResetCost
    IN  IF d.bad # Fine THEN d
        ELSE IF s[i] = "!" THEN [d EXCEPT !.bad = Status(Invalid)]
        ELSE IF Len(grown) > limit THEN [d EXCEPT !.bad = Status(TooBig)]
        ELSE IF s[i] # "f" THEN [d EXCEPT !.out = grown]
        ELSE IF cost > ResetBudget THEN [d EXCEPT !.bad = Status(TooBig)]
        ELSE [d EXCEPT !.cost = cost]

Inflate(s, limit) ==
    FoldLeft(LAMBDA d, i : InflateSymbol(limit, d, i, s),
             [out |-> <<>>, cost |-> 0, bad |-> Fine], [i \in 1..Len(s) |-> i])

\* completeMessage.
Complete(op, comp, s) ==
    LET d == IF comp THEN Inflate(s, MaxMessage) ELSE [out |-> s, bad |-> Fine]
    IN  IF d.bad # Fine THEN [out |-> <<>>, bad |-> d.bad]
        ELSE IF op = "text" /\ ~ValidUTF8(d.out) THEN [out |-> <<>>, bad |-> Status(Invalid)]
        ELSE [out |-> d.out, bad |-> Fine]

\* handleCloseFrame: the status of a good close frame is echoed.
CloseVerdict(body) ==
    CASE Len(body) = 1 -> Status(Protocol)
      [] Len(body) = 0 -> [note |-> NoStatus, said |-> 0]
      [] body[1] = "x" -> Status(Protocol)
      [] ~ValidUTF8(SubSeq(body, 3, Len(body))) -> Status(Invalid)
      [] OTHER -> Status(1000)

\* handlePing: pings too close together, or too many of them in a window.
PingCount(pings, gap) == IF gap = "window" \/ pings = 0 THEN 1 ELSE pings + 1
PingVerdict(pings, gap) ==
    IF (pings > 0 /\ gap = "soon") \/ PingCount(pings, gap) > PingMax
    THEN Status(Protocol) ELSE Fine

-----------------------------------------------------------------------------
(* The reader: `at' is the next frame, `msg' the fragments assembled so     *)
(* far, `got' the messages delivered, `pongs' the answers to pings, `end'   *)
(* the verdict that ended it, `app' that the application closed.            *)

NewReader == [at |-> 1, in |-> FALSE, op |-> "", comp |-> FALSE, msg |-> <<>>,
              pings |-> 0, got |-> <<>>, pongs |-> 0, end |-> Fine, app |-> FALSE]

\* The reader and its verdict after frame f: [r, bad].
ControlFrame(r, f) ==
    LET v == CASE f.op = "close" -> CloseVerdict(f.body)
               [] f.op = "ping" -> PingVerdict(r.pings, f.gap)
               [] OTHER -> Fine
        p == IF f.op = "ping" THEN [r EXCEPT !.pings = PingCount(r.pings, f.gap)] ELSE r
    IN  [r |-> IF f.op = "ping" /\ v = Fine THEN [p EXCEPT !.pongs = @ + 1] ELSE p,
         bad |-> v]

DataFrame(r, f) ==
    LET s == IF r.in THEN r ELSE [r EXCEPT !.in = TRUE, !.op = f.op, !.comp = f.rsv = "1"]
        m == s.msg \o f.body
        d == Complete(s.op, s.comp, m)
        over == [s EXCEPT !.in = FALSE, !.op = "", !.comp = FALSE, !.msg = <<>>]
    IN  IF ~f.fin THEN [r |-> [s EXCEPT !.msg = m], bad |-> Fine]
        ELSE IF d.bad # Fine THEN [r |-> over, bad |-> d.bad]
        ELSE [r |-> [over EXCEPT !.got = Append(@, [op |-> s.op, body |-> d.out])], bad |-> Fine]

HeadVerdict(r, f) ==
    IF VetHead(f, r.in) # Fine THEN VetHead(f, r.in)
    ELSE VetLength(f, IF Control(f.op) THEN 0 ELSE Len(r.msg))

Reading == rd.end = Fine /\ rd.at <= Len(script)

\* A frame whose head is refused: nothing of it is read.
RefuseFrame ==
    /\ Reading
    /\ HeadVerdict(rd, script[rd.at]) # Fine
    /\ rd' = [rd EXCEPT !.end = HeadVerdict(rd, script[rd.at])]
    /\ UNCHANGED script

\* A whole frame.  A verdict ends the reader, except that one which comes
\* after the application closed the connection need not be acted on any more.
\* The application may close from the callback the frame leads to.
ReadFrame ==
    /\ Reading
    /\ HeadVerdict(rd, script[rd.at]) = Fine
    /\ LET f == script[rd.at]
           x == IF Control(f.op) THEN ControlFrame(rd, f) ELSE DataFrame(rd, f)
           r == [x.r EXCEPT !.at = @ + 1]
       IN  \/ rd' = [r EXCEPT !.end = x.bad]
           \/ x.bad = Fine /\ rd' = [r EXCEPT !.app = TRUE]
           \/ rd.app /\ x.bad # Fine /\ rd' = r
    /\ UNCHANGED script

\* The application, or the server for it, closes the connection.
AppClose ==
    /\ ~rd.app
    /\ rd.end = Fine
    /\ rd' = [rd EXCEPT !.app = TRUE]
    /\ UNCHANGED script

Init == script \in Scripts /\ rd = NewReader

Next == RefuseFrame \/ ReadFrame \/ AppClose

Spec == Init /\ [][Next]_<<script, rd>>
=============================================================================
