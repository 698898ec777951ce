--------------------------- MODULE BodyStreamProofs ---------------------------
(* Proofs about BodyStream, for bodies, windows, buffers and thresholds of any   *)
(* size.                                                                         *)
EXTENDS BodyStream, TLAPS

Readers == [buf : Nat, eof : BOOLEAN, err : BOOLEAN, closed : BOOLEAN, unacked : Nat,
            ackQueued : BOOLEAN, hit : BOOLEAN, at : 0..MaxTime]
Inputs == [proto : {"h1", "h2"}, broken : BOOLEAN, up : BOOLEAN, done : BOOLEAN, left : Nat,
           large : BOOLEAN, window : Nat, unread : Nat, pending : BOOLEAN, eof : BOOLEAN,
           hup : BOOLEAN, deadline : BOOLEAN, settle : BOOLEAN]
Nets == [left : Nat, bytes : Nat, fin : BOOLEAN, edge : BOOLEAN]
Clocks == [now : 1..MaxTime, timer : 0..MaxTime, firing : 0..2]
States == [b : Readers, i : Inputs, n : Nets]

TypeInv ==
    /\ br \in Readers /\ inn \in Inputs /\ net \in Nets
    /\ acks \in 0..2 /\ clock \in Clocks /\ hd \in {"run", "returned"}

\* Of an HTTP/1 body: every unit is with the peer, in the socket, in the connection's
\* buffer or with the reader, within the buffers' sizes.
Conserved(p) ==
    /\ p.b.buf + p.b.unacked + p.i.left <= Total
    /\ p.i.left = p.i.unread + p.n.bytes + p.n.left
    /\ p.b.buf <= Cap /\ p.i.unread <= ReadAhead

\* A body that is over has told its reader, and one that is not has a connection.
Told(p, h) ==
    /\ p.i.done => p.b.eof \/ p.b.err \/ h = "returned"
    /\ ~p.i.done => p.i.up

\* What was left in the socket without an edge is remembered.
Remembered(p) ==
    ~p.i.done /\ ~p.n.edge => /\ p.n.bytes > 0 => p.i.pending
                              /\ p.n.fin => p.i.hup

EmptyAcks(b) == b.buf = 0 /\ b.unacked > 0 /\ ~b.closed => b.ackQueued

\* An HTTP/1 connection whose reader has nothing, and no ack on its way, has nothing
\* either; it knows of the socket's end, and has a deadline once it is settled.
Served(p, h) ==
    h = "run" /\ p.b.buf = 0 /\ ~p.b.eof /\ ~p.b.err /\ ~p.b.closed =>
        /\ p.i.unread = 0
        /\ ~p.n.edge => p.n.bytes = 0
        /\ ~p.n.edge /\ p.n.fin => p.i.settle /\ p.i.eof
        /\ ~p.i.settle => p.i.deadline

\* What the loop's steps on an HTTP/1 body keep.
Sound(p, h) ==
    /\ p \in States /\ p.i.proto = "h1"
    /\ Conserved(p) /\ Told(p, h) /\ EmptyAcks(p.b)

\* What they leave alone.
Kept(p, q) ==
    /\ q.i.proto = p.i.proto /\ q.i.window = p.i.window /\ q.i.large = p.i.large
    /\ q.b.closed = p.b.closed /\ q.b.hit = p.b.hit /\ q.b.at = p.b.at
    /\ q.b.ackQueued = p.b.ackQueued
    /\ q.n.edge = p.n.edge /\ q.n.fin = p.n.fin

-------------------------------------------------------------------------------
(* The reader.                                                                 *)

\* push: the units go to the buffer, or to the acknowledgement of a closed reader.
LEMMA PushFacts ==
  ASSUME NEW b \in Readers, NEW n \in Nat
  PROVE  /\ Push(b, n) \in Readers
         /\ Push(b, n).eof = b.eof /\ Push(b, n).err = b.err /\ Push(b, n).closed = b.closed
         /\ Push(b, n).hit = b.hit /\ Push(b, n).at = b.at /\ Push(b, n).ackQueued = b.ackQueued
         /\ b.closed => Push(b, n).buf = b.buf /\ Push(b, n).unacked = b.unacked + n
         /\ ~b.closed => Push(b, n).buf = b.buf + n /\ Push(b, n).unacked = b.unacked
  BY DEF Push, Readers

\* finish: the reader has an end, and keeps what it holds.
LEMMA FinishFacts ==
  ASSUME NEW b \in Readers, NEW c \in {FinishBody(b, TRUE), FinishBody(b, FALSE)}
  PROVE  /\ c \in Readers /\ (c.eof \/ c.err)
         /\ c.buf = b.buf /\ c.unacked = b.unacked /\ c.closed = b.closed
         /\ c.hit = b.hit /\ c.at = b.at /\ c.ackQueued = b.ackQueued
<1>1. CASE c = b /\ (b.eof \/ b.err)
  BY <1>1, Zenon DEF Readers
<1>2. CASE c = [b EXCEPT !.err = TRUE]
  BY <1>2, Zenon DEF Readers
<1>3. CASE c = [b EXCEPT !.eof = TRUE]
  BY <1>3, Zenon DEF Readers
<1> QED
  BY <1>1, <1>2, <1>3, Zenon DEF FinishBody

\* claimAckLocked: at most the flag changes, and it is up when an open reader is empty
\* and has something to acknowledge.
LEMMA ClaimFacts ==
  ASSUME NEW b \in Readers
  PROVE  /\ ClaimAck(b) \in Readers
         /\ ClaimAck(b).buf = b.buf /\ ClaimAck(b).unacked = b.unacked
         /\ ClaimAck(b).eof = b.eof /\ ClaimAck(b).err = b.err /\ ClaimAck(b).closed = b.closed
         /\ ClaimAck(b).hit = b.hit /\ ClaimAck(b).at = b.at
         /\ b.ackQueued => ClaimAck(b).ackQueued
         /\ b.buf = 0 /\ b.unacked > 0 => ClaimAck(b).ackQueued
<1>1. CASE ClaimAck(b) = b
  BY <1>1, SMTT(20) DEF ClaimAck, Readers
<1>2. CASE ClaimAck(b) = [b EXCEPT !.ackQueued = TRUE]
  BY <1>2, Zenon DEF Readers
<1> QED
  BY <1>1, <1>2, Zenon DEF ClaimAck

\* takeAck.
LEMMA TakeFacts ==
  ASSUME NEW b \in Readers
  PROVE  /\ TakeAck(b) \in Readers
         /\ TakeAck(b).buf = b.buf /\ TakeAck(b).unacked = 0 /\ TakeAck(b).ackQueued = FALSE
         /\ TakeAck(b).eof = b.eof /\ TakeAck(b).err = b.err /\ TakeAck(b).closed = b.closed
         /\ TakeAck(b).hit = b.hit /\ TakeAck(b).at = b.at
<1> DEFINE mid == [b EXCEPT !.unacked = 0]
<1>1. /\ mid \in Readers /\ mid.unacked = 0
      /\ mid.buf = b.buf /\ mid.eof = b.eof /\ mid.err = b.err /\ mid.closed = b.closed
      /\ mid.hit = b.hit /\ mid.at = b.at
  BY Zenon DEF Readers
<1>2. TakeAck(b) = [mid EXCEPT !.ackQueued = FALSE]
  BY Zenon DEF TakeAck, Readers
<1> HIDE DEF mid
<1> QED
  BY <1>1, <1>2, ZenonT(60) DEF Readers

-------------------------------------------------------------------------------
(* The loop's steps on an HTTP/1 body.                                         *)

\* The fields of h1FeedBody's result.
LEMMA FeedFields ==
  ASSUME NEW p \in States, NEW n \in Nat, n <= p.i.unread
  PROVE  LET q == FeedUnits(p, n)
         IN  /\ q \in States /\ q.n = p.n
             /\ q.i.proto = p.i.proto /\ q.i.up = p.i.up /\ q.i.large = p.i.large
             /\ q.i.window = p.i.window /\ q.i.pending = p.i.pending /\ q.i.eof = p.i.eof
             /\ q.i.hup = p.i.hup /\ q.i.deadline = p.i.deadline /\ q.i.settle = p.i.settle
             /\ q.i.unread = p.i.unread - n
             /\ p.i.left > n => /\ q.i.left = p.i.left - n /\ q.i.done = p.i.done
                                /\ q.b = Push(p.b, n)
             /\ ~(p.i.left > n) => /\ q.i.left = 0 /\ q.i.done
                                   /\ q.b \in {FinishBody(p.b, TRUE), FinishBody(Push(p.b, n), FALSE)}
<1>1. Push(p.b, n) \in Readers /\ p.b \in Readers /\ p.i \in Inputs
  BY PushFacts, Zenon DEF States
<1>0. p.i.unread - n \in Nat /\ p.i.left \in Nat /\ (p.i.left > n => p.i.left - n \in Nat)
  BY <1>1 DEF Inputs
<1>2. FinishBody(p.b, TRUE) \in Readers /\ FinishBody(Push(p.b, n), FALSE) \in Readers
  BY <1>1, FinishFacts, Zenon
<1>3. CASE p.i.left > n
  <2> DEFINE j == [p.i EXCEPT !.unread = p.i.unread - n, !.left = p.i.left - n]
  <2>1. FeedUnits(p, n) = [p EXCEPT !.i = j, !.b = Push(p.b, n)]
    BY <1>1, <1>3, Zenon DEF FeedUnits, States
  <2>2. /\ FeedUnits(p, n).b = Push(p.b, n) /\ FeedUnits(p, n).i = j /\ FeedUnits(p, n).n = p.n
    BY <1>1, <2>1, Zenon DEF States, Inputs
  <2>3. j \in Inputs
    BY <1>0, <1>1, <1>3, Zenon DEF Inputs
  <2>4. FeedUnits(p, n) \in States
    <3> HIDE DEF j
    <3> QED
      BY <1>1, <2>1, <2>3, Zenon DEF States
  <2>5. /\ j.proto = p.i.proto /\ j.up = p.i.up /\ j.large = p.i.large /\ j.window = p.i.window
        /\ j.pending = p.i.pending /\ j.eof = p.i.eof /\ j.hup = p.i.hup
        /\ j.deadline = p.i.deadline /\ j.settle = p.i.settle
        /\ j.unread = p.i.unread - n /\ j.left = p.i.left - n /\ j.done = p.i.done
    BY <1>1, Zenon DEF Inputs
  <2> HIDE DEF j
  <2> QED
    BY <1>3, <2>2, <2>4, <2>5, Zenon
<1>4. CASE ~(p.i.left > n)
  <2> DEFINE j == [p.i EXCEPT !.unread = p.i.unread - n, !.left = 0, !.done = TRUE]
  <2> DEFINE c == IF p.i.broken THEN FinishBody(p.b, TRUE) ELSE FinishBody(Push(p.b, n), FALSE)
  <2>0. FeedUnits(p, n) = [p EXCEPT !.i = j, !.b = c]
    BY <1>1, <1>4, Zenon DEF FeedUnits, States
  <2>1. /\ FeedUnits(p, n).b = c /\ FeedUnits(p, n).i = j /\ FeedUnits(p, n).n = p.n
    BY <1>1, <2>0, Zenon DEF States
  <2>2. j \in Inputs /\ c \in Readers
    BY <1>0, <1>1, <1>2, <1>4, Zenon DEF Inputs
  <2>3. FeedUnits(p, n) \in States
    <3> HIDE DEF j, c
    <3> QED
      BY <1>1, <2>0, <2>2, Zenon DEF States
  <2>4. /\ j.proto = p.i.proto /\ j.up = p.i.up /\ j.large = p.i.large /\ j.window = p.i.window
        /\ j.pending = p.i.pending /\ j.eof = p.i.eof /\ j.hup = p.i.hup
        /\ j.deadline = p.i.deadline /\ j.settle = p.i.settle
        /\ j.unread = p.i.unread - n /\ j.left = 0 /\ j.done
    BY <1>1, Zenon DEF Inputs
  <2> HIDE DEF j
  <2> QED
    BY <1>4, <2>1, <2>3, <2>4, Zenon
<1> QED
  BY <1>3, <1>4, Zenon

\* h1FeedBody: the reader gets what it has room for; what stays in the connection's
\* buffer stays because the reader is full.
LEMMA FeedSound ==
  ASSUME Sizes, NEW p, NEW h, Sound(p, h)
  PROVE  LET q == FeedBody(p)
         IN  /\ Sound(q, h) /\ Kept(p, q) /\ q.n = p.n
             /\ q.i.up = p.i.up /\ q.i.pending = p.i.pending /\ q.i.eof = p.i.eof
             /\ q.i.hup = p.i.hup /\ q.i.deadline = p.i.deadline /\ q.i.settle = p.i.settle
             /\ p.i.done => q = p
             /\ ~q.i.done => ~p.i.done
             /\ ~q.i.done /\ ~q.b.closed => /\ q.i.unread > 0 => q.b.buf = Cap
                                            /\ p.i.unread > 0 => q.b.buf > 0
<1>1. p \in States /\ p.b \in Readers /\ p.i \in Inputs /\ p.n \in Nets
  BY Zenon DEF Sound, States
<1>2. CASE p.i.done
  BY <1>1, <1>2, Zenon DEF FeedBody, Kept
<1>3. CASE ~p.i.done
  <2> DEFINE n == Min2(p.i.unread, Cap - p.b.buf)
  <2> DEFINE q == FeedUnits(p, n)
  <2>1. /\ p.b.buf \in Nat /\ p.b.unacked \in Nat /\ p.i.left \in Nat /\ p.i.unread \in Nat
        /\ p.n.bytes \in Nat /\ p.n.left \in Nat /\ Cap \in Nat /\ Cap > 0 /\ Total \in Nat
        /\ ReadAhead \in Nat
    BY <1>1 DEF Readers, Inputs, Nets, Sizes
  <2>2. /\ p.b.buf <= Cap /\ p.i.unread <= ReadAhead
        /\ p.b.buf + p.b.unacked + p.i.left <= Total
        /\ p.i.left = p.i.unread + p.n.bytes + p.n.left
    BY Zenon DEF Sound, Conserved
  <2>3. /\ n \in Nat /\ n <= p.i.unread /\ n + p.b.buf <= Cap
        /\ p.i.unread > n => n + p.b.buf = Cap
        /\ p.i.unread > 0 => n > 0 \/ p.b.buf = Cap
    BY <2>1, <2>2 DEF Min2
  <2> HIDE DEF n
  <2>4. FeedBody(p) = q
    BY <1>3, Zenon DEF FeedBody, n
  <2>5. /\ q \in States /\ q.n = p.n
        /\ q.i.proto = p.i.proto /\ q.i.up = p.i.up /\ q.i.large = p.i.large
        /\ q.i.window = p.i.window /\ q.i.pending = p.i.pending /\ q.i.eof = p.i.eof
        /\ q.i.hup = p.i.hup /\ q.i.deadline = p.i.deadline /\ q.i.settle = p.i.settle
        /\ q.i.unread = p.i.unread - n
        /\ p.i.left > n => /\ q.i.left = p.i.left - n /\ q.i.done = p.i.done
                           /\ q.b = Push(p.b, n)
        /\ ~(p.i.left > n) => /\ q.i.left = 0 /\ q.i.done
                              /\ q.b \in {FinishBody(p.b, TRUE), FinishBody(Push(p.b, n), FALSE)}
    BY <1>1, <2>3, FeedFields, Zenon
  <2> HIDE DEF q
  <2>6. p.i.proto = "h1" /\ EmptyAcks(p.b) /\ p.i.up
    BY <1>3, Zenon DEF Sound, Told
  <2>7. /\ Push(p.b, n) \in Readers
        /\ Push(p.b, n).eof = p.b.eof /\ Push(p.b, n).err = p.b.err
        /\ Push(p.b, n).closed = p.b.closed /\ Push(p.b, n).hit = p.b.hit
        /\ Push(p.b, n).at = p.b.at /\ Push(p.b, n).ackQueued = p.b.ackQueued
        /\ p.b.closed => Push(p.b, n).buf = p.b.buf /\ Push(p.b, n).unacked = p.b.unacked + n
        /\ ~p.b.closed => Push(p.b, n).buf = p.b.buf + n /\ Push(p.b, n).unacked = p.b.unacked
    BY <1>1, <2>3, PushFacts, ZenonT(60)
  <2>8. /\ q.b.closed = p.b.closed /\ q.b.hit = p.b.hit /\ q.b.at = p.b.at
        /\ q.b.ackQueued = p.b.ackQueued /\ q.b.buf \in Nat /\ q.b.unacked \in Nat
        /\ q.i.done => q.b.eof \/ q.b.err
        /\ \/ q.b.buf = p.b.buf /\ q.b.unacked = p.b.unacked /\ q.i.done
           \/ p.b.closed /\ q.b.buf = p.b.buf /\ q.b.unacked = p.b.unacked + n
           \/ ~p.b.closed /\ q.b.buf = p.b.buf + n /\ q.b.unacked = p.b.unacked
    <3>1. CASE p.i.left > n
      BY <1>3, <2>1, <2>3, <2>5, <2>7, <3>1
    <3>2. CASE ~(p.i.left > n) /\ q.b = FinishBody(p.b, TRUE)
      <4>1. /\ q.b.eof \/ q.b.err
            /\ q.b.buf = p.b.buf /\ q.b.unacked = p.b.unacked
            /\ q.b.closed = p.b.closed /\ q.b.hit = p.b.hit
            /\ q.b.at = p.b.at /\ q.b.ackQueued = p.b.ackQueued
        <5>1. q.b \in {FinishBody(p.b, TRUE), FinishBody(p.b, FALSE)}
          BY <3>2, Zenon
        <5> QED
          BY <1>1, <5>1, FinishFacts, ZenonT(60)
      <4> QED
        BY <2>1, <2>5, <3>2, <4>1, Zenon
    <3>3. CASE ~(p.i.left > n) /\ q.b = FinishBody(Push(p.b, n), FALSE)
      <4> DEFINE c == Push(p.b, n)
      <4>1. /\ q.b.eof \/ q.b.err
            /\ q.b.buf = c.buf /\ q.b.unacked = c.unacked
            /\ q.b.closed = c.closed /\ q.b.hit = c.hit
            /\ q.b.at = c.at /\ q.b.ackQueued = c.ackQueued
        <5>1. q.b \in {FinishBody(c, TRUE), FinishBody(c, FALSE)}
          BY <3>3, Zenon
        <5>2. c \in Readers
          BY <2>7, Zenon
        <5> QED
          BY <5>1, <5>2, FinishFacts, Zenon
      <4> QED
        BY <2>1, <2>3, <2>7, <4>1
    <3> QED
      BY <2>5, <3>1, <3>2, <3>3, Zenon
  <2>9. Conserved(q)
    <3>1. CASE p.i.left > n
      BY <2>1, <2>2, <2>3, <2>5, <2>8, <3>1, SMTT(30) DEF Conserved
    <3>2. CASE ~(p.i.left > n)
      <4>1. n = p.i.left /\ p.i.unread = n /\ p.n.bytes = 0 /\ p.n.left = 0
        BY <2>1, <2>2, <2>3, <3>2, SMTT(30)
      <4>2. q.i.left = 0 /\ q.i.unread = 0
        <5>1. q.i.left = 0 /\ q.i.unread = p.i.unread - n
          BY <2>5, <3>2, Zenon
        <5> QED
          BY <2>1, <4>1, <5>1
      <4>3. q.b.buf + q.b.unacked <= Total /\ q.b.buf <= Cap
        <5>1. CASE q.b.buf = p.b.buf /\ q.b.unacked = p.b.unacked
          BY <2>1, <2>2, <5>1, SMTT(30)
        <5>2. CASE q.b.buf = p.b.buf /\ q.b.unacked = p.b.unacked + n
          BY <2>1, <2>2, <2>3, <4>1, <5>2, SMTT(30)
        <5>3. CASE q.b.buf = p.b.buf + n /\ q.b.unacked = p.b.unacked
          BY <2>1, <2>2, <2>3, <4>1, <5>3
        <5> QED
          BY <2>8, <5>1, <5>2, <5>3, Zenon
      <4> QED
        BY <2>1, <2>5, <2>8, <4>1, <4>2, <4>3, SMTT(30) DEF Conserved
    <3> QED
      BY <3>1, <3>2, ZenonT(60)
  <2>10. Told(q, h) /\ EmptyAcks(q.b)
    <3>1. Told(q, h)
      BY <2>5, <2>6, <2>8, Zenon DEF Told
    <3>2. EmptyAcks(q.b)
      <4>1. p.b.buf + n = 0 => p.b.buf = 0
        BY <2>1, <2>3
      <4>2. CASE q.b.buf = p.b.buf /\ q.b.unacked = p.b.unacked
        BY <2>6, <2>8, <4>2, Zenon DEF EmptyAcks
      <4>3. CASE p.b.closed
        BY <2>8, <4>3, Zenon DEF EmptyAcks
      <4>4. CASE ~p.b.closed /\ q.b.buf = p.b.buf + n /\ q.b.unacked = p.b.unacked
        BY <2>6, <2>8, <4>1, <4>4, Zenon DEF EmptyAcks
      <4> QED
        BY <2>8, <4>2, <4>3, <4>4, Zenon
    <3> QED
      BY <3>1, <3>2, Zenon
  <2>11. Kept(p, q)
    BY <2>5, <2>8, Zenon DEF Kept
  <2>12. ~q.i.done /\ ~q.b.closed => /\ q.i.unread > 0 => q.b.buf = Cap
                                     /\ p.i.unread > 0 => q.b.buf > 0
    <3> SUFFICES ASSUME ~q.i.done, ~q.b.closed
                 PROVE  /\ q.i.unread > 0 => q.b.buf = Cap
                        /\ p.i.unread > 0 => q.b.buf > 0
      BY Zenon
    <3>1. q.b.buf = p.b.buf + n /\ q.i.unread = p.i.unread - n
      BY <2>5, <2>8, Zenon
    <3> QED
      BY <2>1, <2>3, <3>1
  <2> QED
    BY <1>3, <2>4, <2>5, <2>6, <2>9, <2>10, <2>11, <2>12, Zenon DEF Sound
<1> QED
  BY <1>2, <1>3, Zenon

\* closeConn: the body is over, and the reader knows.
LEMMA ClosedFields ==
  ASSUME NEW p \in States
  PROVE  LET q == Closed(p)
         IN  /\ q \in States /\ q.n = p.n
             /\ q.i.proto = p.i.proto /\ q.i.large = p.i.large /\ q.i.window = p.i.window
             /\ q.i.left = p.i.left /\ q.i.unread = p.i.unread
             /\ q.i.up = FALSE /\ q.i.done = TRUE /\ q.i.settle = FALSE
             /\ q.b.buf = p.b.buf /\ q.b.unacked = p.b.unacked /\ q.b.closed = p.b.closed
             /\ q.b.hit = p.b.hit /\ q.b.at = p.b.at /\ q.b.ackQueued = p.b.ackQueued
             /\ p.i.done => q.b = p.b
             /\ ~p.i.done => q.b.eof \/ q.b.err
<1> DEFINE c == IF p.i.done THEN p.b ELSE FinishBody(p.b, TRUE)
<1> DEFINE j == [p.i EXCEPT !.up = FALSE, !.done = TRUE, !.settle = FALSE]
<1>1. p.b \in Readers /\ p.i \in Inputs /\ p.n \in Nets
  BY Zenon DEF States
<1>2. /\ c \in Readers
      /\ c.buf = p.b.buf /\ c.unacked = p.b.unacked /\ c.closed = p.b.closed
      /\ c.hit = p.b.hit /\ c.at = p.b.at /\ c.ackQueued = p.b.ackQueued
      /\ p.i.done => c = p.b
      /\ ~p.i.done => c.eof \/ c.err
  <2>1. CASE p.i.done
    BY <1>1, <2>1, Zenon
  <2>2. CASE ~p.i.done
    <3>1. c \in {FinishBody(p.b, TRUE), FinishBody(p.b, FALSE)}
      BY <2>2, Zenon
    <3> HIDE DEF c
    <3> QED
      BY <1>1, <2>2, <3>1, FinishFacts, ZenonT(60)
  <2> QED
    BY <2>1, <2>2, Zenon
<1>3. j \in Inputs
  BY <1>1, ZenonT(60) DEF Inputs
<1>4. /\ j.proto = p.i.proto /\ j.large = p.i.large /\ j.window = p.i.window
      /\ j.left = p.i.left /\ j.unread = p.i.unread
      /\ j.up = FALSE /\ j.done = TRUE /\ j.settle = FALSE
  BY <1>1, Zenon DEF Inputs
<1>5. Closed(p) = [p EXCEPT !.i = j, !.b = c]
  BY Zenon DEF Closed
<1> HIDE DEF c, j
<1>6. Closed(p) \in States /\ Closed(p).n = p.n /\ Closed(p).b = c /\ Closed(p).i = j
  BY <1>1, <1>2, <1>3, <1>5, Zenon DEF States
<1> QED
  BY <1>2, <1>4, <1>6, Zenon

\* Closing keeps what is true of a body.
LEMMA ClosedSound ==
  ASSUME NEW p, NEW h, Sound(p, h)
  PROVE  Sound(Closed(p), h) /\ Kept(p, Closed(p))
<1> DEFINE q == Closed(p)
<1>1. /\ q \in States /\ q.n = p.n
      /\ q.i.proto = p.i.proto /\ q.i.large = p.i.large /\ q.i.window = p.i.window
      /\ q.i.left = p.i.left /\ q.i.unread = p.i.unread
      /\ q.i.up = FALSE /\ q.i.done = TRUE /\ q.i.settle = FALSE
      /\ q.b.buf = p.b.buf /\ q.b.unacked = p.b.unacked /\ q.b.closed = p.b.closed
      /\ q.b.hit = p.b.hit /\ q.b.at = p.b.at /\ q.b.ackQueued = p.b.ackQueued
      /\ p.i.done => q.b = p.b
      /\ ~p.i.done => q.b.eof \/ q.b.err
  BY ClosedFields, Zenon DEF Sound
<1> HIDE DEF q
<1>2. Conserved(q)
  BY <1>1, Zenon DEF Sound, Conserved
<1>3. Told(q, h)
  BY <1>1, Zenon DEF Sound, Told
<1>4. EmptyAcks(q.b)
  BY <1>1, Zenon DEF Sound, EmptyAcks
<1> QED
  BY <1>1, <1>2, <1>3, <1>4, Zenon DEF Sound, Kept, q

\* abortStarvedBody closes a connection whose peer is gone and whose buffer is empty.
LEMMA StarvedSound ==
  ASSUME NEW p, NEW h, Sound(p, h)
  PROVE  LET q == AbortStarved(p)
         IN  /\ Sound(q, h) /\ Kept(p, q)
             /\ \/ q = p /\ ~(p.i.up /\ p.i.eof /\ ~p.i.done /\ p.i.unread = 0)
                \/ q.i.done /\ q.i.up = FALSE /\ q.n = p.n
<1>1. CASE p.i.up /\ p.i.eof /\ ~p.i.done /\ p.i.unread = 0
  <2>1. AbortStarved(p) = Closed(p)
    BY <1>1, Zenon DEF AbortStarved
  <2>2. Closed(p).i.done /\ Closed(p).i.up = FALSE /\ Closed(p).n = p.n
    BY ClosedFields, Zenon DEF Sound
  <2> QED
    BY <2>1, <2>2, ClosedSound, Zenon
<1>2. CASE ~(p.i.up /\ p.i.eof /\ ~p.i.done /\ p.i.unread = 0)
  BY <1>2, Zenon DEF AbortStarved, Kept
<1> QED
  BY <1>1, <1>2, Zenon

\* The fields of what readOnce has read.
LEMMA DrainedFields ==
  ASSUME NEW p \in States, NEW n \in Nat, n <= p.n.bytes
  PROVE  LET q == Drained(p, n)
         IN  /\ q \in States /\ q.b = p.b
             /\ q.n.bytes = p.n.bytes - n /\ q.n.left = p.n.left /\ q.n.fin = p.n.fin
             /\ q.n.edge = p.n.edge
             /\ q.i.proto = p.i.proto /\ q.i.up = p.i.up /\ q.i.done = p.i.done
             /\ q.i.large = p.i.large /\ q.i.window = p.i.window /\ q.i.left = p.i.left
             /\ q.i.hup = p.i.hup /\ q.i.unread = p.i.unread + n
             /\ n < p.n.bytes => q.i.pending
             /\ p.i.eof \/ (p.n.fin /\ p.i.hup /\ n = p.n.bytes /\ n = 0) => q.i.eof
<1> DEFINE full == n > 0 /\ p.i.unread + n = ReadAhead
<1> DEFINE pend == n < p.n.bytes \/ (full /\ p.i.hup)
<1> DEFINE end == p.i.eof \/ (p.n.fin /\ p.i.hup /\ n = p.n.bytes /\ ~full)
<1> DEFINE j == [p.i EXCEPT !.pending = pend, !.unread = p.i.unread + n, !.eof = end]
<1> DEFINE m == [p.n EXCEPT !.bytes = p.n.bytes - n]
<1>1. p.b \in Readers /\ p.i \in Inputs /\ p.n \in Nets
  BY Zenon DEF States
<1>2. p.i.unread + n \in Nat /\ p.n.bytes - n \in Nat
  BY <1>1 DEF Inputs, Nets
<1>3. pend \in BOOLEAN /\ end \in BOOLEAN
  BY <1>1, Zenon DEF Inputs
<1>4. Drained(p, n) = [p EXCEPT !.i = j, !.n = m]
  BY Zenon DEF Drained
<1>5. /\ n < p.n.bytes => pend
      /\ p.i.eof \/ (p.n.fin /\ p.i.hup /\ n = p.n.bytes /\ n = 0) => end
  OBVIOUS
<1> HIDE DEF pend, end
<1>6. j \in Inputs /\ m \in Nets
  BY <1>1, <1>2, <1>3, ZenonT(60) DEF Inputs, Nets
<1>7. /\ j.proto = p.i.proto /\ j.up = p.i.up /\ j.done = p.i.done
      /\ j.large = p.i.large /\ j.window = p.i.window /\ j.left = p.i.left
      /\ j.hup = p.i.hup /\ j.unread = p.i.unread + n /\ j.pending = pend /\ j.eof = end
  BY <1>1, <1>2, <1>3, Zenon DEF Inputs
<1>8. m.bytes = p.n.bytes - n /\ m.left = p.n.left /\ m.fin = p.n.fin /\ m.edge = p.n.edge
  BY <1>1, <1>2, Zenon DEF Nets
<1> HIDE DEF j, m
<1>9. Drained(p, n) \in States /\ Drained(p, n).n = m /\ Drained(p, n).b = p.b /\ Drained(p, n).i = j
  BY <1>1, <1>4, <1>6, Zenon DEF States
<1> QED
  BY <1>5, <1>7, <1>8, <1>9, Zenon

\* What the connection's flags do not touch.
SameBody(i, j) ==
    /\ j.proto = i.proto /\ j.large = i.large /\ j.window = i.window /\ j.left = i.left
    /\ j.unread = i.unread /\ j.up = i.up /\ j.done = i.done

\* Setting one of the connection's flags.
LEMMA SetFlags ==
  ASSUME NEW p \in States, NEW v \in BOOLEAN
  PROVE  /\ LET q == [p EXCEPT !.i.pending = v]
            IN  /\ q \in States /\ q.b = p.b /\ q.n = p.n /\ SameBody(p.i, q.i) /\ q.i.pending = v
                /\ q.i.hup = p.i.hup
         /\ LET q == [p EXCEPT !.i.settle = v]
            IN  /\ q \in States /\ q.b = p.b /\ q.n = p.n /\ SameBody(p.i, q.i) /\ q.i.settle = v
                /\ q.i.hup = p.i.hup /\ q.i.pending = p.i.pending /\ q.i.eof = p.i.eof
<1>1. p.b \in Readers /\ p.i \in Inputs /\ p.n \in Nets
  BY Zenon DEF States
<1>3. LET q == [p EXCEPT !.i.pending = v]
      IN  /\ q \in States /\ q.b = p.b /\ q.n = p.n /\ SameBody(p.i, q.i) /\ q.i.pending = v
          /\ q.i.hup = p.i.hup
  BY <1>1, ZenonT(30) DEF States, Inputs, SameBody
<1>4. LET q == [p EXCEPT !.i.settle = v]
      IN  /\ q \in States /\ q.b = p.b /\ q.n = p.n /\ SameBody(p.i, q.i) /\ q.i.settle = v
          /\ q.i.hup = p.i.hup /\ q.i.pending = p.i.pending /\ q.i.eof = p.i.eof
  BY <1>1, ZenonT(60) DEF States, Inputs, SameBody
<1> QED
  BY <1>3, <1>4, Zenon

\* A flag of the connection changes nothing of the body.
LEMMA FlagSound ==
  ASSUME NEW p, NEW h, Sound(p, h), NEW q \in States, q.b = p.b, q.n = p.n, SameBody(p.i, q.i)
  PROVE  Sound(q, h) /\ Kept(p, q)
<1>1. Conserved(q)
  BY Zenon DEF Sound, Conserved, SameBody
<1>2. Told(q, h)
  BY Zenon DEF Sound, Told, SameBody
<1> QED
  BY <1>1, <1>2, Zenon DEF Sound, Kept, SameBody

\* Keeping is transitive.
LEMMA KeptTrans ==
  ASSUME NEW p, NEW q, NEW r, Kept(p, q), Kept(q, r) PROVE Kept(p, r)
  BY Zenon DEF Kept

\* serviceBuffered feeds the reader and leaves the deadline to the end of the step.
LEMMA ServiceSound ==
  ASSUME Sizes, NEW p, NEW h, Sound(p, h)
  PROVE  LET q == Service(p)
         IN  /\ Sound(q, h) /\ Kept(p, q) /\ q.n = p.n /\ q.i.settle = TRUE
             /\ q.i.pending = p.i.pending /\ q.i.eof = p.i.eof /\ q.i.hup = p.i.hup
             /\ ~q.i.done => ~p.i.done
             /\ ~q.i.done /\ ~q.b.closed => /\ q.i.unread > 0 => q.b.buf = Cap
                                            /\ p.i.unread > 0 => q.b.buf > 0
<1> DEFINE f == FeedBody(p)
<1>1. /\ Sound(f, h) /\ Kept(p, f) /\ f.n = p.n
      /\ f.i.pending = p.i.pending /\ f.i.eof = p.i.eof /\ f.i.hup = p.i.hup
      /\ ~f.i.done => ~p.i.done
      /\ ~f.i.done /\ ~f.b.closed => /\ f.i.unread > 0 => f.b.buf = Cap
                                     /\ p.i.unread > 0 => f.b.buf > 0
  BY FeedSound, Zenon
<1> DEFINE q == [f EXCEPT !.i.settle = TRUE]
<1>2. Service(p) = q
  BY Zenon DEF Service
<1> HIDE DEF f
<1>3. /\ q \in States /\ q.b = f.b /\ q.n = f.n /\ SameBody(f.i, q.i) /\ q.i.settle = TRUE
      /\ q.i.hup = f.i.hup /\ q.i.pending = f.i.pending /\ q.i.eof = f.i.eof
  BY <1>1, SetFlags, ZenonT(60) DEF Sound
<1> HIDE DEF q
<1>4. Sound(q, h) /\ Kept(f, q)
  BY <1>1, <1>3, FlagSound, Zenon
<1>5. Kept(p, q)
  BY <1>1, <1>4, KeptTrans, ZenonT(30)
<1> QED
  BY <1>1, <1>2, <1>3, <1>4, <1>5, ZenonT(60) DEF SameBody

\* What readOnce moves from the socket to the buffer.
LEMMA DrainedSound ==
  ASSUME Sizes, NEW p, NEW h, Sound(p, h)
  PROVE  LET n == Min2(p.n.bytes, ReadAhead - p.i.unread)
             r == Drained(p, n)
         IN  /\ Sound(r, h) /\ Kept(p, r) /\ r.i.hup = p.i.hup /\ r.i.done = p.i.done
             /\ r.n.bytes > 0 => r.i.pending /\ r.i.unread > 0
             /\ r.i.unread = 0 /\ p.n.fin /\ p.i.hup => r.i.eof
<1> DEFINE n == Min2(p.n.bytes, ReadAhead - p.i.unread)
<1> DEFINE r == Drained(p, n)
<1>1. p \in States /\ p.b \in Readers /\ p.i \in Inputs /\ p.n \in Nets
  BY Zenon DEF Sound, States
<1>2. /\ p.n.bytes \in Nat /\ p.n.left \in Nat /\ p.i.unread \in Nat /\ p.i.left \in Nat
      /\ ReadAhead \in Nat /\ ReadAhead > 0 /\ p.i.unread <= ReadAhead
      /\ p.i.left = p.i.unread + p.n.bytes + p.n.left
  BY <1>1 DEF Inputs, Nets, Sizes, Sound, Conserved
<1>3. /\ n \in Nat /\ n <= p.n.bytes /\ p.i.unread + n <= ReadAhead
      /\ n < p.n.bytes => p.i.unread + n = ReadAhead
  BY <1>2 DEF Min2
<1> HIDE DEF n
<1>4. /\ r \in States /\ r.b = p.b
      /\ r.n.bytes = p.n.bytes - n /\ r.n.left = p.n.left /\ r.n.fin = p.n.fin
      /\ r.n.edge = p.n.edge
      /\ r.i.proto = p.i.proto /\ r.i.up = p.i.up /\ r.i.done = p.i.done
      /\ r.i.large = p.i.large /\ r.i.window = p.i.window /\ r.i.left = p.i.left
      /\ r.i.hup = p.i.hup /\ r.i.unread = p.i.unread + n
      /\ n < p.n.bytes => r.i.pending
      /\ p.i.eof \/ (p.n.fin /\ p.i.hup /\ n = p.n.bytes /\ n = 0) => r.i.eof
  BY <1>1, <1>3, DrainedFields, Zenon
<1> HIDE DEF r
<1>5. Conserved(r)
  <2>1. r.i.left = r.i.unread + r.n.bytes + r.n.left /\ r.i.unread <= ReadAhead
    BY <1>2, <1>3, <1>4
  <2>2. r.b.buf + r.b.unacked + r.i.left <= Total /\ r.b.buf <= Cap
    BY <1>4, Zenon DEF Sound, Conserved
  <2> QED
    BY <2>1, <2>2, Zenon DEF Conserved
<1>6. Told(r, h) /\ EmptyAcks(r.b)
  BY <1>4, Zenon DEF Sound, Told
<1>7. Sound(r, h) /\ Kept(p, r)
  BY <1>4, <1>5, <1>6, Zenon DEF Sound, Kept
<1>8. r.n.bytes > 0 => r.i.pending /\ r.i.unread > 0
  <2>1. r.n.bytes > 0 => n < p.n.bytes
    BY <1>2, <1>3, <1>4
  <2>2. r.n.bytes > 0 => r.i.unread > 0
    BY <1>2, <1>3, <1>4, <2>1, Zenon
  <2> QED
    BY <1>4, <2>1, <2>2, Zenon
<1>9. r.i.unread = 0 /\ p.n.fin /\ p.i.hup => r.i.eof
  <2>1. r.i.unread = 0 => n = 0 /\ n = p.n.bytes
    <3> SUFFICES ASSUME r.i.unread = 0 PROVE n = 0 /\ n = p.n.bytes
      BY Zenon
    <3>1. p.i.unread + n = 0
      BY <1>4, Zenon
    <3>2. n = 0 /\ p.i.unread = 0
      BY <1>2, <1>3, <3>1
    <3>3. ~(n < p.n.bytes)
      BY <1>2, <1>3, <3>2
    <3> QED
      BY <1>2, <1>3, <3>2, <3>3
  <2> QED
    BY <1>4, <2>1, Zenon
<1> QED
  BY <1>4, <1>7, <1>8, <1>9, Zenon DEF r, n

\* readOnce, after which nothing in the socket is forgotten, and a reader that has
\* nothing left to read has a connection that has nothing either.
LEMMA ReadOnceSound ==
  ASSUME Sizes, NEW p, NEW h, NEW hup \in BOOLEAN, Sound(p, h),
         ~p.n.edge /\ p.n.fin => p.i.hup \/ hup
  PROVE  LET q == ReadOnce(p, hup)
         IN  Sound(q, h) /\ Kept(p, q) /\ Remembered(q) /\ Served(q, h)
<1> DEFINE v == p.i.hup \/ hup
<1> DEFINE s == [p EXCEPT !.i.hup = v]
<1>1. p \in States /\ v \in BOOLEAN
  <2>1. p \in States
    BY Zenon DEF Sound
  <2>2. p.i.hup \in BOOLEAN
    BY <2>1, Zenon DEF States, Inputs
  <2> QED
    BY <2>1, <2>2, Zenon
<1> HIDE DEF v
<1>2. s \in States /\ s.b = p.b /\ s.n = p.n /\ SameBody(p.i, s.i) /\ s.i.hup = v
  <2>1. p.b \in Readers /\ p.i \in Inputs /\ p.n \in Nets
    BY <1>1, Zenon DEF States
  <2> QED
    BY <1>1, <2>1, ZenonT(30) DEF States, Inputs, SameBody
<1>3. s = [p EXCEPT !.i.hup = @ \/ hup]
  BY Zenon DEF v
<1> HIDE DEF s
<1>4. Sound(s, h) /\ Kept(p, s)
  BY <1>2, FlagSound, Zenon
<1>5. ~s.n.edge /\ s.n.fin => s.i.hup
  BY <1>2, Zenon DEF v
<1> DEFINE q == ReadOnce(p, hup)
<1>6. CASE ~WantsInput(s)
  <2> DEFINE r == [s EXCEPT !.i.pending = TRUE]
  <2>1. q = r
    BY <1>3, <1>6, Zenon DEF ReadOnce
  <2>2. /\ r \in States /\ r.b = s.b /\ r.n = s.n /\ SameBody(s.i, r.i) /\ r.i.pending = TRUE
        /\ r.i.hup = s.i.hup
    BY <1>2, SetFlags, Zenon
  <2> HIDE DEF r
  <2>3. Sound(r, h) /\ Kept(s, r)
    BY <1>4, <2>2, FlagSound, Zenon
  <2>4. Remembered(r)
    BY <1>5, <2>2, Zenon DEF Remembered
  <2>5. r.i.done \/ r.b.buf # 0
    <3>1. s.b.buf \in Nat /\ Cap \in Nat \ {0}
      BY <1>2, Zenon DEF States, Readers, Sizes
    <3>2. s.i.done \/ s.b.buf # 0
      BY <1>6, <3>1 DEF WantsInput
    <3> QED
      BY <2>2, <3>2, Zenon DEF SameBody
  <2>6. Served(r, h)
    BY <2>3, <2>5, Zenon DEF Served, Sound, Told
  <2> QED
    BY <1>4, <2>1, <2>3, <2>4, <2>6, KeptTrans, Zenon
<1>7. CASE WantsInput(s)
  <2> DEFINE r == Drained(s, Min2(s.n.bytes, ReadAhead - s.i.unread))
  <2> DEFINE t == Service(r)
  <2>1. q = t
    BY <1>3, <1>7, Zenon DEF ReadOnce
  <2>2. /\ Sound(r, h) /\ Kept(s, r) /\ r.i.hup = s.i.hup /\ r.i.done = s.i.done
        /\ r.n.bytes > 0 => r.i.pending /\ r.i.unread > 0
        /\ r.i.unread = 0 /\ s.n.fin /\ s.i.hup => r.i.eof
    BY <1>4, DrainedSound, Zenon
  <2> HIDE DEF r
  <2>3. /\ Sound(t, h) /\ Kept(r, t) /\ t.n = r.n /\ t.i.settle = TRUE
        /\ t.i.pending = r.i.pending /\ t.i.eof = r.i.eof /\ t.i.hup = r.i.hup
        /\ ~t.i.done => ~r.i.done
        /\ ~t.i.done /\ ~t.b.closed => /\ t.i.unread > 0 => t.b.buf = Cap
                                       /\ r.i.unread > 0 => t.b.buf > 0
    BY <2>2, ServiceSound, Zenon
  <2> HIDE DEF t
  <2>4. Kept(p, t)
    BY <1>4, <2>2, <2>3, KeptTrans, Zenon
  <2>5. Remembered(t)
    BY <1>5, <2>2, <2>3, Zenon DEF Remembered, Kept
  <2>6. Served(t, h)
    <3> SUFFICES ASSUME h = "run", t.b.buf = 0, ~t.b.eof, ~t.b.err, ~t.b.closed
                 PROVE  /\ t.i.unread = 0
                        /\ ~t.n.edge => t.n.bytes = 0
                        /\ ~t.n.edge /\ t.n.fin => t.i.settle /\ t.i.eof
      BY <2>3, Zenon DEF Served
    <3>1. ~t.i.done
      BY <2>3, Zenon DEF Sound, Told
    <3>2. /\ t.i.unread \in Nat /\ r.i.unread \in Nat /\ r.n.bytes \in Nat /\ Cap \in Nat \ {0}
      BY <2>2, <2>3, Zenon DEF Sound, States, Inputs, Nets, Sizes
    <3>3. t.i.unread = 0 /\ r.i.unread = 0
      BY <2>3, <3>1, <3>2, SMTT(30)
    <3>4. r.n.bytes = 0
      BY <2>2, <3>2, <3>3
    <3>5. ~t.n.edge /\ t.n.fin => r.i.eof
      BY <1>5, <2>2, <2>3, <3>3, Zenon DEF Kept
    <3> QED
      BY <2>3, <3>3, <3>4, <3>5, Zenon
  <2> QED
    BY <2>1, <2>3, <2>4, <2>5, <2>6, Zenon
<1> QED
  BY <1>6, <1>7, Zenon

\* A body that is over, or a reader that is full, is not waiting.
LEMMA NotWaiting ==
  ASSUME NEW p, NEW h, Sound(p, h), p.i.done \/ p.b.buf # 0
  PROVE  Served(p, h)
  BY Zenon DEF Served, Sound, Told

\* h1BodyAcked: the room the handler made is filled from the buffer, then from the socket.
LEMMA AckedSound ==
  ASSUME Sizes, NEW p, NEW h, Sound(p, h), Remembered(p)
  PROVE  LET q == Acked(p)
         IN  Sound(q, h) /\ Kept(p, q) /\ Remembered(q) /\ Served(q, h)
<1> DEFINE f == FeedBody(p)
<1> DEFINE g == AbortStarved(f)
<1>1. /\ Sound(f, h) /\ Kept(p, f) /\ f.n = p.n
      /\ f.i.pending = p.i.pending /\ f.i.hup = p.i.hup /\ (~f.i.done => ~p.i.done)
  BY FeedSound, Zenon
<1>2. Remembered(f)
  BY <1>1, Zenon DEF Remembered
<1> HIDE DEF f
<1>3. /\ Sound(g, h) /\ Kept(f, g)
      /\ g = f \/ (g.i.done /\ g.i.up = FALSE /\ g.n = f.n)
  BY <1>1, StarvedSound, Zenon
<1> HIDE DEF g
<1>4. Remembered(g)
  BY <1>2, <1>3, Zenon DEF Remembered
<1>5. Kept(p, g)
  BY <1>1, <1>3, KeptTrans, Zenon
<1>6. Acked(p) = IF ~g.i.up \/ ~WantsInput(g) THEN g
                 ELSE IF g.i.pending \/ (g.i.hup /\ ~g.i.eof) THEN ReadOnce(g, FALSE) ELSE Service(g)
  BY Zenon DEF Acked, g, f
<1>7. g.b.buf \in Nat /\ Cap \in Nat \ {0} /\ g.i.unread \in Nat /\ g.n.bytes \in Nat
  BY <1>3, Zenon DEF Sound, States, Readers, Inputs, Nets, Sizes
<1>8. CASE ~g.i.up \/ ~WantsInput(g)
  <2>1. g.i.done \/ g.b.buf # 0
    <3>1. ~g.i.up => g.i.done
      BY <1>3, Zenon DEF Sound, Told
    <3>2. ~WantsInput(g) => g.i.done \/ g.b.buf # 0
      BY <1>7 DEF WantsInput
    <3> QED
      BY <1>8, <3>1, <3>2, Zenon
  <2>2. Served(g, h)
    BY <1>3, <2>1, NotWaiting, Zenon
  <2> QED
    BY <1>3, <1>4, <1>5, <1>6, <1>8, <2>2, Zenon
<1>9. CASE ~(~g.i.up \/ ~WantsInput(g)) /\ (g.i.pending \/ (g.i.hup /\ ~g.i.eof))
  <2>1. ~g.i.done
    BY <1>9, Zenon DEF WantsInput
  <2>2. ~g.n.edge /\ g.n.fin => g.i.hup \/ FALSE
    BY <1>4, <2>1, Zenon DEF Remembered
  <2> DEFINE q == ReadOnce(g, FALSE)
  <2>3. FALSE \in BOOLEAN
    BY Zenon
  <2>4. Sound(q, h) /\ Kept(g, q) /\ Remembered(q) /\ Served(q, h)
    BY <1>3, <2>2, <2>3, ReadOnceSound, Zenon
  <2>5. Kept(p, q)
    BY <1>5, <2>4, KeptTrans, Zenon
  <2> QED
    BY <1>6, <1>9, <2>4, <2>5, Zenon
<1>10. CASE ~(~g.i.up \/ ~WantsInput(g)) /\ ~(g.i.pending \/ (g.i.hup /\ ~g.i.eof))
  <2> DEFINE q == Service(g)
  <2>1. Acked(p) = q
    BY <1>6, <1>10, Zenon
  <2>2. /\ Sound(q, h) /\ Kept(g, q) /\ q.n = g.n /\ q.i.settle = TRUE
        /\ q.i.pending = g.i.pending /\ q.i.eof = g.i.eof /\ q.i.hup = g.i.hup
        /\ ~q.i.done => ~g.i.done
        /\ ~q.i.done /\ ~q.b.closed => (q.i.unread > 0 => q.b.buf = Cap)
    BY <1>3, ServiceSound, Zenon
  <2> HIDE DEF q
  <2>3. Kept(p, q)
    BY <1>5, <2>2, KeptTrans, Zenon
  <2>4. Remembered(q)
    BY <1>4, <2>2, Zenon DEF Remembered
  <2>5. Served(q, h)
    <3> SUFFICES ASSUME h = "run", q.b.buf = 0, ~q.b.eof, ~q.b.err, ~q.b.closed
                 PROVE  /\ q.i.unread = 0
                        /\ ~q.n.edge => q.n.bytes = 0
                        /\ ~q.n.edge /\ q.n.fin => q.i.settle /\ q.i.eof
      BY <2>2, Zenon DEF Served
    <3>1. ~q.i.done
      BY <2>2, Zenon DEF Sound, Told
    <3>2. q.i.unread \in Nat
      BY <2>2, Zenon DEF Sound, States, Inputs
    <3>3. q.i.unread = 0
      BY <1>7, <2>2, <3>1, <3>2, SMTT(30)
    <3>4. ~q.n.edge => q.n.bytes = 0
      BY <1>7, <1>10, <2>2, <2>4, <3>1 DEF Remembered
    <3>5. ~q.n.edge /\ q.n.fin => q.i.eof
      BY <1>10, <2>2, <2>4, <3>1, Zenon DEF Remembered
    <3> QED
      BY <2>2, <3>3, <3>4, <3>5, Zenon
  <2> QED
    BY <2>1, <2>2, <2>3, <2>4, <2>5, Zenon
<1> QED
  BY <1>8, <1>9, <1>10, Zenon

-------------------------------------------------------------------------------
(* The invariant.                                                              *)

\* Of an HTTP/1 body, whose reader is served unless an ack is on its way.
H1Inv == Sound(Now, hd) /\ Remembered(Now) /\ (acks = 0 => Served(Now, hd))

\* Of an HTTP/2 body, which is not read from the socket by itself.
H2Inv ==
    /\ br.buf + br.unacked + inn.left <= Total
    /\ net.left <= Total /\ net.bytes = 0 /\ inn.unread = 0 /\ ~inn.settle
    /\ ~inn.done => inn.left = net.left

\* An ack is claimed exactly when its task is on the way.
AckInv == br.ackQueued <=> acks # 0

BodyInv ==
    /\ TypeInv /\ inn.window <= Window
    /\ inn.proto = "h1" => H1Inv
    /\ inn.proto = "h2" => H2Inv
    /\ AckInv /\ EmptyReaderAcks /\ WindowConserved /\ DeadlineHonest

\* The loop's steps on an HTTP/1 body, by what they make of it.
LEMMA BecomeInv ==
  ASSUME BodyInv, inn.proto = "h1", NEW q, Become(q), UNCHANGED <<clock, hd>>, acks' \in 0..2,
         Sound(q, hd), Remembered(q), acks' = 0 => Served(q, hd),
         q.i.window = inn.window, q.b.closed = br.closed, q.b.hit = br.hit, q.b.at = br.at,
         q.b.ackQueued <=> acks' # 0
  PROVE  BodyInv'
<1>1. br' = q.b /\ inn' = q.i /\ net' = q.n
  BY Zenon DEF Become
<1>2. br' \in Readers /\ inn' \in Inputs /\ net' \in Nets /\ inn'.proto = "h1"
  BY <1>1, Zenon DEF Sound, States
<1>3. TypeInv'
  BY <1>2, Zenon DEF BodyInv, TypeInv
<1>4. Now' \in States /\ Now'.b = q.b /\ Now'.i = q.i /\ Now'.n = q.n
  BY <1>1, <1>2, Zenon DEF Now, States
<1>5. H1Inv'
  <2>1. Sound(Now', hd)
    BY <1>4, Zenon DEF Sound, Conserved, Told
  <2>2. Remembered(Now')
    BY <1>4, Zenon DEF Remembered
  <2>3. acks' = 0 => Served(Now', hd)
    BY <1>4, Zenon DEF Served
  <2> QED
    BY <2>1, <2>2, <2>3, Zenon DEF H1Inv
<1>6. AckInv' /\ EmptyReaderAcks'
  <2>1. AckInv'
    BY <1>1, Zenon DEF AckInv
  <2>2. EmptyReaderAcks'
    BY <1>1, Zenon DEF EmptyReaderAcks, Sound, EmptyAcks
  <2> QED
    BY <2>1, <2>2, Zenon
<1>7. WindowConserved' /\ inn'.window <= Window
  BY <1>1, <1>2, Zenon DEF WindowConserved, BodyInv
<1>8. DeadlineHonest'
  BY <1>1, Zenon DEF DeadlineHonest, BodyInv
<1> QED
  BY <1>2, <1>3, <1>5, <1>6, <1>7, <1>8, Zenon DEF BodyInv

\* The state of the body, as the invariant sees it.
LEMMA NowFacts ==
  ASSUME BodyInv
  PROVE  /\ Now \in States /\ Now.b = br /\ Now.i = inn /\ Now.n = net
         /\ br \in Readers /\ inn \in Inputs /\ net \in Nets
  BY Zenon DEF BodyInv, TypeInv, Now, States

\* serviceConn for an edge.
LEMMA ReadableStep ==
  ASSUME Sizes, BodyInv, Readable PROVE BodyInv'
<1> DEFINE m == [net EXCEPT !.edge = FALSE]
<1> DEFINE p == [Now EXCEPT !.n.edge = FALSE]
<1>1. inn.proto = "h1" /\ H1Inv /\ Become(ReadOnce(p, net.fin)) /\ UNCHANGED <<acks, clock, hd>>
  BY Zenon DEF Readable, BodyInv
<1>2. m \in Nets /\ m.bytes = net.bytes /\ m.left = net.left /\ m.fin = net.fin /\ m.edge = FALSE
  BY NowFacts, Zenon DEF Nets
<1>3. p \in States /\ p.b = br /\ p.i = inn /\ p.n = m
  BY NowFacts, Zenon DEF States, Nets
<1> HIDE DEF p, m
<1>4. Sound(p, hd)
  <2>1. Sound(Now, hd)
    BY <1>1, Zenon DEF H1Inv
  <2>2. Conserved(p) /\ Told(p, hd)
    BY <1>2, <1>3, <2>1, NowFacts, Zenon DEF Sound, Conserved, Told
  <2> QED
    BY <1>1, <1>3, <2>1, <2>2, NowFacts, Zenon DEF Sound
<1>5. net.fin \in BOOLEAN
  BY NowFacts, Zenon DEF Nets
<1>6. ~p.n.edge /\ p.n.fin => p.i.hup \/ net.fin
  BY <1>2, <1>3, Zenon
<1> DEFINE q == ReadOnce(p, net.fin)
<1>7. Sound(q, hd) /\ Kept(p, q) /\ Remembered(q) /\ Served(q, hd)
  BY <1>4, <1>5, <1>6, ReadOnceSound, Zenon
<1> HIDE DEF q
<1>8. /\ q.i.window = inn.window /\ q.b.closed = br.closed /\ q.b.hit = br.hit
      /\ q.b.at = br.at /\ q.b.ackQueued = br.ackQueued
  BY <1>3, <1>7, Zenon DEF Kept
<1>9. acks' \in 0..2 /\ (q.b.ackQueued <=> acks' # 0)
  BY <1>1, <1>8, Zenon DEF BodyInv, TypeInv, AckInv
<1> QED
  BY <1>1, <1>7, <1>8, <1>9, BecomeInv, Zenon DEF q

\* h1BodyAcked.
LEMMA H1AckedStep ==
  ASSUME Sizes, BodyInv, H1Acked PROVE BodyInv'
<1> DEFINE c == TakeAck(br)
<1> DEFINE p == [Now EXCEPT !.b = c]
<1>1. /\ inn.proto = "h1" /\ H1Inv /\ UNCHANGED <<clock, hd>> /\ acks' = 0
      /\ Become(IF inn.up /\ ~inn.done THEN Acked(p) ELSE p)
  BY Zenon DEF H1Acked, BodyInv
<1>2. /\ c \in Readers /\ c.buf = br.buf /\ c.unacked = 0 /\ c.ackQueued = FALSE
      /\ c.eof = br.eof /\ c.err = br.err /\ c.closed = br.closed
      /\ c.hit = br.hit /\ c.at = br.at
  BY NowFacts, TakeFacts, Zenon
<1> HIDE DEF c
<1>3. p \in States /\ p.b = c /\ p.i = inn /\ p.n = net
  BY <1>2, NowFacts, Zenon DEF States
<1> HIDE DEF p
<1>4. Sound(p, hd) /\ Remembered(p)
  <2>1. Sound(Now, hd) /\ Remembered(Now)
    BY <1>1, Zenon DEF H1Inv
  <2>2. Told(p, hd) /\ Remembered(p)
    BY <1>2, <1>3, <2>1, NowFacts, Zenon DEF Sound, Told, Remembered
  <2>3. Conserved(p)
    <3>1. /\ br.buf + br.unacked + inn.left <= Total /\ br.buf <= Cap /\ inn.unread <= ReadAhead
          /\ inn.left = inn.unread + net.bytes + net.left
      BY <2>1, NowFacts, Zenon DEF Sound, Conserved
    <3>2. br.buf \in Nat /\ br.unacked \in Nat /\ inn.left \in Nat /\ Total \in Nat
      BY NowFacts, Zenon DEF Readers, Inputs, Sizes
    <3> QED
      BY <1>2, <1>3, <3>1, <3>2, SMTT(30) DEF Conserved
  <2>4. EmptyAcks(p.b)
    BY <1>2, <1>3 DEF EmptyAcks
  <2> QED
    BY <1>1, <1>3, <2>2, <2>3, <2>4, Zenon DEF Sound
<1> DEFINE q == IF inn.up /\ ~inn.done THEN Acked(p) ELSE p
<1>5. Sound(q, hd) /\ Kept(p, q) /\ Remembered(q) /\ Served(q, hd)
  <2>1. CASE inn.up /\ ~inn.done
    BY <1>4, <2>1, AckedSound, Zenon
  <2>2. CASE ~(inn.up /\ ~inn.done)
    <3>1. p.i.done
      BY <1>3, <1>4, <2>2, Zenon DEF Sound, Told
    <3>2. Served(p, hd)
      BY <1>4, <3>1, NotWaiting, Zenon
    <3> QED
      BY <1>4, <2>2, <3>2, Zenon DEF Kept
  <2> QED
    BY <2>1, <2>2, Zenon
<1>6. Become(q)
  BY <1>1, Zenon
<1> HIDE DEF q
<1>7. /\ q.i.window = inn.window /\ q.b.closed = br.closed /\ q.b.hit = br.hit
      /\ q.b.at = br.at /\ q.b.ackQueued = FALSE
  BY <1>2, <1>3, <1>5, Zenon DEF Kept
<1>8. acks' \in 0..2 /\ (q.b.ackQueued <=> acks' # 0)
  BY <1>1, <1>7
<1> QED
  BY <1>1, <1>5, <1>6, <1>7, <1>8, BecomeInv, Zenon

\* The end of a step of the connection.
LEMMA SettleStep ==
  ASSUME Sizes, BodyInv, Settle PROVE BodyInv'
<1> DEFINE w == WantsInput(Now)
<1> DEFINE j == [inn EXCEPT !.settle = FALSE, !.deadline = w]
<1> DEFINE p == [Now EXCEPT !.i = j]
<1>1. /\ inn.proto = "h1" /\ H1Inv /\ UNCHANGED <<acks, clock, hd>> /\ inn.settle
      /\ Become(AbortStarved(p))
  BY NowFacts, Zenon DEF Settle, BodyInv, H2Inv, Inputs
<1>2. w \in BOOLEAN /\ (w <=> ~inn.done /\ br.buf < Cap)
  BY NowFacts, Zenon DEF WantsInput
<1> HIDE DEF w
<1>3. /\ j \in Inputs /\ SameBody(inn, j) /\ j.settle = FALSE /\ j.deadline = w
      /\ j.pending = inn.pending /\ j.hup = inn.hup /\ j.eof = inn.eof
  BY <1>2, NowFacts, ZenonT(60) DEF Inputs, SameBody
<1> HIDE DEF j
<1>4. p \in States /\ p.b = br /\ p.i = j /\ p.n = net
  BY <1>3, NowFacts, Zenon DEF States
<1> HIDE DEF p
<1>5. Sound(Now, hd) /\ Remembered(Now) /\ (acks = 0 => Served(Now, hd))
  BY <1>1, Zenon DEF H1Inv
<1>6. Sound(p, hd) /\ Kept(Now, p)
  BY <1>3, <1>4, <1>5, NowFacts, FlagSound, Zenon
<1>7. Remembered(p)
  BY <1>3, <1>4, <1>5, NowFacts, Zenon DEF Remembered, SameBody
<1> DEFINE q == AbortStarved(p)
<1>8. /\ Sound(q, hd) /\ Kept(p, q)
      /\ \/ q = p /\ ~(p.i.up /\ p.i.eof /\ ~p.i.done /\ p.i.unread = 0)
         \/ q.i.done /\ q.i.up = FALSE /\ q.n = p.n
  BY <1>6, StarvedSound, Zenon
<1> HIDE DEF q
<1>9. Remembered(q)
  BY <1>7, <1>8, Zenon DEF Remembered
<1>10. acks = 0 => Served(q, hd)
  <2>1. CASE q.i.done
    BY <1>8, <2>1, NotWaiting, Zenon
  <2>2. CASE ~q.i.done /\ acks = 0
    <3>1. q = p /\ ~inn.done /\ inn.up /\ ~(inn.eof /\ inn.unread = 0)
      BY <1>3, <1>4, <1>6, <1>8, <2>2, Zenon DEF SameBody, Sound, Told
    <3> SUFFICES ASSUME hd = "run", br.buf = 0, ~br.eof, ~br.err, ~br.closed
                 PROVE  /\ j.unread = 0
                        /\ ~net.edge => net.bytes = 0
                        /\ ~net.edge /\ net.fin => j.settle /\ j.eof
                        /\ ~j.settle => j.deadline
      BY <1>4, <3>1, Zenon DEF Served
    <3>2. /\ inn.unread = 0 /\ (~net.edge => net.bytes = 0)
          /\ ~net.edge /\ net.fin => inn.eof
      BY <1>5, <2>2, NowFacts, Zenon DEF Served
    <3>3. j.deadline
      BY <1>2, <1>3, <3>1, SMTT(30) DEF Sizes
    <3> QED
      BY <1>3, <3>1, <3>2, <3>3, Zenon DEF SameBody
  <2> QED
    BY <2>1, <2>2, Zenon
<1>11. /\ q.i.window = inn.window /\ q.b.closed = br.closed /\ q.b.hit = br.hit
       /\ q.b.at = br.at /\ q.b.ackQueued = br.ackQueued
  BY <1>3, <1>4, <1>8, Zenon DEF Kept, SameBody
<1>12. acks' \in 0..2 /\ (q.b.ackQueued <=> acks' # 0)
  BY <1>1, <1>11, Zenon DEF BodyInv, TypeInv, AckInv
<1> QED
  BY <1>1, <1>8, <1>9, <1>10, <1>11, <1>12, BecomeInv, Zenon DEF q

\* sweepDeadlines closes the connection.
LEMMA SweepStep ==
  ASSUME Sizes, BodyInv, Sweep PROVE BodyInv'
<1> DEFINE q == Closed(Now)
<1>1. inn.proto = "h1" /\ H1Inv /\ UNCHANGED <<acks, clock, hd>> /\ Become(q)
  BY Zenon DEF Sweep, BodyInv
<1>2. Sound(q, hd) /\ Kept(Now, q) /\ q.i.done
  BY <1>1, NowFacts, ClosedSound, ClosedFields, Zenon DEF H1Inv
<1> HIDE DEF q
<1>3. Remembered(q) /\ Served(q, hd)
  BY <1>2, NotWaiting, Zenon DEF Remembered
<1>4. /\ q.i.window = inn.window /\ q.b.closed = br.closed /\ q.b.hit = br.hit
      /\ q.b.at = br.at /\ q.b.ackQueued = br.ackQueued
  BY <1>2, NowFacts, Zenon DEF Kept
<1>5. acks' \in 0..2 /\ (q.b.ackQueued <=> acks' # 0)
  BY <1>1, <1>4, Zenon DEF BodyInv, TypeInv, AckInv
<1> QED
  BY <1>1, <1>2, <1>3, <1>4, <1>5, BecomeInv, Zenon

\* The reader's own counts, for both protocols.
LEMMA Counts ==
  ASSUME Sizes, BodyInv
  PROVE  /\ br.buf \in Nat /\ br.unacked \in Nat /\ inn.left \in Nat /\ inn.unread \in Nat
         /\ inn.window \in Nat /\ net.left \in Nat /\ net.bytes \in Nat
         /\ Total \in Nat /\ Window \in Nat /\ Cap \in Nat /\ ReadAhead \in Nat
         /\ br.buf + br.unacked + inn.left <= Total
         /\ inn.proto \in {"h1", "h2"}
<1>1. br \in Readers /\ inn \in Inputs /\ net \in Nets
  BY NowFacts, Zenon
<1>2. inn.proto \in {"h1", "h2"}
  BY <1>1, Zenon DEF Inputs
<1>3. inn.proto = "h1" => br.buf + br.unacked + inn.left <= Total
  BY NowFacts, Zenon DEF BodyInv, H1Inv, Sound, Conserved
<1>4. inn.proto = "h2" => br.buf + br.unacked + inn.left <= Total
  BY Zenon DEF BodyInv, H2Inv
<1> QED
  BY <1>1, <1>2, <1>3, <1>4, Zenon DEF Readers, Inputs, Nets, Sizes

\* A call of the handler that moves units from the buffer to what is to be acknowledged,
\* and claims an ack.
LEMMA ClaimStep ==
  ASSUME Sizes, BodyInv, NEW b \in Readers, Claimed(ClaimAck(b)), UNCHANGED <<inn, net, hd>>,
         b.buf + b.unacked = br.buf + br.unacked, b.buf <= br.buf,
         b.eof = br.eof, b.err = br.err, b.ackQueued = br.ackQueued,
         b.closed \/ b.unacked > 0
  PROVE  /\ br' \in Readers /\ acks' \in 0..2
         /\ br'.closed = b.closed /\ br'.hit = b.hit /\ br'.at = b.at
         /\ inn.proto = "h1" => H1Inv'
         /\ inn.proto = "h2" => H2Inv'
         /\ AckInv' /\ EmptyReaderAcks' /\ WindowConserved'
<1> DEFINE c == ClaimAck(b)
<1>1. /\ c \in Readers /\ c.buf = b.buf /\ c.unacked = b.unacked
      /\ c.eof = b.eof /\ c.err = b.err /\ c.closed = b.closed /\ c.hit = b.hit /\ c.at = b.at
      /\ b.ackQueued => c.ackQueued
      /\ b.buf = 0 /\ b.unacked > 0 => c.ackQueued
  BY ClaimFacts, Zenon
<1>2. br' = c /\ acks' = IF c.ackQueued /\ ~br.ackQueued THEN 2 ELSE acks
  BY Zenon DEF Claimed
<1> HIDE DEF c
<1>3. acks \in 0..2 /\ (br.ackQueued <=> acks # 0) /\ c.ackQueued \in BOOLEAN
  BY <1>1, Zenon DEF BodyInv, TypeInv, AckInv, Readers
<1>4. acks' \in 0..2 /\ AckInv'
  BY <1>1, <1>2, <1>3 DEF AckInv
<1>5. b.buf \in Nat /\ b.unacked \in Nat
  BY Zenon DEF Readers
<1>6. EmptyReaderAcks'
  BY <1>1, <1>2, ZenonT(60) DEF EmptyReaderAcks
<1>7. WindowConserved'
  BY <1>1, <1>2, <1>5, Counts, SMTT(30) DEF WindowConserved, BodyInv
<1>8. inn.proto = "h2" => H2Inv'
  <2>1. br'.buf + br'.unacked + inn.left <= Total
    BY <1>1, <1>2, <1>5, Counts, Zenon
  <2> QED
    BY <2>1, Zenon DEF H2Inv, BodyInv
<1>9. ASSUME inn.proto = "h1" PROVE H1Inv'
  <2>1. Sound(Now, hd) /\ Remembered(Now)
    BY <1>9, Zenon DEF BodyInv, H1Inv
  <2>2. Now' \in States /\ Now'.b = c /\ Now'.i = inn /\ Now'.n = net
    BY <1>1, <1>2, NowFacts, Zenon DEF Now, States
  <2>3. Told(Now', hd') /\ Remembered(Now')
    BY <1>1, <2>1, <2>2, NowFacts, ZenonT(60) DEF Sound, Told, Remembered
  <2>4. Conserved(Now')
    <3>1. br.buf <= Cap /\ inn.unread <= ReadAhead /\ inn.left = inn.unread + net.bytes + net.left
      BY <2>1, NowFacts, ZenonT(60) DEF Sound, Conserved
    <3>2. c.buf + c.unacked + inn.left <= Total /\ c.buf <= Cap
      BY <1>1, <1>5, <3>1, Counts, SMTT(30)
    <3> QED
      BY <2>2, <3>1, <3>2, Zenon DEF Conserved
  <2>5. EmptyAcks(Now'.b)
    BY <1>1, <2>2, Zenon DEF EmptyAcks
  <2>6. acks' = 0 => Served(Now', hd')
    <3>1. acks' = 0 => ~c.ackQueued
      BY <1>1, <1>2, <1>3, SMTT(30)
    <3>2. ~c.ackQueued => c.closed \/ c.buf # 0
      BY <1>1, Zenon
    <3> QED
      BY <2>2, <3>1, <3>2, ZenonT(60) DEF Served
  <2>7. Sound(Now', hd')
    BY <1>9, <2>2, <2>3, <2>4, <2>5, ZenonT(60) DEF Sound
  <2> QED
    BY <2>3, <2>6, <2>7, Zenon DEF H1Inv
<1> QED
  BY <1>1, <1>2, <1>4, <1>6, <1>7, <1>8, <1>9, Zenon

\* Read.
LEMMA ReadStep ==
  ASSUME Sizes, BodyInv, Read PROVE BodyInv'
<1>1. /\ UNCHANGED <<inn, net, clock, hd>>
      /\ \E n \in 1..br.buf : Claimed(ClaimAck([br EXCEPT !.buf = @ - n, !.unacked = @ + n]))
  BY ZenonT(30) DEF Read
<1>2. PICK n \in 1..br.buf : Claimed(ClaimAck([br EXCEPT !.buf = br.buf - n, !.unacked = br.unacked + n]))
  <2>1. PICK n \in 1..br.buf : Claimed(ClaimAck([br EXCEPT !.buf = @ - n, !.unacked = @ + n]))
    BY <1>1, Zenon
  <2>2. [br EXCEPT !.buf = @ - n, !.unacked = @ + n] = [br EXCEPT !.buf = br.buf - n, !.unacked = br.unacked + n]
    BY NowFacts, Zenon DEF Readers
  <2> QED
    BY <2>1, <2>2, ZenonT(30)
<1>3. n \in Nat /\ br.buf - n \in Nat /\ br.unacked + n \in Nat /\ br.unacked + n > 0
      /\ (br.buf - n) + (br.unacked + n) = br.buf + br.unacked /\ br.buf - n <= br.buf
  BY Counts
<1> DEFINE b == [br EXCEPT !.buf = br.buf - n, !.unacked = br.unacked + n]
<1>4. /\ b \in Readers /\ b.buf = br.buf - n /\ b.unacked = br.unacked + n
      /\ b.eof = br.eof /\ b.err = br.err /\ b.ackQueued = br.ackQueued
      /\ b.closed = br.closed /\ b.hit = br.hit /\ b.at = br.at
  BY <1>3, NowFacts, Zenon DEF Readers
<1> HIDE DEF b
<1>5. /\ br' \in Readers /\ acks' \in 0..2
      /\ br'.closed = b.closed /\ br'.hit = b.hit /\ br'.at = b.at
      /\ inn.proto = "h1" => H1Inv'
      /\ inn.proto = "h2" => H2Inv'
      /\ AckInv' /\ EmptyReaderAcks' /\ WindowConserved'
  BY <1>1, <1>2, <1>3, <1>4, ClaimStep, Zenon DEF b
<1>6. DeadlineHonest'
  BY <1>1, <1>4, <1>5, Zenon DEF DeadlineHonest, BodyInv
<1>7. TypeInv'
  BY <1>1, <1>5, Zenon DEF TypeInv, BodyInv
<1> QED
  BY <1>1, <1>5, <1>6, <1>7, Zenon DEF BodyInv

\* Close.
LEMMA CloseStep ==
  ASSUME Sizes, BodyInv, CloseReader PROVE BodyInv'
<1>1. /\ UNCHANGED <<inn, net, hd>> /\ clock' = [clock EXCEPT !.timer = 0]
      /\ Claimed(ClaimAck([br EXCEPT !.closed = TRUE, !.unacked = @ + br.buf, !.buf = 0, !.at = 0]))
  BY Zenon DEF CloseReader
<1> DEFINE b == [br EXCEPT !.closed = TRUE, !.unacked = @ + br.buf, !.buf = 0, !.at = 0]
<1>2. br.unacked + br.buf \in Nat /\ 0 \in 0..MaxTime /\ 0 <= br.buf
      /\ 0 + (br.unacked + br.buf) = br.buf + br.unacked
  BY Counts DEF Sizes
<1>3. b \in Readers
  BY <1>2, NowFacts, Zenon DEF Readers
<1>4. /\ b.buf = 0 /\ b.unacked = br.unacked + br.buf /\ b.closed = TRUE
      /\ b.eof = br.eof /\ b.err = br.err /\ b.ackQueued = br.ackQueued
  BY <1>2, NowFacts, Zenon DEF Readers
<1> HIDE DEF b
<1>5. /\ br' \in Readers /\ acks' \in 0..2
      /\ br'.closed = b.closed
      /\ inn.proto = "h1" => H1Inv'
      /\ inn.proto = "h2" => H2Inv'
      /\ AckInv' /\ EmptyReaderAcks' /\ WindowConserved'
  BY <1>1, <1>2, <1>3, <1>4, ClaimStep, Zenon DEF b
<1>6. DeadlineHonest'
  BY <1>4, <1>5, Zenon DEF DeadlineHonest
<1>7. clock' \in Clocks
  BY <1>1, <1>2, Zenon DEF BodyInv, TypeInv, Clocks
<1>8. TypeInv'
  BY <1>1, <1>5, <1>7, Zenon DEF TypeInv, BodyInv
<1> QED
  BY <1>1, <1>5, <1>6, <1>8, Zenon DEF BodyInv

\* Steps of the deadline, of its timer and of the handler that leave the body alone.
LEMMA DeadlineStep ==
  ASSUME Sizes, BodyInv, UNCHANGED <<inn, net, hd>>, br' \in Readers, clock' \in Clocks, acks' \in 0..2,
         br'.buf = br.buf, br'.unacked = br.unacked, br'.eof = br.eof, br'.err = br.err,
         br'.closed = br.closed, br'.ackQueued = br.ackQueued, acks' = 0 <=> acks = 0, DeadlineHonest'
  PROVE  BodyInv'
<1>1. TypeInv'
  BY Zenon DEF BodyInv, TypeInv
<1>2. AckInv' /\ EmptyReaderAcks' /\ WindowConserved'
  BY Zenon DEF BodyInv, AckInv, EmptyReaderAcks, WindowConserved
<1>3. inn.proto = "h2" => H2Inv'
  BY Zenon DEF H2Inv, BodyInv
<1>4. ASSUME inn.proto = "h1" PROVE H1Inv'
  <2>1. Sound(Now, hd) /\ Remembered(Now) /\ (acks = 0 => Served(Now, hd))
    BY <1>4, Zenon DEF BodyInv, H1Inv
  <2>2. Now' \in States /\ Now'.b = br' /\ Now'.i = inn /\ Now'.n = net
    BY NowFacts, Zenon DEF Now, States
  <2>3. Told(Now', hd') /\ Remembered(Now') /\ Conserved(Now') /\ EmptyAcks(Now'.b)
    BY <2>1, <2>2, NowFacts, ZenonT(60) DEF Sound, Told, Remembered, Conserved, EmptyAcks
  <2>4. acks' = 0 => Served(Now', hd')
    BY <2>1, <2>2, NowFacts, Zenon DEF Served
  <2>5. Sound(Now', hd')
    BY <1>4, <2>2, <2>3, Zenon DEF Sound
  <2> QED
    BY <2>3, <2>4, <2>5, Zenon DEF H1Inv
<1> QED
  BY <1>1, <1>2, <1>3, <1>4, Zenon DEF BodyInv

\* setReadDeadline.
LEMMA SetDeadlineStep ==
  ASSUME Sizes, BodyInv, SetReadDeadline PROVE BodyInv'
<1>1. UNCHANGED <<inn, net, acks, hd>> /\ ~br.closed
  BY Zenon DEF SetReadDeadline
<1>2. PICK t \in 0..MaxTime :
          /\ br' = [br EXCEPT !.at = t, !.hit = t # 0 /\ t <= clock.now]
          /\ clock' = [clock EXCEPT !.timer = IF t = 0 THEN 0 ELSE IF t > clock.now THEN t ELSE @]
  BY Zenon DEF SetReadDeadline
<1>3. clock \in Clocks /\ acks \in 0..2 /\ MaxTime \in Nat /\ br \in Readers
  BY Zenon DEF BodyInv, TypeInv, Sizes
<1>4. clock.now \in 1..MaxTime /\ clock.timer \in 0..MaxTime
  BY <1>3, Zenon DEF Clocks
<1> DEFINE w == t # 0 /\ t <= clock.now
<1>5. w \in BOOLEAN /\ (w <=> t # 0 /\ t <= clock.now)
  BY Zenon
<1>6. br' = [br EXCEPT !.at = t, !.hit = w]
  BY <1>2, Zenon
<1> HIDE DEF w
<1>7. /\ br' \in Readers
      /\ br'.buf = br.buf /\ br'.unacked = br.unacked /\ br'.eof = br.eof /\ br'.err = br.err
      /\ br'.closed = br.closed /\ br'.ackQueued = br.ackQueued
      /\ br'.at = t /\ br'.hit = w
  BY <1>3, <1>5, <1>6, Zenon DEF Readers
<1>8. clock' \in Clocks /\ clock'.now = clock.now /\ (t > clock.now => clock'.timer = t)
  BY <1>2, <1>3, <1>4, Zenon DEF Clocks
<1>9. DeadlineHonest'
  BY <1>3, <1>4, <1>5, <1>7, <1>8, SMTT(30) DEF DeadlineHonest
<1> QED
  BY <1>1, <1>3, <1>7, <1>8, <1>9, DeadlineStep, Zenon

\* The clock, the timer and its goroutine, and the ack task's way to the loop.
LEMMA TimeStep ==
  ASSUME Sizes, BodyInv, Tick \/ TimerFires \/ DeadlineFired \/ PostAck \/ UNCHANGED vars
  PROVE  BodyInv'
<1>1. /\ clock \in Clocks /\ acks \in 0..2 /\ MaxTime \in Nat /\ br \in Readers /\ DeadlineHonest
      /\ clock.now \in 1..MaxTime /\ clock.timer \in 0..MaxTime /\ clock.firing \in 0..2
      /\ br.at \in 0..MaxTime /\ br.hit \in BOOLEAN /\ br.closed \in BOOLEAN
  BY Zenon DEF BodyInv, TypeInv, Sizes, Clocks, Readers
<1>2. CASE Tick
  <2>1. /\ UNCHANGED <<br, inn, net, acks, hd>> /\ clock' = [clock EXCEPT !.now = @ + 1]
        /\ clock.now < MaxTime
    BY <1>2, Zenon DEF Tick
  <2>2. clock' \in Clocks /\ clock'.now = clock.now + 1 /\ clock'.timer = clock.timer
        /\ clock'.firing = clock.firing
    BY <1>1, <2>1, SMTT(30) DEF Clocks
  <2>3. DeadlineHonest'
    BY <1>1, <2>1, <2>2, SMTT(30) DEF DeadlineHonest
  <2> QED
    BY <1>1, <2>1, <2>2, <2>3, DeadlineStep, Zenon
<1>3. CASE TimerFires
  <2>1. /\ UNCHANGED <<br, inn, net, acks, hd>>
        /\ clock' = [clock EXCEPT !.timer = 0, !.firing = @ + 1]
        /\ clock.firing < 2
    BY <1>3, Zenon DEF TimerFires
  <2>2. clock' \in Clocks /\ clock'.now = clock.now /\ clock'.firing = clock.firing + 1
    <3>1. clock.firing + 1 \in 0..2 /\ 0 \in 0..MaxTime
      BY <1>1, <2>1
    <3>2. clock' = [clock EXCEPT !.timer = 0, !.firing = clock.firing + 1]
      BY <1>1, <2>1, Zenon DEF Clocks
    <3> QED
      BY <1>1, <3>1, <3>2, Zenon DEF Clocks
  <2>3. DeadlineHonest'
    BY <1>1, <2>1, <2>2 DEF DeadlineHonest
  <2> QED
    BY <1>1, <2>1, <2>2, <2>3, DeadlineStep, Zenon
<1>4. CASE DeadlineFired
  <2> DEFINE w == br.hit \/ (br.at # 0 /\ br.at <= clock.now)
  <2>1. /\ UNCHANGED <<inn, net, acks, hd>> /\ clock.firing > 0
        /\ clock' = [clock EXCEPT !.firing = @ - 1, !.timer = IF br.at > clock.now THEN br.at ELSE @]
        /\ br' = [br EXCEPT !.hit = w]
    BY <1>4, Zenon DEF DeadlineFired
  <2>2. w \in BOOLEAN /\ (w <=> br.hit \/ (br.at # 0 /\ br.at <= clock.now))
    BY <1>1, Zenon
  <2> HIDE DEF w
  <2>3. /\ br' \in Readers
        /\ br'.buf = br.buf /\ br'.unacked = br.unacked /\ br'.eof = br.eof /\ br'.err = br.err
        /\ br'.closed = br.closed /\ br'.ackQueued = br.ackQueued
        /\ br'.at = br.at /\ br'.hit = w
    BY <1>1, <2>1, <2>2, Zenon DEF Readers
  <2>4. clock' \in Clocks /\ clock'.now = clock.now /\ (br.at > clock.now => clock'.timer = br.at)
    <3> DEFINE x == IF br.at > clock.now THEN br.at ELSE clock.timer
    <3>1. clock.firing - 1 \in 0..2 /\ x \in 0..MaxTime /\ (br.at > clock.now => x = br.at)
      BY <1>1, <2>1
    <3>2. clock' = [clock EXCEPT !.firing = clock.firing - 1, !.timer = x]
      BY <1>1, <2>1, Zenon DEF Clocks
    <3> HIDE DEF x
    <3> QED
      BY <1>1, <3>1, <3>2, Zenon DEF Clocks
  <2>5. DeadlineHonest'
    BY <1>1, <2>2, <2>3, <2>4, SMTT(30) DEF DeadlineHonest
  <2> QED
    BY <1>1, <2>1, <2>3, <2>4, <2>5, DeadlineStep, Zenon
<1>5. CASE PostAck
  <2>1. UNCHANGED <<br, inn, net, clock, hd>> /\ acks = 2 /\ acks' = 1
    BY <1>5, Zenon DEF PostAck
  <2>2. DeadlineHonest'
    BY <1>1, <2>1, Zenon DEF DeadlineHonest
  <2> QED
    BY <1>1, <2>1, <2>2, DeadlineStep
<1>6. CASE UNCHANGED vars
  <2>1. UNCHANGED <<br, inn, net, clock, hd, acks>>
    BY <1>6, Zenon DEF vars
  <2>2. DeadlineHonest'
    BY <1>1, <2>1, Zenon DEF DeadlineHonest
  <2> QED
    BY <1>1, <2>1, <2>2, DeadlineStep, Zenon
<1> QED
  BY <1>2, <1>3, <1>4, <1>5, <1>6, Zenon

\* The handler returns: the body is over, whatever it held.
LEMMA ReturnStep ==
  ASSUME Sizes, BodyInv, Return PROVE BodyInv'
<1>1. /\ UNCHANGED <<net, acks, clock>> /\ hd' = "returned" /\ inn' = [inn EXCEPT !.done = TRUE]
      /\ br' = IF inn.done THEN br ELSE FinishBody(br, TRUE)
  BY Zenon DEF Return
<1>2. /\ br' \in Readers
      /\ br'.buf = br.buf /\ br'.unacked = br.unacked /\ br'.closed = br.closed
      /\ br'.hit = br.hit /\ br'.at = br.at /\ br'.ackQueued = br.ackQueued
  <2>1. CASE inn.done
    BY <1>1, <2>1, NowFacts, Zenon
  <2>2. CASE ~inn.done
    <3>1. br' \in {FinishBody(br, TRUE), FinishBody(br, FALSE)}
      BY <1>1, <2>2, Zenon
    <3> QED
      BY <3>1, NowFacts, FinishFacts, Zenon
  <2> QED
    BY <2>1, <2>2, Zenon
<1>3. /\ inn' \in Inputs /\ inn'.done = TRUE /\ inn'.proto = inn.proto /\ inn'.left = inn.left
      /\ inn'.unread = inn.unread /\ inn'.window = inn.window /\ inn'.settle = inn.settle
  BY <1>1, NowFacts, Zenon DEF Inputs
<1>4. TypeInv'
  BY <1>1, <1>2, <1>3, Zenon DEF BodyInv, TypeInv
<1>5. AckInv' /\ EmptyReaderAcks' /\ WindowConserved' /\ DeadlineHonest'
  BY <1>1, <1>2, <1>3, Zenon DEF BodyInv, AckInv, EmptyReaderAcks, WindowConserved, DeadlineHonest
<1>6. inn.proto = "h2" => H2Inv'
  BY <1>1, <1>2, <1>3, Zenon DEF H2Inv, BodyInv
<1>7. ASSUME inn.proto = "h1" PROVE H1Inv'
  <2>1. Sound(Now, hd)
    BY <1>7, Zenon DEF BodyInv, H1Inv
  <2>2. Now' \in States /\ Now'.b = br' /\ Now'.i = inn' /\ Now'.n = net
    BY <1>1, <1>2, <1>3, NowFacts, Zenon DEF Now, States
  <2>3. Conserved(Now') /\ EmptyAcks(Now'.b)
    BY <1>2, <1>3, <2>1, <2>2, NowFacts, ZenonT(60) DEF Sound, Conserved, EmptyAcks
  <2>4. Told(Now', hd') /\ Remembered(Now') /\ Served(Now', hd')
    BY <1>1, <1>3, <2>2, Zenon DEF Told, Remembered, Served
  <2>5. Sound(Now', hd')
    BY <1>3, <1>7, <2>2, <2>3, <2>4, Zenon DEF Sound
  <2> QED
    BY <2>4, <2>5, Zenon DEF H1Inv
<1> QED
  BY <1>3, <1>4, <1>5, <1>6, <1>7, Zenon DEF BodyInv

\* The peer sends or goes away: an edge, and nothing else the loop has seen.
LEMMA PeerStep ==
  ASSUME Sizes, BodyInv, PeerSends \/ PeerGone PROVE BodyInv'
<1>1. UNCHANGED <<br, inn, acks, clock, hd>> /\ inn.proto = "h1"
  BY Zenon DEF PeerSends, PeerGone
<1>2. /\ net' \in Nets /\ net'.edge = TRUE /\ net'.bytes + net'.left = net.bytes + net.left
  <2>1. CASE PeerSends
    <3>1. PICK n \in 1..net.left :
              net' = [net EXCEPT !.left = @ - n, !.bytes = @ + n, !.edge = TRUE]
      BY <2>1, Zenon DEF PeerSends
    <3>2. /\ net.left - n \in Nat /\ net.bytes + n \in Nat
          /\ (net.bytes + n) + (net.left - n) = net.bytes + net.left
      BY Counts
    <3>3. net' = [net EXCEPT !.left = net.left - n, !.bytes = net.bytes + n, !.edge = TRUE]
      BY <3>1, NowFacts, Zenon DEF Nets
    <3>4. net' \in Nets /\ net'.edge = TRUE /\ net'.bytes = net.bytes + n /\ net'.left = net.left - n
      BY <3>2, <3>3, NowFacts, Zenon DEF Nets
    <3> QED
      BY <3>2, <3>4, Zenon
  <2>2. CASE PeerGone
    <3>1. net' = [net EXCEPT !.fin = TRUE, !.edge = TRUE]
      BY <2>2, Zenon DEF PeerGone
    <3> QED
      BY <3>1, NowFacts, Zenon DEF Nets
  <2> QED
    BY <2>1, <2>2, Zenon
<1>3. Sound(Now, hd) /\ Remembered(Now) /\ (acks = 0 => Served(Now, hd))
  BY <1>1, Zenon DEF BodyInv, H1Inv
<1>4. Now' \in States /\ Now'.b = br /\ Now'.i = inn /\ Now'.n = net'
  BY <1>1, <1>2, NowFacts, Zenon DEF Now, States
<1>5. Told(Now', hd') /\ Remembered(Now') /\ EmptyAcks(Now'.b)
  BY <1>1, <1>2, <1>3, <1>4, NowFacts, Zenon DEF Sound, Told, Remembered, EmptyAcks
<1>6. Conserved(Now')
  <2>1. /\ br.buf + br.unacked + inn.left <= Total /\ br.buf <= Cap /\ inn.unread <= ReadAhead
        /\ inn.left = inn.unread + net.bytes + net.left
    BY <1>3, NowFacts, Zenon DEF Sound, Conserved
  <2>2. inn.left = inn.unread + net'.bytes + net'.left
    <3>1. net'.bytes \in Nat /\ net'.left \in Nat
      BY <1>2, Zenon DEF Nets
    <3> QED
      BY <1>2, <2>1, <3>1, Counts, SMTT(30)
  <2> QED
    BY <1>4, <2>1, <2>2, Zenon DEF Conserved
<1>7. acks' = 0 => Served(Now', hd')
  BY <1>1, <1>2, <1>3, <1>4, NowFacts, Zenon DEF Served
<1>8. Sound(Now', hd')
  BY <1>1, <1>4, <1>5, <1>6, Zenon DEF Sound
<1>9. H1Inv'
  BY <1>5, <1>7, <1>8, Zenon DEF H1Inv
<1>10. AckInv' /\ EmptyReaderAcks' /\ WindowConserved' /\ DeadlineHonest'
  BY <1>1, Zenon DEF BodyInv, AckInv, EmptyReaderAcks, WindowConserved, DeadlineHonest
<1>11. TypeInv'
  BY <1>1, <1>2, Zenon DEF BodyInv, TypeInv
<1> QED
  BY <1>1, <1>9, <1>10, <1>11, Zenon DEF BodyInv

\* h2AbortAllBodyIn, or a reset.
LEMMA H2GoneStep ==
  ASSUME Sizes, BodyInv, H2Gone PROVE BodyInv'
<1> DEFINE q == Closed(Now)
<1>1. UNCHANGED <<acks, clock, hd>> /\ inn.proto = "h2" /\ br' = q.b /\ inn' = q.i /\ net' = q.n
  BY Zenon DEF H2Gone, Become
<1>2. /\ q \in States /\ q.n = net
      /\ q.i.proto = inn.proto /\ q.i.large = inn.large /\ q.i.window = inn.window
      /\ q.i.left = inn.left /\ q.i.unread = inn.unread
      /\ q.i.up = FALSE /\ q.i.done = TRUE /\ q.i.settle = FALSE
      /\ q.b.buf = br.buf /\ q.b.unacked = br.unacked /\ q.b.closed = br.closed
      /\ q.b.hit = br.hit /\ q.b.at = br.at /\ q.b.ackQueued = br.ackQueued
  <2>1. Now \in States /\ Now.b = br /\ Now.i = inn /\ Now.n = net
    BY NowFacts, Zenon
  <2>2. /\ q \in States /\ q.n = Now.n
        /\ q.i.proto = Now.i.proto /\ q.i.large = Now.i.large /\ q.i.window = Now.i.window
        /\ q.i.left = Now.i.left /\ q.i.unread = Now.i.unread
        /\ q.i.up = FALSE /\ q.i.done = TRUE /\ q.i.settle = FALSE
        /\ q.b.buf = Now.b.buf /\ q.b.unacked = Now.b.unacked /\ q.b.closed = Now.b.closed
        /\ q.b.hit = Now.b.hit /\ q.b.at = Now.b.at /\ q.b.ackQueued = Now.b.ackQueued
    BY <2>1, ClosedFields, Zenon
  <2> QED
    BY <2>1, <2>2, Zenon
<1> HIDE DEF q
<1>3. br' \in Readers /\ inn' \in Inputs
  BY <1>1, <1>2, Zenon DEF States
<1>4. TypeInv'
  BY <1>1, <1>2, <1>3, Zenon DEF BodyInv, TypeInv
<1>5. AckInv' /\ EmptyReaderAcks' /\ WindowConserved' /\ DeadlineHonest'
  BY <1>1, <1>2, Zenon DEF BodyInv, AckInv, EmptyReaderAcks, WindowConserved, DeadlineHonest
<1>6. H2Inv'
  BY <1>1, <1>2, Zenon DEF H2Inv, BodyInv
<1> QED
  BY <1>1, <1>2, <1>4, <1>5, <1>6, ZenonT(60) DEF BodyInv

\* h2BodyAcked: the window grows by what is acknowledged, once.
LEMMA H2AckedStep ==
  ASSUME Sizes, BodyInv, H2Acked PROVE BodyInv'
<1>1. /\ UNCHANGED <<net, clock, hd>> /\ inn.proto = "h2" /\ acks' = 0 /\ br' = TakeAck(br)
      /\ inn' = IF inn.done \/ inn.large THEN inn ELSE [inn EXCEPT !.window = @ + br.unacked]
  BY Zenon DEF H2Acked
<1>2. /\ br' \in Readers /\ br'.buf = br.buf /\ br'.unacked = 0 /\ br'.ackQueued = FALSE
      /\ br'.closed = br.closed /\ br'.hit = br.hit /\ br'.at = br.at
  BY <1>1, NowFacts, TakeFacts, Zenon
<1>3. /\ inn' \in Inputs /\ inn'.proto = inn.proto /\ inn'.done = inn.done /\ inn'.large = inn.large
      /\ inn'.left = inn.left /\ inn'.unread = inn.unread /\ inn'.settle = inn.settle
      /\ IF inn.done \/ inn.large THEN inn'.window = inn.window
                                  ELSE inn'.window = inn.window + br.unacked
  <2>1. CASE inn.done \/ inn.large
    BY <1>1, <2>1, NowFacts, Zenon
  <2>2. CASE ~(inn.done \/ inn.large)
    <3>1. inn' = [inn EXCEPT !.window = inn.window + br.unacked] /\ inn.window + br.unacked \in Nat
      BY <1>1, <2>2, Counts, NowFacts, SMTT(30) DEF Inputs
    <3> QED
      BY <2>2, <3>1, NowFacts, Zenon DEF Inputs
  <2> QED
    BY <2>1, <2>2, Zenon
<1>4. inn'.window <= Window /\ WindowConserved'
  <2>1. CASE inn.done \/ inn.large
    BY <1>3, <2>1, Zenon DEF WindowConserved, BodyInv
  <2>2. CASE ~(inn.done \/ inn.large)
    <3>1. inn.window + br.buf + br.unacked = Window
      BY <1>1, <2>2, Zenon DEF BodyInv, WindowConserved
    <3>2. inn'.window = inn.window + br.unacked
      BY <1>3, <2>2, Zenon
    <3> QED
      BY <1>2, <3>1, <3>2, Counts, SMTT(30) DEF WindowConserved
  <2> QED
    BY <2>1, <2>2, Zenon
<1>5. TypeInv'
  BY <1>1, <1>2, <1>3 DEF BodyInv, TypeInv
<1>6. AckInv' /\ EmptyReaderAcks'
  <2>1. AckInv'
    BY <1>1, <1>2, Zenon DEF AckInv
  <2>2. EmptyReaderAcks'
    BY <1>2 DEF EmptyReaderAcks
  <2> QED
    BY <2>1, <2>2, Zenon
<1>7. DeadlineHonest'
  BY <1>1, <1>2, Zenon DEF BodyInv, DeadlineHonest
<1>8. H2Inv'
  <2>1. br'.buf + br'.unacked + inn'.left <= Total
    BY <1>2, <1>3, Counts, SMTT(30)
  <2> QED
    BY <1>1, <1>3, <2>1, ZenonT(60) DEF H2Inv, BodyInv
<1> QED
  BY <1>1, <1>3, <1>4, <1>5, <1>6, <1>7, <1>8, Zenon DEF BodyInv

\* h2StreamBodyData.
LEMMA H2DataStep ==
  ASSUME Sizes, BodyInv, H2Data PROVE BodyInv'
<1>1. UNCHANGED <<acks, clock, hd>> /\ inn.proto = "h2" /\ ~inn.done
  BY Zenon DEF H2Data
<1>2. PICK n \in 1..net.left, large \in BOOLEAN :
          LET end == n = net.left
              cut == inn.large \/ large
              pushed == IF cut THEN FinishBody(br, TRUE) ELSE Push(br, n)
          IN  /\ n <= inn.window
              /\ net' = [net EXCEPT !.left = @ - n]
              /\ inn' = [inn EXCEPT !.window = @ - n, !.left = @ - n, !.large = cut, !.done = end]
              /\ br' = IF end THEN FinishBody(pushed, inn.broken) ELSE pushed
  BY Zenon DEF H2Data
<1> DEFINE end == n = net.left
<1> DEFINE cut == inn.large \/ large
<1> DEFINE pushed == IF cut THEN FinishBody(br, TRUE) ELSE Push(br, n)
<1>3. /\ n \in Nat /\ n > 0 /\ n <= net.left /\ n <= inn.window /\ net.left - n \in Nat
      /\ inn.window - n \in Nat /\ inn.left = net.left /\ inn.left - n \in Nat
  BY <1>1, <1>2, Counts, SMTT(30) DEF BodyInv, H2Inv
<1>4. end \in BOOLEAN /\ cut \in BOOLEAN /\ inn.broken \in BOOLEAN
  BY NowFacts, Zenon DEF Inputs
<1>5. net' \in Nets /\ net'.left = net.left - n /\ net'.bytes = net.bytes
  BY <1>2, <1>3, NowFacts, Zenon DEF Nets
<1>6. inn' = [inn EXCEPT !.window = inn.window - n, !.left = inn.left - n, !.large = cut, !.done = end]
  BY <1>2, NowFacts, Zenon DEF Inputs
<1>7. br' = IF end THEN FinishBody(pushed, inn.broken) ELSE pushed
  BY <1>2, Zenon
<1>8. /\ pushed \in Readers
      /\ pushed.closed = br.closed /\ pushed.hit = br.hit /\ pushed.at = br.at
      /\ pushed.ackQueued = br.ackQueued
      /\ \/ cut /\ pushed.buf = br.buf /\ pushed.unacked = br.unacked
         \/ ~cut /\ br.closed /\ pushed.buf = br.buf /\ pushed.unacked = br.unacked + n
         \/ ~cut /\ ~br.closed /\ pushed.buf = br.buf + n /\ pushed.unacked = br.unacked
  <2>1. CASE cut
    <3>1. pushed \in {FinishBody(br, TRUE), FinishBody(br, FALSE)}
      BY <2>1, Zenon
    <3> HIDE DEF pushed
    <3> QED
      BY <2>1, <3>1, NowFacts, FinishFacts, ZenonT(60)
  <2>2. CASE ~cut
    <3>1. pushed = Push(br, n)
      BY <2>2, Zenon
    <3> HIDE DEF pushed, cut
    <3> QED
      BY <1>3, <2>2, <3>1, NowFacts, PushFacts, ZenonT(30)
  <2> QED
    BY <2>1, <2>2, Zenon
<1> HIDE DEF pushed, cut, end
<1>9. /\ br' \in Readers /\ br'.closed = br.closed /\ br'.hit = br.hit /\ br'.at = br.at
      /\ br'.ackQueued = br.ackQueued
      /\ br'.buf = pushed.buf /\ br'.unacked = pushed.unacked
  <2>1. CASE end
    <3>1. br' \in {FinishBody(pushed, TRUE), FinishBody(pushed, FALSE)}
      BY <1>4, <1>7, <2>1, Zenon
    <3>2. /\ br' \in Readers /\ br'.closed = pushed.closed /\ br'.hit = pushed.hit
          /\ br'.at = pushed.at /\ br'.ackQueued = pushed.ackQueued
          /\ br'.buf = pushed.buf /\ br'.unacked = pushed.unacked
      BY <1>8, <3>1, FinishFacts, ZenonT(60)
    <3> QED
      BY <1>8, <3>2, Zenon
  <2>2. CASE ~end
    BY <1>7, <1>8, <2>2, Zenon
  <2> QED
    BY <2>1, <2>2, Zenon
<1>10. /\ inn' \in Inputs /\ inn'.proto = inn.proto /\ inn'.window = inn.window - n
       /\ inn'.left = inn.left - n /\ inn'.large = cut /\ inn'.done = end
       /\ inn'.unread = inn.unread /\ inn'.settle = inn.settle
  BY <1>3, <1>4, <1>6, NowFacts, ZenonT(60) DEF Inputs
<1>11. TypeInv'
  BY <1>1, <1>5, <1>9, <1>10, Zenon DEF BodyInv, TypeInv
<1>12. EmptyReaderAcks'
  BY <1>3, <1>8, <1>9, Counts DEF EmptyReaderAcks, BodyInv
<1>13. AckInv' /\ DeadlineHonest'
  BY <1>1, <1>9, ZenonT(60) DEF AckInv, DeadlineHonest, BodyInv
<1>14. inn'.window <= Window
  BY <1>3, <1>10, Counts, SMTT(30) DEF BodyInv
<1>15. WindowConserved'
  <2> SUFFICES ASSUME ~end, ~cut PROVE inn'.window + br'.buf + br'.unacked = Window
    BY <1>10, Zenon DEF WindowConserved
  <2>1. inn.window + br.buf + br.unacked = Window
    BY <1>1, NowFacts, Zenon DEF cut, BodyInv, WindowConserved
  <2> QED
    BY <1>3, <1>8, <1>9, <1>10, <2>1, Counts, SMTT(30)
<1>16. H2Inv'
  <2>1. br'.buf + br'.unacked + inn'.left <= Total
    BY <1>3, <1>8, <1>9, <1>10, Counts, SMTT(30)
  <2>2. net'.left <= Total /\ net'.bytes = 0 /\ inn'.unread = 0 /\ ~inn'.settle
    BY <1>1, <1>3, <1>5, <1>10, Counts, SMTT(30) DEF BodyInv, H2Inv
  <2>3. inn'.left = net'.left
    BY <1>3, <1>5, <1>10, Zenon
  <2> QED
    BY <2>1, <2>2, <2>3, ZenonT(60) DEF H2Inv
<1> QED
  BY <1>1, <1>10, <1>11, <1>12, <1>13, <1>14, <1>15, <1>16, ZenonT(60) DEF BodyInv

-------------------------------------------------------------------------------
(* The theorems.                                                               *)

\* Every step keeps the invariant.
LEMMA BodyStep ==
  ASSUME Sizes, BodyInv, [Next]_vars PROVE BodyInv'
<1>1. CASE Read \/ CloseReader \/ SetReadDeadline \/ Return
  BY <1>1, ReadStep, CloseStep, SetDeadlineStep, ReturnStep, Zenon
<1>2. CASE PostAck \/ Tick \/ TimerFires \/ DeadlineFired \/ UNCHANGED vars
  BY <1>2, TimeStep, Zenon
<1>3. CASE H2Data \/ H2Acked \/ H2Gone
  BY <1>3, H2DataStep, H2AckedStep, H2GoneStep, ZenonT(60)
<1>4. CASE Readable \/ H1Acked \/ Settle \/ Sweep
  BY <1>4, ReadableStep, H1AckedStep, SettleStep, SweepStep, Zenon
<1>5. CASE PeerSends \/ PeerGone
  BY <1>5, PeerStep, Zenon
<1> QED
  BY <1>1, <1>2, <1>3, <1>4, <1>5, Zenon DEF Next

\* A new body.
LEMMA BodyInit ==
  ASSUME Sizes, Init PROVE BodyInv
<1>1. /\ br = [buf |-> 0, eof |-> FALSE, err |-> FALSE, closed |-> FALSE, unacked |-> 0,
               ackQueued |-> FALSE, hit |-> FALSE, at |-> 0]
      /\ net = [left |-> Total, bytes |-> 0, fin |-> FALSE, edge |-> FALSE]
      /\ acks = 0 /\ clock = [now |-> 1, timer |-> 0, firing |-> 0] /\ hd = "run"
  BY Zenon DEF Init
<1>2. PICK proto \in {"h1", "h2"}, broken \in BOOLEAN :
          inn = [proto |-> proto, broken |-> broken, up |-> TRUE, done |-> FALSE, left |-> Total,
                 large |-> FALSE, window |-> Window, unread |-> 0, pending |-> FALSE, eof |-> FALSE,
                 hup |-> FALSE, deadline |-> proto = "h1", settle |-> FALSE]
  BY Zenon DEF Init
<1>3. TypeInv
  <2>1. br \in Readers /\ net \in Nets /\ clock \in Clocks
    BY <1>1, SMTT(30) DEF Readers, Nets, Clocks, Sizes
  <2>2. inn \in Inputs
    <3> DEFINE d == proto = "h1"
    <3>1. d \in BOOLEAN
      BY ZenonT(60)
    <3> HIDE DEF d
    <3> QED
      BY <1>2, <3>1, Zenon DEF Inputs, Sizes, d
  <2> QED
    BY <1>1, <2>1, <2>2, SMTT(30) DEF TypeInv
<1>4. AckInv /\ EmptyReaderAcks /\ WindowConserved /\ DeadlineHonest /\ inn.window <= Window
  BY <1>1, <1>2, SMTT(30) DEF AckInv, EmptyReaderAcks, WindowConserved, DeadlineHonest, Sizes
<1>5. inn.proto = "h2" => H2Inv
  BY <1>1, <1>2 DEF H2Inv, Sizes
<1>6. inn.proto = "h1" => H1Inv
  <2>1. Now \in States /\ Now.b = br /\ Now.i = inn /\ Now.n = net
    BY <1>3, ZenonT(60) DEF TypeInv, Now, States
  <2>2. Conserved(Now) /\ Told(Now, hd) /\ EmptyAcks(Now.b) /\ Remembered(Now)
    BY <1>1, <1>2, <2>1 DEF Conserved, Told, EmptyAcks, Remembered, Sizes
  <2>3. inn.proto = "h1" => Served(Now, hd)
    <3>1. /\ inn.unread = 0 /\ net.bytes = 0 /\ ~net.fin
          /\ inn.proto = "h1" => inn.deadline
      BY <1>1, <1>2, Zenon
    <3> QED
      BY <2>1, <3>1, Zenon DEF Served
  <2> QED
    BY <2>1, <2>2, <2>3, Zenon DEF H1Inv, Sound
<1> QED
  BY <1>3, <1>4, <1>5, <1>6, Zenon DEF BodyInv

\* The invariant of a streamed body, of which the theorems below are parts.
THEOREM BodyInductive == ASSUME Sizes PROVE Spec => []BodyInv
<1>1. Init => BodyInv
  BY BodyInit, Zenon
<1>2. BodyInv /\ [Next]_vars => BodyInv'
  BY BodyStep, Zenon
<1> QED
  BY <1>1, <1>2, PTL DEF Spec

\* The types; the reader, the connection's buffer and the window stay within their sizes.
THEOREM TypeCorrect == ASSUME Sizes PROVE Spec => []TypeOK
<1>1. BodyInv => TypeOK
  <2> SUFFICES ASSUME BodyInv PROVE TypeOK
    BY Zenon
  <2>1. inn.proto = "h1" => /\ inn.unread <= ReadAhead
                            /\ inn.left = inn.unread + net.bytes + net.left
    BY NowFacts, Zenon DEF BodyInv, H1Inv, Sound, Conserved
  <2>2. inn.proto = "h2" => net.left <= Total /\ net.bytes = 0 /\ inn.unread = 0
    BY Zenon DEF BodyInv, H2Inv
  <2>3. /\ br.buf \in 0..Total /\ br.unacked \in 0..Total /\ inn.left \in 0..Total
        /\ inn.window \in 0..Window
    BY Counts DEF BodyInv
  <2>4. inn.unread \in 0..ReadAhead /\ net.left \in 0..Total /\ net.bytes \in 0..Total
    BY <2>1, <2>2, <2>3, Counts
  <2>5. /\ acks \in 0..2 /\ hd \in {"run", "returned"}
        /\ clock.now \in 1..MaxTime /\ clock.timer \in 0..MaxTime /\ clock.firing \in 0..2
    BY Zenon DEF BodyInv, TypeInv, Clocks
  <2> QED
    BY <2>3, <2>4, <2>5, Zenon DEF TypeOK
<1> QED
  BY <1>1, BodyInductive, PTL

\* h2StreamBodyData, h2BodyAcked: no part of an HTTP/2 stream's window is lost or given
\* twice, whatever the handler reads and whenever it closes the body.
THEOREM WindowIsConserved == ASSUME Sizes PROVE Spec => []WindowConserved
<1>1. BodyInv => WindowConserved
  BY Zenon DEF BodyInv
<1> QED
  BY <1>1, BodyInductive, PTL

\* claimAckLocked: an open reader that is empty has everything it read on its way back.
THEOREM EmptyReaderIsAcked == ASSUME Sizes PROVE Spec => []EmptyReaderAcks
<1>1. BodyInv => EmptyReaderAcks
  BY Zenon DEF BodyInv
<1> QED
  BY <1>1, BodyInductive, PTL

\* h1BodyAcked, readOnce, abortStarvedBody: a handler that waits for bytes has all that
\* arrived, or the loop is about to look, or the connection has a deadline for the rest.
THEOREM ReaderIsNotStarved == ASSUME Sizes PROVE Spec => []ReaderNotStarved
<1>1. BodyInv => ReaderNotStarved
  <2> SUFFICES ASSUME BodyInv, inn.proto = "h1", hd = "run", br.buf = 0, ~Over,
                      ~net.edge, acks = 0, ~inn.settle
               PROVE  net.bytes = 0 /\ inn.unread = 0 /\ ~net.fin /\ inn.deadline
    BY Zenon DEF ReaderNotStarved
  <2>1. Served(Now, hd)
    BY Zenon DEF BodyInv, H1Inv
  <2> QED
    BY <2>1, NowFacts, Zenon DEF Served, Over
<1> QED
  BY <1>1, BodyInductive, PTL

\* setReadDeadline, deadlineFired: a read fails only for a deadline that has passed, and
\* a deadline that is set has a timer, whichever fires late.
THEOREM DeadlineIsHonest == ASSUME Sizes PROVE Spec => []DeadlineHonest
<1>1. BodyInv => DeadlineHonest
  BY Zenon DEF BodyInv
<1> QED
  BY <1>1, BodyInductive, PTL
===============================================================================
