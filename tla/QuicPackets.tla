------------------------------- MODULE QuicPackets -----------------------------
(* How a QUIC connection gets its frames to the peer: coalescing, packets,        *)
(* acknowledgements, loss, probe timeouts and the timer's flag                    *)
(* (src/core/quic_conn.go, quic_loss.go, quic_ack.go, quic_timer.go), and which    *)
(* packets of the peer it takes.                                                  *)
(*                                                                                *)
(* Handlers, recvLoop and the timer goroutine share the state.  Packets are lost, *)
(* reordered and acknowledged late; time is any prefix of the packets, which are  *)
(* kept in the order they were sent, being old enough.  Only the application      *)
(* data space is modelled; every packet has size 1.                               *)
EXTENDS Integers, FiniteSetsExt, SequencesExt

CONSTANTS
    Frames,         \* frames to send, each by a handler or by recvLoop
    Budget,         \* pktBudget, in frames
    Threshold,      \* quicPktThreshold
    InitialWindow,  \* quicInitialWindow, in packets
    MaxTracked,     \* quicMaxTrackedSent
    MaxPN,          \* bound: packets sent
    PeerPNs,        \* packet numbers of the peer
    MaxRanges       \* maxAckRanges

VARIABLES
    tx,     \* what is sent: see Init
    hand,   \* what recvLoop and the timer goroutine are in the middle of
    net,    \* packets on their way, and what the peer has
    rx      \* ackRanges, ackFloor, and the packets processed

vars == <<tx, hand, net, rx>>

\* queue: coalesceBuf; sent: the packets in flight; ack: pendingAck; work: timerWork.
Init ==
    /\ tx = [left |-> Frames, queue |-> <<>>, pn |-> 0, sent |-> <<>>, largest |-> -1, flight |-> 0,
             cwnd |-> InitialWindow, slow |-> TRUE, ack |-> FALSE, work |-> FALSE, writers |-> 0, amplified |-> FALSE]
    /\ hand = [recv |-> "idle", lost |-> <<>>, timer |-> "idle", expired |-> <<>>]
    /\ net = [way |-> {}, got |-> {}, have |-> {}]
    /\ rx = [ranges |-> <<>>, floor |-> 0, seen |-> {}, twice |-> FALSE]

\* The types; the window and the flight are never negative.
TypeOK ==
    /\ tx.flight \in Nat /\ tx.cwnd \in Nat /\ tx.writers \in 0..Cardinality(Frames)
    /\ tx.pn \in 0..MaxPN /\ tx.largest \in -1..(tx.pn - 1)
    /\ hand.recv \in {"idle", "detect", "requeue", "store"}
    /\ hand.timer \in {"idle", "flush", "probe", "resend", "drain", "arm"}

--------------------------------------------------------------------------------
(* Sending, of t = [tx, net].                                                     *)

\* sendFramesToLocked, onPacketSent: a packet over the amplification limit is not sent,
\* but counts as sent.
SendPacket(t, frames, eliciting) ==
    IF t.tx.pn = MaxPN THEN t
    ELSE [tx |-> [t.tx EXCEPT
             !.pn = @ + 1, !.ack = FALSE, !.work = @ \/ eliciting,
             !.sent = IF eliciting THEN Append(@, [pn |-> t.tx.pn, frames |-> frames]) ELSE @,
             !.flight = IF eliciting THEN @ + 1 ELSE @],
          net |-> [t.net EXCEPT
             !.way = IF t.tx.amplified THEN @ ELSE @ \cup {[pn |-> t.tx.pn, frames |-> frames]}]]

\* canSend.
CanSend(x) == x.flight < x.cwnd /\ Len(x.sent) < MaxTracked

\* How much of the queue fits a packet; an element is one frame, or all of a lost packet.
Size(q) == FoldLeft(LAMBDA n, frames : n + Cardinality(frames), 0, q)
Fitting(q) == Max({1} \cup {k \in DOMAIN q : Size(SubSeq(q, 1, k)) <= Budget})

\* Mutant: the frames of a packet leave the queue whether or not the packet was sent.
DrainLoses(t) ==
    IF t.tx.queue = <<>> THEN t
    ELSE LET k == Fitting(t.tx.queue)
             u == IF CanSend(t.tx) /\ t.tx.pn < MaxPN THEN SendPacket(t, UNION ToSet(SubSeq(t.tx.queue, 1, k)), TRUE) ELSE t
         IN  [u EXCEPT !.tx.queue = SubSeq(@, k + 1, Len(@))]

\* drainCoalescedLocked: one packet, then all.
DrainOne(t) ==
    IF t.tx.queue = <<>> \/ ~CanSend(t.tx) \/ t.tx.amplified \/ t.tx.pn = MaxPN THEN t
    ELSE LET k == Fitting(t.tx.queue)
             u == SendPacket(t, UNION ToSet(SubSeq(t.tx.queue, 1, k)), TRUE)
         IN  [u EXCEPT !.tx.queue = SubSeq(@, k + 1, Len(@))]
DrainCoalesced(t) == FoldLeft(LAMBDA u, k : DrainOne(u), t, t.tx.queue)

\* queueStreamFrameLocked.
Queue(t, frames) ==
    LET u == [t EXCEPT !.tx.queue = Append(@, frames), !.tx.work = TRUE]
    IN  IF Size(u.tx.queue) >= Budget THEN DrainCoalesced(u) ELSE u

\* queueControlFrameLocked, and the end of recoverLostPackets: the last writer drains.
DrainIfAlone(t) == IF t.tx.writers = 0 THEN DrainCoalesced(t) ELSE t

State == [tx |-> tx, net |-> net]
Become(t) == tx' = t.tx /\ net' = t.net

\* sendStreamData: streamWriters is counted before the lock is taken.
Enter ==
    /\ tx.writers < Cardinality(tx.left)
    /\ tx' = [tx EXCEPT !.writers = @ + 1]
    /\ UNCHANGED <<hand, net, rx>>

Write(f) ==
    /\ tx.writers > 0 /\ f \in tx.left
    /\ LET t == Queue([State EXCEPT !.tx.left = @ \ {f}], {f})
           u == [t EXCEPT !.tx.writers = @ - 1]
       IN  Become(IF u.tx.writers = 0 /\ u.tx.queue # <<>> THEN DrainCoalesced(u) ELSE u)
    /\ UNCHANGED <<hand, rx>>

\* A frame of recvLoop: queueControlFrameLocked.
Control(f) ==
    /\ hand.recv = "idle" /\ f \in tx.left /\ tx.writers < Cardinality(tx.left)
    /\ Become(DrainIfAlone(Queue([State EXCEPT !.tx.left = @ \ {f}], {f})))
    /\ UNCHANGED <<hand, rx>>

--------------------------------------------------------------------------------
(* ACK frames and loss, in recvLoop.                                              *)

Without(x, P(_)) == [x EXCEPT !.sent = SelectSeq(@, LAMBDA s : ~P(s)),
                              !.flight = @ - Len(SelectSeq(x.sent, P))]

\* Mutant: the packets below the largest acknowledged are taken as acknowledged.
MarkBelow(x, acks) == Without(x, LAMBDA s : s.pn <= Max(acks))

\* markAcked, and the window's growth.
MarkAcked(x, acks) ==
    LET n == Len(SelectSeq(x.sent, LAMBDA s : s.pn \in acks))
    IN  [Without(x, LAMBDA s : s.pn \in acks) EXCEPT
            !.largest = Max({@, Max(acks)}), !.cwnd = IF x.slow THEN @ + n ELSE @ + (n \div x.cwnd)]

\* onAckReceived: the peer acknowledges packets it has; drainCoalescedLocked follows.
RecvAck ==
    /\ hand.recv = "idle" /\ net.got # {}
    /\ \E acks \in (SUBSET net.got) \ {{}} :
          LET x == MarkAcked(tx, acks)
              t == [State EXCEPT !.tx = x]
          IN  /\ acks \cap {tx.sent[k].pn : k \in DOMAIN tx.sent} # {} \/ Max(acks) > tx.largest
              /\ Become(IF x.queue # <<>> THEN DrainCoalesced(t) ELSE t)
              /\ hand' = [hand EXCEPT !.recv = IF x.sent # <<>> /\ x.sent[1].pn <= x.largest THEN "detect" ELSE "idle"]
    /\ UNCHANGED rx

\* detectLost: those far enough below the largest acknowledged, and the old ones among them.
IsLost(x, s, old) == s.pn <= x.largest /\ (s.pn < x.largest + 1 - Threshold \/ s.pn < old)
Lost(x, old) == SelectSeq(x.sent, LAMBDA s : IsLost(x, s, old))

Detect ==
    /\ hand.recv = "detect"
    /\ \E old \in {0, tx.pn} :
          LET lost == Lost(tx, old)
              x == Without(tx, LAMBDA s : IsLost(tx, s, old))
          IN  /\ tx' = IF lost = <<>> THEN x ELSE [x EXCEPT !.cwnd = Max({@ \div 2, 2}), !.slow = FALSE]
              /\ hand' = [hand EXCEPT !.lost = lost, !.recv = IF lost = <<>> THEN "idle" ELSE "requeue"]
    /\ UNCHANGED <<net, rx>>

\* Mutant: the frames are only marked as lost.
RequeueNothing ==
    /\ hand.recv = "requeue"
    /\ Become(DrainIfAlone(State))
    /\ hand' = [hand EXCEPT !.recv = "idle", !.lost = <<>>]
    /\ UNCHANGED rx

\* recoverLostPackets: the frames of each lost packet are queued again.
Requeue ==
    /\ hand.recv = "requeue"
    /\ Become(DrainIfAlone(FoldLeft(LAMBDA t, s : Queue(t, s.frames), State, hand.lost)))
    /\ hand' = [hand EXCEPT !.recv = "idle", !.lost = <<>>]
    /\ UNCHANGED rx

--------------------------------------------------------------------------------
(* The timer goroutine: the end of tick.                                          *)

Tick ==
    /\ hand.timer = "idle" /\ tx.work
    /\ tx' = [tx EXCEPT !.work = FALSE]
    /\ hand' = [hand EXCEPT !.timer = "flush"]
    /\ UNCHANGED <<net, rx>>

\* flushPendingAck.
Flush ==
    /\ hand.timer = "flush"
    /\ Become(IF tx.ack THEN SendPacket(State, {}, FALSE) ELSE State)
    /\ hand' = [hand EXCEPT !.timer = "probe"]
    /\ UNCHANGED rx

\* Mutant: the expired packets stay in flight.
ProbeKeepsFlight ==
    /\ hand.timer = "probe"
    /\ \E k \in 0..Len(tx.sent) :
          /\ tx' = [tx EXCEPT !.sent = SubSeq(@, k + 1, Len(@))]
          /\ hand' = [hand EXCEPT !.timer = "resend", !.expired = SubSeq(tx.sent, 1, k)]
    /\ UNCHANGED <<net, rx>>

\* ptoExpiredFrames: the oldest packets that are old enough, if any.
Probe ==
    /\ hand.timer = "probe"
    /\ \E k \in 0..Len(tx.sent) :
          /\ tx' = [tx EXCEPT !.sent = SubSeq(@, k + 1, Len(@)), !.flight = @ - k]
          /\ hand' = [hand EXCEPT !.timer = "resend", !.expired = SubSeq(tx.sent, 1, k)]
    /\ UNCHANGED <<net, rx>>

\* sendFrames of each, whatever the window.
Resend ==
    /\ hand.timer = "resend"
    /\ hand.expired # <<>> => tx.pn < MaxPN
    /\ Become(IF hand.expired = <<>> THEN State ELSE SendPacket(State, Head(hand.expired).frames, TRUE))
    /\ hand' = IF hand.expired = <<>> THEN [hand EXCEPT !.timer = "drain"] ELSE [hand EXCEPT !.expired = Tail(@)]
    /\ UNCHANGED rx

\* drainCoalescedLocked, and what is pending after it.
DrainTick ==
    /\ hand.timer = "drain"
    /\ LET t == DrainCoalesced(State)
       IN  /\ tx' = [t.tx EXCEPT !.work = @ \/ t.tx.ack \/ t.tx.queue # <<>>] /\ net' = t.net
    /\ hand' = [hand EXCEPT !.timer = "arm"]
    /\ UNCHANGED rx

\* Mutant: packets that wait for their acknowledgement do not keep the timer working.
ArmNothing ==
    /\ hand.timer = "arm"
    /\ hand' = [hand EXCEPT !.timer = "idle"]
    /\ UNCHANGED <<tx, net, rx>>

\* hasSentPackets.
Arm ==
    /\ hand.timer = "arm"
    /\ tx' = [tx EXCEPT !.work = @ \/ tx.sent # <<>>]
    /\ hand' = [hand EXCEPT !.timer = "idle"]
    /\ UNCHANGED <<net, rx>>

--------------------------------------------------------------------------------
(* The network, the peer and the address validation.                              *)

Deliver ==
    \E p \in net.way :
        /\ net' = [net EXCEPT !.way = @ \ {p}, !.have = @ \cup p.frames,
                              !.got = IF p.frames = {} THEN @ ELSE @ \cup {p.pn}]
        /\ UNCHANGED <<tx, hand, rx>>

Lose ==
    \E p \in net.way :
        /\ p.frames # {}
        /\ net' = [net EXCEPT !.way = @ \ {p}]
        /\ UNCHANGED <<tx, hand, rx>>

\* migrateTo and resetForNewPath: a move to an address not yet validated, with nothing
\* received from it; and its validation.
Migrate ==
    /\ hand.recv = "idle"
    /\ tx' = IF tx.amplified THEN [tx EXCEPT !.amplified = FALSE]
             ELSE [tx EXCEPT !.amplified = TRUE, !.cwnd = InitialWindow, !.slow = TRUE]
    /\ UNCHANGED <<hand, net, rx>>

\* Mutant: a packet below the floor is new.
RecordForgets(r, pn) ==
    IF \E k \in DOMAIN r.ranges : r.ranges[k][1] <= pn /\ pn <= r.ranges[k][2] THEN r
    ELSE [r EXCEPT !.ranges = <<<<pn, pn>>>> \o SubSeq(@, 1, Min({Len(@), MaxRanges - 1}))]

\* recordRecvPN: ranges, from the highest, as the sets of numbers they stand for.
Numbers(r) == UNION {r.ranges[k][1]..r.ranges[k][2] : k \in DOMAIN r.ranges}
Starts(S) == {x \in S : x - 1 \notin S}
RangeFrom(S, x) == <<x, Min({y \in x..Max(S) : y + 1 \notin S})>>
Merged(S) ==
    LET starts == SetToSortSeq(Starts(S), >)
    IN  [k \in 1..Len(starts) |-> RangeFrom(S, starts[k])]
RecordRecvPN(r, pn) ==
    IF pn < r.floor \/ pn \in Numbers(r) THEN r
    ELSE LET all == Merged(Numbers(r) \cup {pn})
             kept == SubSeq(all, 1, Min({Len(all), MaxRanges}))
         IN  [r EXCEPT !.ranges = kept,
                       !.floor = IF Len(all) > MaxRanges THEN Max({@, kept[MaxRanges][1]}) ELSE @]

\* processFrames of a packet that needs an ACK; stashAck.
RecvPacket(pn) ==
    /\ hand.recv = "idle"
    /\ LET r == RecordRecvPN(rx, pn)
       IN  rx' = [r EXCEPT !.seen = IF r = rx THEN @ ELSE @ \cup {pn}, !.twice = @ \/ (r # rx /\ pn \in rx.seen)]
    /\ tx' = [tx EXCEPT !.ack = TRUE]
    /\ hand' = [hand EXCEPT !.recv = "store"]
    /\ UNCHANGED net

StashStore ==
    /\ hand.recv = "store"
    /\ tx' = [tx EXCEPT !.work = TRUE]
    /\ hand' = [hand EXCEPT !.recv = "idle"]
    /\ UNCHANGED <<net, rx>>

Next ==
    \/ Enter \/ \E f \in Frames : Write(f) \/ Control(f)
    \/ RecvAck \/ Detect \/ Requeue
    \/ Tick \/ Flush \/ Probe \/ Resend \/ DrainTick \/ Arm
    \/ Deliver \/ Lose \/ Migrate
    \/ \E pn \in PeerPNs : RecvPacket(pn)
    \/ StashStore

Spec == Init /\ [][Next]_vars

--------------------------------------------------------------------------------
(* Properties.                                                                    *)

InFlight(S) == UNION {S[k].frames : k \in DOMAIN S}

\* sendFramesToLocked, detectLost, ptoExpiredFrames, recoverLostPackets: until the peer
\* has a frame it is in the queue, in a packet that is tracked, or in the hands of the
\* goroutine that sends it again, whatever is lost and however late an ACK is.
NoFrameForgotten ==
    Frames = tx.left \cup UNION ToSet(tx.queue) \cup InFlight(tx.sent) \cup InFlight(hand.lost) \cup InFlight(hand.expired) \cup net.have

\* onPacketSent, markAcked, detectLost, ptoExpiredFrames: bytesInFlight is what the tracked
\* packets hold, and the window always reopens.
FlightExact == tx.flight = Len(tx.sent) /\ tx.cwnd >= 2

\* tick and timerWork: while anything waits for the timer (frames, an ACK, packets to be
\* acknowledged) the flag is set or tick is going to look; no Store is lost to its Swap.
TimerArmed ==
    (tx.queue # <<>> \/ tx.sent # <<>> \/ tx.ack) =>
        tx.work \/ hand.timer # "idle" \/ hand.recv # "idle"

\* recordRecvPN: no packet is processed twice and none acknowledged that did not come,
\* even when the ranges are more than are kept.
EachPacketOnce == ~rx.twice /\ Numbers(rx) \subseteq rx.seen
================================================================================
