-------------------------------- MODULE MCQuic --------------------------------
(* Admission and the QUIC stack for TLC: the counters of every listener, what      *)
(* streams receive, the life of streams and replies, packets and acknowledgements, *)
(* paths, connection IDs and keys, and the hub that admits connections.  They meet *)
(* only through what each models of the others, so one behaviour runs one of them, *)
(* which part names: Admission on its own state, the others on x.                  *)
EXTENDS Admission, Sequences

CONSTANT Parts

VARIABLES part, x1, x2, x3, x4, x5, x6

-------------------------------------------------------------------------------
(* Streams: a request of six bytes and a one-way stream of three; requests that  *)
(* the peer stops, resets, overfills or leaves, and replies without room.        *)

RecvSize == [s \in {"a", "u"} |-> IF s = "a" THEN 6 ELSE 3]
Recv == INSTANCE QuicRecv
    WITH Streams <- {"a", "u"}, Uni <- {"u"}, Size <- RecvSize, MaxRecv <- 5, Window <- 4, MaxData <- 5,
         Overhead <- 1, SegmentCap <- 2, rx <- x1, cn <- x2, tx <- x3

StreamMixes ==
    {<<2, {"room", "stream room"}>>, <<2, {"stop", "stream room"}>>, <<2, {"reset", "drain"}>>,
     <<2, {"stall"}>>, <<2, {"shutdown"}>>, <<1, {"stall", "shutdown"}>>, <<2, {"over", "expire"}>>, <<2, {"bad"}>>,
     <<1, {"close", "room", "stream room"}>>}
Str == INSTANCE QuicStreams
    WITH N <- 2, Batch <- 1, MaxTracked <- 2, Reply <- 1, StreamRoom <- 0, ConnRoom <- 1, HardCap <- 1,
         Mixes <- StreamMixes, str <- x1, qc <- x2, todo <- x3

-------------------------------------------------------------------------------
(* Packets: two frames to send over a network that loses and delays packets, and *)
(* a peer whose packets come in any order and more than once.                    *)

Packets == INSTANCE QuicPackets
    WITH Frames <- {1, 2}, Budget <- 2, Threshold <- 1, InitialWindow <- 2, MaxTracked <- 2, MaxPN <- 4,
         PeerPNs <- {}, MaxRanges <- 2, tx <- x1, hand <- x2, net <- x3, rx <- x4
Acks == INSTANCE QuicPackets
    WITH Frames <- {1}, Budget <- 2, Threshold <- 1, InitialWindow <- 2, MaxTracked <- 2, MaxPN <- 2,
         PeerPNs <- 0..3, MaxRanges <- 2, tx <- x1, hand <- x2, net <- x3, rx <- x4

-------------------------------------------------------------------------------
(* Paths: a peer that moves, sends, takes new connection IDs and updates keys.   *)

PathMixes == {{"move", "send"}, {"move", "cid"}, {"cid", "send"}, {"keys"}}
Path == INSTANCE QuicPath
    WITH Addrs <- {1, 2, 3}, Factor <- 2, MaxChallenges <- 2, ActiveLimit <- 2, MaxSeq <- 3, MaxPackets <- 4,
         MaxSends <- 2, MaxPhase <- 3, Mixes <- PathMixes,
         path <- x1, out <- x2, cid <- x3, keys <- x4, at <- x5, peer <- x6

-------------------------------------------------------------------------------
(* Admission: two connections with one handshake slot.                           *)

HubMixes == {{"shutdown", "timeout"}, {"bad", "stale"}, {"expire", "retire"}}
Hub == INSTANCE QuicAdmission
    WITH Conns <- {1, 2}, Slots <- 1, PerIP <- 2, MaxConns <- 2, MaxIssued <- 2, Inbound <- 1, Mixes <- HubMixes,
         conn <- x1, srv <- x2, hub <- x3, stop <- x4

-------------------------------------------------------------------------------
From5 == x5 = 0 /\ x6 = 0
From4 == x4 = 0 /\ From5

PartsInit ==
    /\ part \in Parts
    /\ Init
    /\ \/ part = "door" /\ x1 = 0 /\ x2 = 0 /\ x3 = 0 /\ From4
       \/ part = "recv" /\ Recv!Init /\ From4
       \/ part = "streams" /\ Str!Init /\ From4
       \/ part = "packets" /\ Packets!Init /\ From5
       \/ part = "acks" /\ Acks!Init /\ From5
       \/ part = "path" /\ Path!Init
       \/ part = "hub" /\ Hub!Init /\ From5

xs == <<x1, x2, x3, x4, x5, x6>>
door == <<activeConns, shuttingDown, drainDone, st, added, zero, shutdown>>

PartsNext ==
    /\ UNCHANGED part
    /\ \/ part = "door" /\ Next /\ UNCHANGED xs
       \/ part = "recv" /\ Recv!Next /\ UNCHANGED <<door, x4, x5, x6>>
       \/ part = "streams" /\ Str!Next /\ UNCHANGED <<door, x4, x5, x6>>
       \/ part = "packets" /\ Packets!Next /\ UNCHANGED <<door, x5, x6>>
       \/ part = "acks" /\ Acks!Next /\ UNCHANGED <<door, x5, x6>>
       \/ part = "path" /\ Path!Next /\ UNCHANGED door
       \/ part = "hub" /\ Hub!Next /\ UNCHANGED <<door, x5, x6>>

PartsSpec == PartsInit /\ [][PartsNext]_<<part, door, xs>>

-------------------------------------------------------------------------------
(* Properties.                                                                 *)

\* What a stream receives is handed over in order and complete, its memory is charged
\* exactly, a peer within its credit is never accused, and it gets credit again.  The
\* references and counts of streams are what handlers, replies and the map hold, each
\* closed stream's credit goes back once, every reply is sent or given up, and an abort
\* reaches its handler (coalesceOOO, grantReceiveCredit, releaseStream, retireStream, resumeBlockedStreams).
StreamsSound ==
    /\ part = "recv" => /\ Recv!TypeOK /\ Recv!InOrder /\ Recv!CompleteWhenDispatched /\ Recv!ChargedExact
                        /\ Recv!HonestPeerNotAccused /\ Recv!PeerNotStarved
    /\ part = "streams" => /\ Str!TypeOK /\ Str!RefsExact /\ Str!CountsExact /\ Str!StreamCreditKept
                           /\ Str!NoReplyStuck /\ Str!AbortReachesHandler

\* QUIC packets: every frame is acknowledged, in flight or queued again, the bytes in
\* flight are those of the packets, a timer is armed while something is in flight, and
\* a packet that comes twice is handled once (onAckReceived, detectLost, recordRecvPN).
PacketsSound ==
    /\ part = "packets" => /\ Packets!TypeOK /\ Packets!NoFrameForgotten /\ Packets!FlightExact
                           /\ Packets!TimerArmed /\ Packets!EachPacketOnce
    /\ part = "acks" => /\ Acks!TypeOK /\ Acks!NoFrameForgotten /\ Acks!FlightExact
                        /\ Acks!TimerArmed /\ Acks!EachPacketOnce

\* QUIC paths: an unvalidated address is sent at most Factor times what it sent, no
\* packet goes to a retired connection ID, a peer that keeps the rules is kept, and
\* both sides agree on the keys (ampBudgetLocked, handlePeerNewConnID, commitPeerKeyUpdate).
PathSound ==
    part = "path" => /\ Path!TypeOK /\ Path!AmplificationLimited /\ Path!DestinationNotRetired
                     /\ Path!HonestPeerKept /\ Path!KeysInStep

\* QUIC admission: handshake slots and shares per client are those of the connections
\* that live, and GOAWAY reaches them all (admitQUICConn, remove, goAwayAll).
HubSound == part = "hub" => Hub!TypeOK /\ Hub!SlotsExact /\ Hub!SharesExact /\ Hub!GoAwayReachesAll

===============================================================================
