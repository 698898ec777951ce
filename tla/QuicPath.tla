-------------------------------- MODULE QuicPath -------------------------------
(* Where a QUIC connection sends: migration to a new address of the peer, its      *)
(* validation, the limit on what an address not validated is sent, the peer's      *)
(* connection IDs, and the keys' phases (src/core/quic_path.go, quic_cid.go,       *)
(* quic_conn.go).                                                                  *)
(*                                                                                *)
(* recvLoop and the timer goroutine share the state: pathMu guards the path and   *)
(* the probe, writeMu what packets are sent with.  Every locked section is a step. *)
(* Datagrams have size 1.                                                          *)
EXTENDS Integers, FiniteSetsExt, SequencesExt

CONSTANTS
    Addrs,          \* addresses of the peer; 1 is the one of the handshake
    Factor,         \* quicAmplificationFactor
    MaxChallenges,  \* quicMaxPathChallenges
    ActiveLimit,    \* quicLocalActiveCIDLimit
    MaxSeq,         \* bound: connection IDs the peer issues
    MaxPackets,     \* bound: packets the peer sends
    MaxSends,       \* bound: packets the connection sends
    MaxPhase,       \* bound: key updates of either side
    Mixes           \* the kinds of event of a behaviour

VARIABLES
    path,   \* pathAddr, lastValidAddr, the probe
    out,    \* what packets are sent with: remoteAddr, addressValidated, the counters
    cid,    \* peerCIDs, dstCIDSeq, peerRetirePT
    keys,   \* recvKeyPhase and the keys held, sendKeyPhase, as counts of updates
    at,     \* what recvLoop and the timer goroutine are in the middle of
    peer    \* what the peer knows, and what each of its addresses got and was sent

vars == <<path, out, cid, keys, at, peer>>

May(event) == event \in peer.mix

\* initPath; the state after the handshake.
Init ==
    /\ path = [addr |-> 1, valid |-> 1, probing |-> FALSE, probe |-> 1, sent |-> 0]
    /\ out = [addr |-> 1, validated |-> TRUE, sent |-> 0, received |-> 0]
    /\ cid = [known |-> {0}, dst |-> 0, prior |-> 0]
    /\ keys = [recv |-> 0, prev |-> FALSE, send |-> 0, own |-> 0]
    /\ at = [recv |-> <<"idle">>, timer |-> <<"idle">>, closed |-> "no"]
    /\ \E mix \in Mixes :
          peer = [mix |-> mix, addr |-> 1, packets |-> 0, sends |-> 0, challenged |-> {}, proved |-> {1},
                  got |-> [a \in Addrs |-> 0], given |-> [a \in Addrs |-> 0], seq |-> 0, retired |-> {}, used |-> {},
                  phase |-> 0, acked |-> 0, overtaken |-> FALSE]

Steps == {"idle", "frames", "switch", "fresh", "retire", "probe", "challenge", "validate", "revert"}

\* The types; the counters never wrap.
TypeOK ==
    /\ path.addr \in Addrs /\ path.valid \in Addrs /\ out.addr \in Addrs
    /\ out.sent \in Nat /\ out.received \in Nat
    /\ cid.dst \in 0..MaxSeq /\ cid.known \subseteq 0..MaxSeq
    /\ at.recv[1] \in Steps /\ at.timer[1] \in Steps /\ at.closed \in {"no", "error", "closed"}

--------------------------------------------------------------------------------
(* Sending.                                                                       *)

\* Mutant: the limit is compared before the packet is counted.
BlockedLate(o) == ~o.validated /\ o.sent > Factor * o.received

\* sendFramesToLocked: over the limit, the packet is not sent.
Blocked(o) == ~o.validated /\ o.sent + 1 > Factor * o.received

\* A packet to the current address; what is in it reaches the peer there.
Given(challenge) ==
    IF Blocked(out) THEN UNCHANGED <<out, peer>>
    ELSE /\ out' = [out EXCEPT !.sent = IF out.validated THEN @ ELSE @ + 1]
         /\ peer' = [peer EXCEPT !.given[out.addr] = IF out.addr \in peer.proved THEN @ ELSE @ + 1,
                                 !.used = @ \cup {cid.dst}, !.sends = @ + 1,
                                 !.challenged = IF challenge THEN @ \cup {<<out.addr, path.probe>>} ELSE @]

\* Any other packet of the connection, sent by a handler.
Send ==
    /\ at.closed = "no" /\ peer.sends < MaxSends /\ May("send")
    /\ Given(FALSE)
    /\ UNCHANGED <<path, cid, keys, at>>

--------------------------------------------------------------------------------
(* recvLoop: a packet, its frames, then the path it came on.                      *)

Idle == at.recv[1] = "idle" /\ at.closed = "no" /\ peer.packets < MaxPackets
Recv(step) == at' = [at EXCEPT !.recv = step]
Fail == at' = [at EXCEPT !.closed = "error", !.recv = <<"idle">>]

\* notePacketSource, and observeNewPath after the frames: the newest packet, unless it
\* only probes, moves the path to the address it came from.
Came(a) ==
    /\ out' = IF ~out.validated /\ a = path.addr THEN [out EXCEPT !.received = @ + 1] ELSE out
    /\ peer' = [peer EXCEPT !.got[a] = IF a \in peer.proved THEN @ ELSE @ + 1, !.packets = @ + 1,
                            !.overtaken = @ \/ at.timer[1] = "revert"]

Moves(a, newest) == IF newest /\ a # path.addr THEN <<"switch", a, a = path.valid>> ELSE <<"idle">>

\* migrateTo, under pathMu.
RecvPacket(a, newest) ==
    /\ Idle /\ Came(a)
    /\ Recv(Moves(a, newest))
    /\ path' = IF newest THEN [path EXCEPT !.addr = a] ELSE path
    /\ UNCHANGED <<cid, keys>>

\* The peer moves, or sends from where it is; an older packet arrives late.
FromPeer ==
    /\ May("move")
    /\ \E a \in Addrs : RecvPacket(a, TRUE) \/ (a # path.addr /\ RecvPacket(a, FALSE))

\* Mutant: what the old address was sent stays counted against what the new one sent.
SwitchKeepsCounters ==
    /\ at.recv[1] = "switch"
    /\ out' = [out EXCEPT !.addr = at.recv[2], !.validated = at.recv[3], !.received = out.received + 1]
    /\ path' = IF at.recv[3] THEN [path EXCEPT !.probing = FALSE] ELSE path
    /\ Recv(IF at.recv[3] THEN <<"idle">> ELSE <<"fresh", at.recv[2]>>)
    /\ UNCHANGED <<cid, keys, peer>>

\* migrateTo, under writeMu; a return to a valid address ends the probe.
Switch ==
    /\ at.recv[1] = "switch"
    /\ out' = IF at.recv[3] THEN [out EXCEPT !.addr = at.recv[2], !.validated = TRUE]
              ELSE [addr |-> at.recv[2], validated |-> FALSE, sent |-> 0, received |-> 1]
    /\ path' = IF at.recv[3] THEN [path EXCEPT !.probing = FALSE] ELSE path
    /\ Recv(IF at.recv[3] THEN <<"idle">> ELSE <<"fresh", at.recv[2]>>)
    /\ UNCHANGED <<cid, keys, peer>>

\* Mutant: RETIRE_CONNECTION_ID names the ID that is now used.
FreshPeerCIDRetiresNext ==
    /\ at.recv[1] = "fresh"
    /\ LET spare == cid.known \ {cid.dst}
       IN  IF spare = {} THEN Recv(<<"probe", at.recv[2]>>) /\ UNCHANGED <<cid, peer>>
           ELSE /\ cid' = [cid EXCEPT !.known = @ \ {cid.dst}, !.dst = Min(spare)]
                /\ peer' = [peer EXCEPT !.used = {}, !.retired = @ \cup {Min(spare)}]
                /\ Recv(<<"probe", at.recv[2]>>)
    /\ UNCHANGED <<path, out, keys>>

\* useFreshPeerCID: with a spare ID, the old one is no longer used, then retired.
FreshPeerCID ==
    /\ at.recv[1] = "fresh"
    /\ LET spare == cid.known \ {cid.dst}
       IN  IF spare = {} THEN Recv(<<"probe", at.recv[2]>>) /\ UNCHANGED <<cid, peer>>
           ELSE /\ cid' = [cid EXCEPT !.known = @ \ {cid.dst}, !.dst = Min(spare)]
                /\ peer' = [peer EXCEPT !.used = {}]
                /\ Recv(<<"retire", cid.dst, at.recv[2]>>)
    /\ UNCHANGED <<path, out, keys>>

\* The RETIRE_CONNECTION_ID of useFreshPeerCID.
RetireOld ==
    /\ at.recv[1] = "retire"
    /\ peer' = [peer EXCEPT !.retired = @ \cup {at.recv[2]}]
    /\ Recv(<<"probe", at.recv[3]>>)
    /\ UNCHANGED <<path, out, cid, keys>>

\* startPathProbe, and the first section of sendPathChallenge.
StartProbe ==
    /\ at.recv[1] = "probe"
    /\ path' = [path EXCEPT !.probing = TRUE, !.probe = at.recv[2], !.sent = 1]
    /\ peer' = [peer EXCEPT !.challenged = {}]
    /\ Recv(<<"challenge">>)
    /\ UNCHANGED <<out, cid, keys>>

\* The second section of sendPathChallenge, of either goroutine.
SendChallenge ==
    /\ \/ at.recv[1] = "challenge" /\ Recv(<<"idle">>)
       \/ at.timer[1] = "challenge" /\ at' = [at EXCEPT !.timer = <<"idle">>]
    /\ Given(TRUE)
    /\ UNCHANGED <<path, cid, keys>>

\* Mutant: any PATH_RESPONSE validates the path.
PathResponseUnmatched ==
    /\ Idle /\ May("move")
    /\ path.probing
    /\ path' = [path EXCEPT !.probing = FALSE, !.valid = path.probe]
    /\ Recv(IF path.addr = path.probe THEN <<"validate">> ELSE <<"idle">>)
    /\ UNCHANGED <<out, cid, keys, peer>>

\* handlePathResponse, under pathMu: the peer answers a challenge, from wherever it got
\* it, and the path that was probed is valid.
PathResponse ==
    /\ Idle /\ May("move")
    /\ path.probing
    /\ \E c \in peer.challenged :
          /\ c[2] = path.probe
          /\ path' = [path EXCEPT !.probing = FALSE, !.valid = path.probe]
          /\ peer' = [peer EXCEPT !.proved = @ \cup {c[1]}, !.packets = @ + 1, !.overtaken = @ \/ at.timer[1] = "revert",
                                  !.got[c[1]] = 0, !.given[c[1]] = 0]
          /\ Recv(IF path.addr = path.probe THEN <<"validate">> ELSE <<"idle">>)
    /\ UNCHANGED <<out, cid, keys>>

\* handlePathResponse, under writeMu.
Validate ==
    /\ at.recv[1] = "validate"
    /\ out' = [out EXCEPT !.validated = TRUE]
    /\ Recv(<<"idle">>)
    /\ UNCHANGED <<path, cid, keys, peer>>

--------------------------------------------------------------------------------
(* The timer goroutine: checkPathProbe.                                           *)

TimerIdle == at.timer[1] = "idle" /\ at.closed = "no" /\ path.probing

\* The probe expired: back to the last valid address, if that is still of use.
ProbeExpires ==
    /\ TimerIdle
    /\ path' = [path EXCEPT !.probing = FALSE, !.addr = IF path.addr = path.probe THEN path.valid ELSE @]
    /\ at' = IF path.addr # path.probe THEN at
             ELSE IF path.valid # path.probe THEN [at EXCEPT !.timer = <<"revert", path.valid>>]
             ELSE [at EXCEPT !.closed = "closed"]
    /\ UNCHANGED <<out, cid, keys, peer>>

Revert ==
    /\ at.timer[1] = "revert"
    /\ out' = [out EXCEPT !.addr = at.timer[2], !.validated = TRUE]
    /\ at' = [at EXCEPT !.timer = <<"idle">>]
    /\ UNCHANGED <<path, cid, keys, peer>>

\* No answer for a PTO: another challenge.
ChallengeAgain ==
    /\ TimerIdle /\ path.sent < MaxChallenges
    /\ path' = [path EXCEPT !.sent = @ + 1]
    /\ at' = [at EXCEPT !.timer = <<"challenge">>]
    /\ UNCHANGED <<out, cid, keys, peer>>

--------------------------------------------------------------------------------
(* The peer's connection IDs: handlePeerNewConnID.                                *)

\* Mutant: the IDs before the first to be kept are only reported.
KeptAll(seq, prior) == cid.known \cup {seq}

\* The IDs from the first to be kept on.
Kept(seq, prior) == {s \in cid.known \cup {seq} : s >= prior}

\* Mutant: the ID in use is switched only when it is the one before the first kept.
StaleDst(prior) == cid.dst = prior - 2

\* The ID in use is retired.
Stale(prior) == cid.dst < prior

NewConnID(seq, prior) ==
    /\ Idle
    /\ UNCHANGED <<path, out, keys>>
    /\ IF seq < cid.prior
       THEN peer' = [peer EXCEPT !.retired = @ \cup {seq}, !.seq = Max({@, seq}), !.packets = @ + 1] /\ UNCHANGED <<cid, at>>
       ELSE IF seq \in cid.known
       THEN peer' = [peer EXCEPT !.packets = @ + 1] /\ UNCHANGED <<cid, at>>
       ELSE LET p == Max({prior, cid.prior})
                kept == Kept(seq, p)
            IN  /\ cid' = [known |-> kept, prior |-> p, dst |-> 
                               IF prior > cid.prior /\ Stale(prior) /\ Cardinality(kept) <= ActiveLimit THEN Min(kept) ELSE cid.dst]
                /\ IF Cardinality(kept) > ActiveLimit THEN Fail ELSE UNCHANGED at
                /\ peer' = [peer EXCEPT !.seq = Max({@, seq}), !.packets = @ + 1,
                              !.used = IF cid'.dst = cid.dst THEN @ ELSE {},
                              !.retired = IF Cardinality(kept) > ActiveLimit THEN @ ELSE @ \cup (cid.known \ kept)]

\* A peer that keeps to the limit issues the next ID, once enough of the others are
\* retired or are now to be; or it repeats one, which may arrive late.
PeerIssues ==
    /\ May("cid")
    /\ \/ \E prior \in {0, peer.seq, peer.seq + 1} :
             /\ peer.seq < MaxSeq
             /\ Cardinality({s \in 0..(peer.seq + 1) : s \notin peer.retired /\ s >= prior}) <= ActiveLimit
             /\ NewConnID(peer.seq + 1, prior)
       \/ \E seq \in 1..peer.seq : (seq \notin peer.retired \/ May("late")) /\ NewConnID(seq, 0)

--------------------------------------------------------------------------------
(* Key updates.                                                                   *)

\* selectRecvKeys and commitPeerKeyUpdate, of a packet with the phase bit of update k:
\* the current keys, the previous ones for older packets, the next ones for newer.
Selects(k, newest) ==
    IF k % 2 = keys.recv % 2 THEN keys.recv
    ELSE IF ~newest THEN (IF keys.prev THEN keys.recv - 1 ELSE -1)
    ELSE keys.recv + 1

\* Mutant: the send keys are updated with every update of the peer.
RespondAlways(k) == keys.send + 1

\* respondToPeerKeyUpdate.
Respond(k) == IF keys.send % 2 = k % 2 THEN keys.send ELSE keys.send + 1

\* A packet of the peer under the keys of its update k; it must decrypt.
RecvKeyed(k, newest) ==
    /\ Idle /\ May("keys")
    /\ k = peer.phase \/ (~newest /\ k = peer.phase - 1)
    /\ LET selected == Selects(k, newest)
       IN  keys' = IF selected = k /\ k = keys.recv + 1
                   THEN [keys EXCEPT !.recv = k, !.prev = TRUE, !.send = Respond(k)] ELSE keys
    /\ peer' = [peer EXCEPT !.packets = @ + 1, !.acked = keys'.recv]
    /\ UNCHANGED <<path, out, cid, at>>

\* prevKeyRetire.
RetirePrevKeys ==
    /\ keys.prev /\ May("keys")
    /\ keys' = [keys EXCEPT !.prev = FALSE]
    /\ UNCHANGED <<path, out, cid, at, peer>>

\* initiateKeyUpdate, after quicKeyUpdateThreshold packets: far more than are ever in
\* flight, so the peer followed the last update.
InitiateKeyUpdate ==
    /\ May("keys") /\ keys.send < MaxPhase /\ at.closed = "no"
    /\ keys.send = keys.recv
    /\ keys' = [keys EXCEPT !.send = @ + 1, !.own = keys.send + 1]
    /\ UNCHANGED <<path, out, cid, at, peer>>

\* The peer updates its keys, once its last update is confirmed, or as an answer.
PeerUpdates ==
    /\ May("keys") /\ peer.phase < MaxPhase
    /\ \/ peer.acked = peer.phase
       \/ keys.send = peer.phase + 1
    /\ peer' = [peer EXCEPT !.phase = @ + 1]
    /\ UNCHANGED <<path, out, cid, keys, at>>

Next ==
    \/ Send \/ FromPeer \/ Switch \/ FreshPeerCID \/ RetireOld \/ StartProbe \/ SendChallenge
    \/ PathResponse \/ Validate
    \/ ProbeExpires \/ Revert \/ ChallengeAgain
    \/ PeerIssues
    \/ \E k \in 0..MaxPhase : \E newest \in BOOLEAN : RecvKeyed(k, newest)
    \/ RetirePrevKeys \/ InitiateKeyUpdate \/ PeerUpdates

Spec == Init /\ [][Next]_vars

--------------------------------------------------------------------------------
(* Properties.                                                                    *)

\* sendFramesToLocked, migrateTo: an address that never answered a challenge is sent at
\* most three times what came from it, however the peer moves, as long as no packet came
\* between the two sections in which checkPathProbe reverts an expired probe.
AmplificationLimited == ~peer.overtaken => \A a \in Addrs \ peer.proved : peer.given[a] <= Factor * peer.got[a]

\* migrateTo, checkPathProbe: packets go to the address the path is at.
PathsAgree ==
    (at.recv[1] = "idle" /\ at.timer[1] = "idle" /\ at.closed = "no") => out.addr = path.addr

\* useFreshPeerCID, handlePeerNewConnID: no packet carries an ID that was retired.
DestinationNotRetired == peer.used \cap peer.retired = {}

\* handlePeerNewConnID: a peer that keeps to active_connection_id_limit is not closed for
\* passing it.
HonestPeerKept == at.closed # "error"

\* selectRecvKeys, commitPeerKeyUpdate, respondToPeerKeyUpdate: the two sides never differ
\* by more than one update, so that phase bits tell the keys, and an answer to the
\* connection's own update is not answered with another.
KeysInStep ==
    /\ keys.recv <= peer.phase /\ peer.phase <= keys.recv + 1
    /\ keys.send \in {keys.recv, keys.recv + 1}
    /\ keys.send > keys.recv => keys.own = keys.send
================================================================================
