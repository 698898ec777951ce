----------------------------- MODULE QuicAdmission -----------------------------
(* The life of QUIC connections in the server: the address token, admission,       *)
(* routing by connection ID, the TLS handshake, the timer hub, going away and      *)
(* closing (src/core/quic_packet_handlers_linux_amd64.go, epoll_quic_linux_amd64.go, *)
(* quic_retry.go, quic_tls.go, quic_cid.go, quic_timer.go, quic_goaway.go).        *)
(*                                                                                *)
(* A listener goroutine creates a connection; its recvLoop, the timer goroutine,  *)
(* the goroutine that waits for its end and Shutdown act on it.  Cryptography is  *)
(* the choice between a message that is accepted and one that is not.             *)
EXTENDS Integers, FiniteSetsExt, SequencesExt

CONSTANTS
    Conns,      \* clients, each with one connection
    Slots,      \* quicHandshakingLimit
    PerIP,      \* MaxConnsPerIP; all clients have one address
    MaxConns,   \* MaxConns
    MaxIssued,  \* issuedLimit
    Inbound,    \* capacity of inbound
    Mixes       \* the kinds of event of a behaviour

VARIABLES
    conn,   \* each connection: see Blank
    srv,    \* the server's counters
    hub,    \* quicTimers
    stop    \* where Shutdown is

vars == <<conn, srv, hub, stop>>

\* at: where its creation is; token: what the client has; inbound: what recvLoop will
\* take, pending: signals whose goroutine waits for room; recv: what recvLoop is in the
\* middle of; stage: the TLS stage; counted: handshakeCounted; route: its keys in connMap;
\* watch: where the goroutine that waits for done is; leave: the caller of close that has
\* still to take it out of the hub.
Blank == [at |-> "none", token |-> "none", inbound |-> <<>>, pending |-> 0, recv |-> "idle", stage |-> "hello",
          counted |-> FALSE, route |-> {}, issued |-> {}, seq |-> 1, h3 |-> FALSE, draining |-> FALSE,
          closed |-> FALSE, leave |-> FALSE, watch |-> "none"]

Init ==
    /\ conn = [c \in Conns |-> Blank]
    /\ \E mix \in Mixes : srv = [mix |-> mix, slots |-> 0, ip |-> 0, tracked |-> 0, shutting |-> FALSE]
    /\ hub = [conns |-> {}, going |-> FALSE, run |-> "none", tick |-> {}]
    /\ stop = [at |-> "none", todo |-> {}]

May(event) == event \in srv.mix
Set(c, r) == conn' = [conn EXCEPT ![c] = r]

\* The types; no counter is negative.
TypeOK ==
    /\ \A c \in Conns :
          /\ conn[c].at \in {"none", "slot", "undo", "track", "unslot", "unip", "store", "add", "late", "watch", "deliver", "live", "refused"}
          /\ conn[c].recv \in {"idle", "issue", "h3"} /\ conn[c].watch \in {"none", "wait", "routes", "issued", "done"}
          /\ Len(conn[c].inbound) <= Inbound /\ conn[c].stage \in {"hello", "finished", "done"}
    /\ srv.slots \in Nat /\ srv.ip \in Nat /\ srv.tracked \in Nat
    /\ hub.conns \subseteq Conns /\ hub.run \in {"none", "running", "stopped"}

--------------------------------------------------------------------------------
(* A listener: an Initial packet of an unknown connection.                        *)

\* admitInitial: no token of use, a Retry; a Retry token that is not of use, a close.
AdmitInitial(c) ==
    /\ conn[c].at = "none" /\ hub.run # "stopped"
    /\ \/ conn[c].token = "none" /\ Set(c, [conn[c] EXCEPT !.token = "retry"]) /\ UNCHANGED srv
       \/ conn[c].token = "retry" /\ May("stale") /\ Set(c, [conn[c] EXCEPT !.at = "refused"]) /\ UNCHANGED srv
       \* admitQUICConn: the share of the address.
       \/ /\ conn[c].token = "retry"
          /\ IF srv.ip < PerIP
             THEN Set(c, [conn[c] EXCEPT !.at = "slot"]) /\ srv' = [srv EXCEPT !.ip = @ + 1]
             ELSE Set(c, [conn[c] EXCEPT !.at = "refused"]) /\ UNCHANGED srv
    /\ UNCHANGED <<hub, stop>>

\* Mutant: the slot taken above the limit is not given back.
SlotKept(c) ==
    /\ conn[c].at = "slot"
    /\ srv' = [srv EXCEPT !.slots = @ + 1]
    /\ Set(c, [conn[c] EXCEPT !.at = IF srv.slots + 1 > Slots THEN "unip" ELSE "track"])
    /\ UNCHANGED <<hub, stop>>

\* tryAcquireQUICHandshakeSlot: Add, then the Add that takes it back.
Slot(c) ==
    /\ conn[c].at = "slot"
    /\ srv' = [srv EXCEPT !.slots = @ + 1]
    /\ Set(c, [conn[c] EXCEPT !.at = IF srv.slots + 1 > Slots THEN "undo" ELSE "track"])
    /\ UNCHANGED <<hub, stop>>

\* tryTrackConn; what was taken is given back in reverse.
Track(c) ==
    /\ conn[c].at = "track"
    /\ IF srv.shutting \/ srv.tracked >= MaxConns
       THEN Set(c, [conn[c] EXCEPT !.at = "unslot"]) /\ UNCHANGED srv
       ELSE Set(c, [conn[c] EXCEPT !.at = "store", !.counted = TRUE]) /\ srv' = [srv EXCEPT !.tracked = @ + 1]
    /\ UNCHANGED <<hub, stop>>

\* Mutant: with no slot, the share of the address is kept.
UndoSlotOnly(c) ==
    /\ conn[c].at \in {"undo", "unslot"} /\ srv' = [srv EXCEPT !.slots = @ - 1]
    /\ Set(c, [conn[c] EXCEPT !.at = "refused"])
    /\ UNCHANGED <<hub, stop>>

Undo(c) ==
    /\ \/ conn[c].at \in {"undo", "unslot"} /\ srv' = [srv EXCEPT !.slots = @ - 1]
          /\ Set(c, [conn[c] EXCEPT !.at = "unip"])
       \/ conn[c].at = "unip" /\ srv' = [srv EXCEPT !.ip = @ - 1]
          /\ Set(c, [conn[c] EXCEPT !.at = "refused"])
    /\ UNCHANGED <<hub, stop>>

\* createQUICConnIOUring: the routes, and recvLoop.
Store(c) ==
    /\ conn[c].at = "store"
    /\ Set(c, [conn[c] EXCEPT !.at = "add", !.route = {-1, 0}])
    /\ UNCHANGED <<srv, hub, stop>>

\* Mutant: a connection that comes after goAwayAll is not told.
AddUntold(c) ==
    /\ conn[c].at = "add"
    /\ hub' = [hub EXCEPT !.conns = @ \cup {c}, !.run = IF @ = "none" THEN "running" ELSE @]
    /\ Set(c, [conn[c] EXCEPT !.at = "watch"])
    /\ UNCHANGED <<srv, stop>>

\* quicTimerHub.add, with the goroutine it starts.
Add(c) ==
    /\ conn[c].at = "add"
    /\ hub' = [hub EXCEPT !.conns = @ \cup {c}, !.run = IF @ = "none" THEN "running" ELSE @]
    /\ Set(c, [conn[c] EXCEPT !.at = IF hub.going THEN "late" ELSE "watch"])
    /\ UNCHANGED <<srv, stop>>

\* signalGoAway: put in inbound, or in a goroutine's hands until there is room.
Signal(r) == IF Len(r.inbound) < Inbound THEN [r EXCEPT !.inbound = Append(@, "goaway")] ELSE [r EXCEPT !.pending = @ + 1]

\* The signal of a late connection; the goroutine that waits for done; then the packet.
Finish(c) ==
    /\ \/ conn[c].at = "late" /\ Set(c, [Signal(conn[c]) EXCEPT !.at = "watch"])
       \/ conn[c].at = "watch" /\ Set(c, [conn[c] EXCEPT !.at = "deliver", !.watch = "wait"])
       \/ conn[c].at = "deliver" /\ Set(c, [conn[c] EXCEPT !.at = "live",
              !.inbound = IF conn[c].closed \/ Len(@) = Inbound THEN @ ELSE Append(@, "crypto")])
    /\ UNCHANGED <<srv, hub, stop>>

\* handlePacketFromPooled: a packet of a connection that is routed; dropped when full.
Packet(c) ==
    /\ conn[c].at = "live" /\ conn[c].route # {} /\ ~conn[c].closed /\ Len(conn[c].inbound) < Inbound
    /\ \E p \in {"crypto", "bad", "retire"} :
          /\ p # "crypto" => May(p)
          /\ p = "retire" => conn[c].stage = "done"
          /\ p = "crypto" => conn[c].stage # "done"
          /\ Set(c, [conn[c] EXCEPT !.inbound = Append(@, p)])
    /\ UNCHANGED <<srv, hub, stop>>

--------------------------------------------------------------------------------
(* close, and the goroutine that waits for it.                                    *)

\* close: the CAS and close(done); the hub is left by Leave.
Closing(r) == IF r.closed THEN r ELSE [r EXCEPT !.closed = TRUE, !.leave = TRUE]

Leave(c) ==
    /\ conn[c].leave
    /\ hub' = [hub EXCEPT !.conns = @ \ {c}]
    /\ Set(c, [conn[c] EXCEPT !.leave = FALSE])
    /\ UNCHANGED <<srv, stop>>

\* Mutant: the slot is given back whether or not it still is the connection's.
ClearAlways(c) == [conn |-> [conn[c] EXCEPT !.counted = FALSE], slots |-> Max({srv.slots - 1, 0})]

\* clearHandshaking.
ClearHandshaking(c) ==
    [conn |-> [conn[c] EXCEPT !.counted = FALSE], slots |-> IF conn[c].counted THEN srv.slots - 1 ELSE srv.slots]

\* The end: what admission took; the two routes; then the issued ones.
Watch(c) ==
    /\ conn[c].closed
    /\ LET k == ClearHandshaking(c)
       IN  \/ /\ conn[c].watch = "wait"
              /\ srv' = [srv EXCEPT !.slots = k.slots, !.tracked = @ - 1, !.ip = @ - 1]
              /\ Set(c, [k.conn EXCEPT !.watch = "routes"])
           \/ /\ conn[c].watch = "routes"
              /\ Set(c, [conn[c] EXCEPT !.watch = "issued", !.route = @ \ {-1, 0}])
              /\ UNCHANGED srv
           \/ /\ conn[c].watch = "issued"
              /\ Set(c, [conn[c] EXCEPT !.watch = "done", !.route = @ \ conn[c].issued, !.issued = {}])
              /\ UNCHANGED srv
    /\ UNCHANGED <<hub, stop>>

--------------------------------------------------------------------------------
(* recvLoop.                                                                      *)

\* issueConnectionIDs, and the replacement in handleRetireConnID, under cidMu.
Issue(r) ==
    LET first == IF r.issued = {} THEN {0} ELSE r.issued
        new == r.seq..(r.seq + MaxIssued - Cardinality(first) - 1)
    IN  [r EXCEPT !.issued = first \cup new, !.route = @ \cup new, !.seq = @ + Cardinality(new)]

\* handleRetireConnID: an ID that is not the one the packet came with.
Retire(r) ==
    LET old == Min(r.issued)
    IN  IF Cardinality(r.issued) < 2 \/ r.seq > MaxIssued + 1 THEN r
        ELSE Issue([r EXCEPT !.issued = @ \ {old}, !.route = @ \ {old}])

\* beginGoAway.
BeginGoAway(r) == IF r.closed THEN r ELSE IF r.h3 THEN [r EXCEPT !.draining = TRUE] ELSE Closing(r)

\* handleCryptoData: ClientHello, or Finished; an alert for one that is not accepted.
Crypto(c, r) ==
    \/ May("bad") /\ Set(c, Closing(r)) /\ UNCHANGED srv
    \/ r.stage = "hello" /\ Set(c, [r EXCEPT !.stage = "finished"]) /\ UNCHANGED srv
    \* completeHandshake, up to issueConnectionIDs.
    \/ /\ r.stage = "finished"
       /\ Set(c, [r EXCEPT !.counted = FALSE, !.stage = "done", !.recv = "issue"])
       /\ srv' = [srv EXCEPT !.slots = ClearHandshaking(c).slots]

Take(c) ==
    /\ conn[c].recv = "idle" /\ conn[c].route # {} /\ conn[c].at \notin {"none", "store"}
    /\ conn[c].inbound # <<>>
    /\ LET r == [conn[c] EXCEPT !.inbound = Tail(@)]
       IN  \/ Head(conn[c].inbound) = "goaway" /\ Set(c, BeginGoAway(r)) /\ UNCHANGED srv
           \/ Head(conn[c].inbound) = "bad" /\ Set(c, Closing(r)) /\ UNCHANGED srv
           \/ Head(conn[c].inbound) = "retire" /\ Set(c, Retire(r)) /\ UNCHANGED srv
           \/ Head(conn[c].inbound) = "crypto" /\ ~r.closed /\ r.stage # "done" /\ Crypto(c, r)
           \/ Head(conn[c].inbound) = "crypto" /\ (r.closed \/ r.stage = "done") /\ Set(c, r) /\ UNCHANGED srv
    /\ UNCHANGED <<hub, stop>>

\* issueConnectionIDs, then newH3Conn.
Complete(c) ==
    /\ \/ conn[c].recv = "issue" /\ Set(c, [Issue(conn[c]) EXCEPT !.recv = "h3"])
       \/ conn[c].recv = "h3" /\ Set(c, [conn[c] EXCEPT !.recv = "idle", !.h3 = TRUE])
    /\ UNCHANGED <<srv, hub, stop>>

\* recvLoop ends when done is closed; the goroutine of a signal ends with it.
Room(c) ==
    /\ conn[c].pending > 0
    /\ \/ Len(conn[c].inbound) < Inbound /\ ~conn[c].closed
          /\ Set(c, [conn[c] EXCEPT !.pending = @ - 1, !.inbound = Append(@, "goaway")])
       \/ conn[c].closed /\ Set(c, [conn[c] EXCEPT !.pending = 0])
    /\ UNCHANGED <<srv, hub, stop>>

--------------------------------------------------------------------------------
(* The timer hub and Shutdown.                                                    *)

\* tick: a handshake that takes too long; a connection that went away and has no request.
Tick(c) ==
    /\ c \in hub.tick
    /\ hub' = [hub EXCEPT !.tick = @ \ {c}]
    /\ \/ conn[c].stage # "done" /\ May("expire") /\ Set(c, Closing(conn[c]))
       \/ conn[c].draining /\ Set(c, Closing(conn[c]))
       \/ ~conn[c].draining /\ UNCHANGED conn
    /\ UNCHANGED <<srv, stop>>

\* A turn of run: the snapshot, or the end once Shutdown began and no connection is left.
Turn ==
    /\ hub.run = "running" /\ hub.tick = {}
    /\ hub' = IF srv.shutting /\ hub.conns = {} THEN [hub EXCEPT !.run = "stopped"] ELSE [hub EXCEPT !.tick = @ \cup hub.conns]
    /\ hub' # hub
    /\ UNCHANGED <<conn, srv, stop>>

\* Shutdown: shuttingDown and done; goAwayAll's snapshot; each connection told; the
\* timeout's closeAll; each connection closed.
Shutdown ==
    /\ May("shutdown")
    /\ \/ /\ stop.at = "none" /\ stop' = [stop EXCEPT !.at = "snapshot"]
          /\ srv' = [srv EXCEPT !.shutting = TRUE] /\ UNCHANGED <<conn, hub>>
       \/ /\ stop.at = "snapshot" /\ stop' = [at |-> "tell", todo |-> hub.conns]
          /\ hub' = [hub EXCEPT !.going = TRUE] /\ UNCHANGED <<conn, srv>>
       \/ /\ stop.at = "tell" /\ stop.todo = {} /\ stop' = [stop EXCEPT !.at = "wait"] /\ UNCHANGED <<conn, srv, hub>>
       \/ /\ stop.at \in {"tell", "close"}
          /\ \E c \in stop.todo :
                /\ stop' = [stop EXCEPT !.todo = @ \ {c}]
                /\ Set(c, IF stop.at = "tell" THEN Signal(conn[c]) ELSE Closing(conn[c]))
          /\ UNCHANGED <<srv, hub>>
       \/ /\ stop.at = "wait" /\ srv.tracked > 0 /\ May("timeout")
          /\ stop' = [at |-> "close", todo |-> hub.conns] /\ UNCHANGED <<conn, srv, hub>>

Next == \/ \E c \in Conns : AdmitInitial(c)
        \/ \E c \in Conns : Slot(c) \/ Track(c) \/ Undo(c) \/ Store(c) \/ Add(c) \/ Finish(c)
        \/ \E c \in Conns : Packet(c)
        \/ \E c \in Conns : Leave(c) \/ Watch(c) \/ Take(c) \/ Complete(c) \/ Room(c) \/ Tick(c)
        \/ Turn \/ Shutdown

Spec == Init /\ [][Next]_vars

--------------------------------------------------------------------------------
(* Properties.                                                                    *)

Count(P(_)) == Cardinality({c \in Conns : P(c)})

\* admitQUICConn, clearHandshaking: quicHandshakingConns counts the connections whose
\* handshake is not over, and those about to give their slot back; each gives it back
\* once, whether the handshake, the close or both end it.
SlotsExact == srv.slots = Count(LAMBDA c : conn[c].counted \/ conn[c].at \in {"undo", "unslot", "track"})

\* admitQUICConn, the end of a connection: the shares of the address and of MaxConns are
\* held by connections being admitted or not yet at their end.
SharesExact ==
    /\ srv.tracked = Count(LAMBDA c : conn[c].at \in {"store", "add", "late", "watch", "deliver", "live"} /\ conn[c].watch \in {"none", "wait"})
    /\ srv.ip = Count(LAMBDA c : conn[c].at \notin {"none", "refused"} /\ conn[c].watch \in {"none", "wait"})

\* goAwayAll and add: once Shutdown has told the connections, each one that is open was
\* told, has its signal on the way, or is about to be told by its creator.
GoAwayReachesAll ==
    (stop.at \in {"wait", "close"}) =>
        \A c \in hub.conns :
            \/ conn[c].closed \/ conn[c].draining \/ conn[c].pending > 0
            \/ "goaway" \in ToSet(conn[c].inbound) \/ conn[c].at = "late"

\* A connection that has ended is not found by any of its connection IDs.
NoRouteToEnded == \A c \in Conns : conn[c].watch = "done" => conn[c].route = {}

\* goAwayAll, beginGoAway, tick: after Shutdown every connection has ended and the hub's
\* goroutine has stopped, so that the listeners' sockets are closed.
ShutdownEnded == srv.shutting => srv.tracked = 0 /\ hub.run \in {"none", "stopped"}

================================================================================
