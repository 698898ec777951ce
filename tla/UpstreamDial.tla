----------------------------- MODULE UpstreamDial ------------------------------
(* From an exchange to a dialled socket in the upstream client's loop: the name   *)
(* lookups that connections share, the attempts over servers and record types,    *)
(* the address cache with its stale and negative entries, and descriptors that    *)
(* are closed and opened again while a batch of epoll events is being dispatched  *)
(* (src/core/fp_dns.go, fp_conn.go, fp_beloop.go, fp_loop.go).                     *)
(*                                                                               *)
(* Every exchange opens a connection of its own, so a connection has the name of  *)
(* its exchange; pooled and HTTP/2 connections are the subject of other modules.  *)
EXTENDS Integers, Sequences, SequencesExt, FiniteSetsExt

CONSTANTS
    Exs,        \* the exchanges, and the connections they open
    Hosts,
    Servers,    \* how many name servers are configured
    Fds,        \* descriptors
    Mixes       \* what differs between behaviours: the host each exchange wants, the
                \* limit on connections, what the environment may do

VARIABLES
    s,          \* the loop: connections, lookups in flight, descriptors, the batch;
                \* and fpDNSCache, which all loops share
    mix

vars == <<s, mix>>

None == 0
May(event) == event \in mix.may
MaxConns == mix.max     \* fpMaxBackendConns
HostOf == mix.host

NewConn == [st |-> "new", fd |-> None, fresh |-> FALSE, server |-> 0, qtype |-> "A", waiters |-> <<>>, ok |-> FALSE]

Init ==
    /\ mix \in Mixes
    /\ s = [c |-> [e \in Exs |-> NewConn], inflight |-> [h \in Hosts |-> None], at |-> [f \in Fds |-> None],
            cache |-> [h \in Hosts |-> "none"], batch |-> {}, alive |-> {}, phase |-> "dispatch", live |-> 0]

Resolving(t, e) == t.c[e].st = "resolving"

--------------------------------------------------------------------------------
(* Descriptors.  A batch is the descriptors epoll_wait reported and that are not  *)
(* handled yet; alive are those whose socket is still the one that was reported.  *)

\* releaseSocket.  Its events in the batch stay.
ReleaseSocket(t, e) ==
    LET f == t.c[e].fd IN
    IF f = None THEN t
    ELSE [t EXCEPT !.at[f] = None, !.alive = @ \ {f}, !.c[e].fd = None]

\* Mutant: the connection keeps the stamp of its first socket.
AdoptUnstamped(t, e, f) == [t EXCEPT !.at[f] = e, !.c[e].fd = f]

\* adoptSocket: openedSeq is the batch being dispatched.
AdoptSocket(t, e, f) == [t EXCEPT !.at[f] = e, !.c[e].fd = f, !.c[e].fresh = TRUE]

\* The number the kernel gives a new socket.
Lowest(t) == Min({f \in Fds : t.at[f] = None})
HasFd(t) == \E f \in Fds : t.at[f] = None

\* finish of the exchange of a connection that closes or completes.
Over(t, e, ok) == [t EXCEPT !.c[e] = [NewConn EXCEPT !.st = "over", !.ok = ok], !.live = @ - 1]

--------------------------------------------------------------------------------
(* Lookups.  io says which servers can be sent to and whether a dial succeeds.   *)

\* dnsDetach: the waiters of a connection that is its host's querier.
Waiters(t, e) == IF t.inflight[HostOf[e]] = e THEN t.c[e].waiters ELSE <<>>
Detach(t, e) ==
    IF t.inflight[HostOf[e]] = e THEN [t EXCEPT !.inflight[HostOf[e]] = None, !.c[e].waiters = <<>>] ELSE t

\* closeConn of a connection that is no querier, or is detached.
CloseDetached(t, e) == Over(ReleaseSocket(t, e), e, FALSE)

\* dialBackend; its error closes the connection.
Dial(t, e, io) ==
    IF io.dial /\ HasFd(t) THEN AdoptSocket([t EXCEPT !.c[e].st = "connecting"], e, Lowest(t)) ELSE CloseDetached(t, e)

\* dnsResolved of one connection: it leaves the lookup before it dials.
DialResolved(t, e, io) ==
    Dial([ReleaseSocket(t, e) EXCEPT !.c[e].server = 0, !.c[e].qtype = "A"], e, io)

Each(Op(_, _), t, es) == FoldLeft(LAMBDA u, w : IF Resolving(u, w) THEN Op(u, w) ELSE u, t, es)

\* Mutant: only the querier dials.
ResolvedAlone(t, e, io) == DialResolved(Detach(t, e), e, io)

\* dnsResolved of a querier and of those that waited for it.
Resolved(t, e, io) ==
    Each(LAMBDA u, w : DialResolved(u, w, io), DialResolved(Detach(t, e), e, io), Waiters(t, e))

\* dnsFail.
Fail(t, e) == Each(CloseDetached, CloseDetached(Detach(t, e), e), Waiters(t, e))

\* sendDNSQuery: the new socket is opened before the old one is released.
SendQuery(t, e) == AdoptSocket(ReleaseSocket(t, e), e, Lowest(t))

\* dnsAttempt, up to giving up: the servers from q.server on are tried in turn.
Tried(t, e, io) ==
    LET usable == {n \in t.c[e].server .. (Servers - 1) : n \in io.up}
        next == IF usable = {} THEN Servers ELSE Min(usable)
        moved == [t EXCEPT !.c[e].server = next, !.c[e].qtype = IF next = t.c[e].server THEN @ ELSE "A"]
    IN  IF usable # {} /\ HasFd(t) THEN SendQuery(moved, e) ELSE [moved EXCEPT !.c[e].server = Servers]

\* dnsGiveUp: an address that expired serves once more; the absence of one is
\* remembered.
GiveUp(t, e, io) ==
    LET h == HostOf[e] IN
    IF t.cache[h] \in {"address", "expired"} THEN Resolved([t EXCEPT !.cache[h] = "address"], e, io)
    ELSE Fail([t EXCEPT !.cache[h] = "absent"], e)

\* dnsAttempt.
Attempt(t, e, io) ==
    LET u == Tried(t, e, io) IN IF u.c[e].server < Servers THEN u ELSE GiveUp(u, e, io)

\* Mutant: the waiters go with the querier they waited for.
AbandonAll(t, e, io) == Detach(t, e)

\* Mutant: the lookup starts over with the connection that takes it over.
AbandonRestarts(t, e, io) ==
    LET left == SelectSeq(Waiters(t, e), LAMBDA w : Resolving(t, w)) IN
    IF left = <<>> THEN Detach(t, e)
    ELSE Attempt([Detach(t, e) EXCEPT !.c[Head(left)].waiters = Tail(left), !.inflight[HostOf[e]] = Head(left)],
                 Head(left), io)

\* dnsAbandon: the first of the waiters still there takes the lookup over.
Abandon(t, e, io) ==
    LET left == SelectSeq(Waiters(t, e), LAMBDA w : Resolving(t, w)) IN
    IF left = <<>> THEN Detach(t, e)
    ELSE LET w == Head(left)
             u == [Detach(t, e) EXCEPT !.c[w].server = t.c[e].server, !.c[w].qtype = t.c[e].qtype,
                                       !.c[w].waiters = Tail(left), !.inflight[HostOf[e]] = w]
         IN  Attempt(u, w, io)

\* closeConn.
CloseConn(t, e, io) ==
    Over(Abandon(ReleaseSocket([t EXCEPT !.c[e].st = "closing"], e), e, io), e, FALSE)

\* dnsNext: the other record type of this server, or the next server.
Advance(t, e, noAddress) ==
    IF noAddress /\ t.c[e].qtype = "A" THEN [t EXCEPT !.c[e].qtype = "AAAA"]
    ELSE [t EXCEPT !.c[e].server = @ + 1, !.c[e].qtype = "A"]
DnsNext(t, e, noAddress, io) == Attempt(Advance(t, e, noAddress), e, io)

\* Mutant: a second querier for a host that has one.
ResolveAgain(t, e, io) ==
    Attempt([t EXCEPT !.c[e].st = "resolving", !.inflight[HostOf[e]] = e], e, io)

\* startResolve of a host the cache does not settle.
Resolve(t, e, io) ==
    LET q == t.inflight[HostOf[e]] IN
    IF q # None
    THEN [t EXCEPT !.c[e].st = "resolving", !.c[q].waiters = Append(@, e)]
    ELSE Attempt([t EXCEPT !.c[e].st = "resolving", !.inflight[HostOf[e]] = e], e, io)

--------------------------------------------------------------------------------
(* The loop.                                                                    *)

IOs == [up : IF May("unsendable") THEN SUBSET (0 .. (Servers - 1)) ELSE {0 .. (Servers - 1)},
        dial : IF May("undialable") THEN BOOLEAN ELSE {TRUE}]

Carried == {e \in Exs : s.c[e].st \in {"resolving", "connecting", "ready"}}
Become(t) == s' = t /\ UNCHANGED mix

\* newConn, up to the dial or the lookup.
Counted(t) == [t EXCEPT !.live = @ + 1]

\* The client's loop starts and aborts exchanges between batches; the server's
\* workers do while they handle the clients' events of a batch.
Between == s.phase = "dispatch" \/ (May("worker") /\ s.phase = "batch")

\* startExchange, newConn: the limit, the address the cache has or knows to be absent,
\* a lookup.
Start(e) ==
    /\ Between /\ s.c[e].st = "new"
    /\ \E io \in IOs : Become(
         IF s.live >= MaxConns THEN [s EXCEPT !.c[e].st = "over"]
         ELSE CASE s.cache[HostOf[e]] = "address" -> Dial(Counted(s), e, io)
                [] s.cache[HostOf[e]] = "absent" -> CloseDetached(Counted(s), e)
                [] OTHER -> Resolve(Counted(s), e, io))

\* abortExchange, abortProxyExchange.
Abort(e) ==
    /\ Between /\ May("abort") /\ e \in Carried
    /\ \E io \in IOs : Become(CloseConn(s, e, io))

\* l.seq++ and EpollWait: no socket is of the batch any more, and any of them may
\* have something to report.
Wait ==
    /\ s.phase = "dispatch"
    /\ \E fds \in SUBSET {f \in Fds : s.at[f] # None} :
         Become([s EXCEPT !.phase = "batch", !.batch = fds, !.alive = fds,
                          !.c = [e \in Exs |-> [s.c[e] EXCEPT !.fresh = FALSE]]])

\* The event is dropped.
Skips(f) == s.at[f] = None \/ s.c[s.at[f]].fresh

\* fpParseDNSResponse: what a datagram from the server can turn out to be.
Readings == {"unrelated", "answer", "no address", "failed"}

\* dnsReadable: unrelated datagrams are read over, the first of another kind counts;
\* an error of the socket counts as a failure.
DnsReadable(t, e, reading, io) ==
    CASE reading = "unrelated" -> t
      [] reading = "answer" -> Resolved([t EXCEPT !.cache[HostOf[e]] = "address"], e, io)
      [] OTHER -> DnsNext(t, e, reading = "no address", io)

\* One event of the batch.
Handle(f) ==
    /\ s.phase = "batch" /\ f \in s.batch
    /\ LET t == [s EXCEPT !.batch = @ \ {f}, !.alive = @ \ {f}]
           e == s.at[f]
       IN  IF Skips(f) THEN Become(t)
           ELSE \E io \in IOs :
                  \/ May("error") /\ Become(CloseConn(t, e, io))
                  \/ s.c[e].st = "resolving" /\ \E r \in Readings : Become(DnsReadable(t, e, r, io))
                  \/ s.c[e].st = "connecting" /\ Become([t EXCEPT !.c[e].st = "ready"])
                  \/ s.c[e].st = "ready" /\ Become(Over(ReleaseSocket(t, e), e, TRUE))

\* sweepConn: those that wait for this connection, then its exchange, then its query.
SweepConn(t, f, late, slow, io) ==
    LET e == t.at[f]
        u == Each(LAMBDA v, w : IF w \in late THEN CloseDetached(v, w) ELSE v, t, Waiters(t, e))
    IN  IF e = None THEN t
        ELSE IF e \in late THEN CloseConn(u, e, io)
        ELSE IF e \in slow /\ Resolving(u, e) THEN DnsNext(u, e, FALSE, io) ELSE u

\* maybeSweep: late are the exchanges past their deadline, slow the queries past theirs.
Sweep(late, slow) ==
    /\ s.phase = "batch" /\ s.batch = {}
    /\ \E io \in IOs :
         Become(FoldLeft(LAMBDA t, f : SweepConn(t, f, late, slow, io), [s EXCEPT !.phase = "dispatch"],
                         SetToSortSeq(Fds, <)))

Queriers == {e \in Exs : Resolving(s, e) /\ s.inflight[HostOf[e]] = e}
SweepSome == \E late \in SUBSET (IF May("late") THEN Carried ELSE {}), slow \in SUBSET Queriers : Sweep(late, slow)

\* closeAll: the lookups fail with all that wait, then every socket is closed.
CloseAll ==
    /\ May("quit") /\ s.phase = "dispatch"
    /\ LET hosts == SetToSortSeq({HostOf[e] : e \in Queriers}, <)
           t == FoldLeft(LAMBDA u, h : Fail(u, u.inflight[h]), s, hosts)
       IN  s' = [FoldLeft(LAMBDA u, f : IF u.at[f] = None THEN u ELSE CloseDetached(u, u.at[f]), t, SetToSortSeq(Fds, <))
                 EXCEPT !.phase = "closed"]
    /\ UNCHANGED mix

\* An entry expires or is dropped for good, or another loop stores an answer.
Age(h) ==
    /\ May("age")
    /\ \E known \in {"address", "expired", "none"} :
         /\ (s.cache[h] = "absent" => known # "expired") /\ (s.cache[h] = "none" => known = "address")
         /\ known # s.cache[h]
         /\ Become([s EXCEPT !.cache[h] = known])

Next ==
    \/ \E e \in Exs : Start(e) \/ Abort(e)
    \/ Wait \/ SweepSome \/ CloseAll
    \/ \E f \in Fds : Handle(f)
    \/ \E h \in Hosts : Age(h)

Spec == Init /\ [][Next]_vars

--------------------------------------------------------------------------------
(* Properties.                                                                  *)

TypeOK ==
    /\ s.live \in 0..MaxConns /\ s.at \in [Fds -> Exs \cup {None}] /\ s.alive \subseteq s.batch
    /\ \A e \in Exs : s.c[e].st \in {"new", "resolving", "connecting", "ready", "over"} /\ s.c[e].server \in 0..(Servers - 1)

\* newConn, closeConn: liveConns is the number of connections that are open, and a
\* descriptor and its connection name each other.
SocketsExact ==
    /\ s.live = Cardinality(Carried)
    /\ \A e \in Exs : s.c[e].fd # None => s.at[s.c[e].fd] = e
    /\ \A f \in Fds : s.at[f] # None => s.c[s.at[f]].fd = f

\* startResolve, dnsAbandon: whoever resolves a host is its querier with a socket and
\* a server to try, or waits for that querier exactly once, however many queriers
\* were closed before.
LookupsDriven ==
    \A e \in Exs : Resolving(s, e) =>
        LET q == s.inflight[HostOf[e]] IN
        /\ q # None /\ Resolving(s, q) /\ s.c[q].fd # None
        /\ e # q => Cardinality({i \in DOMAIN s.c[q].waiters : s.c[q].waiters[i] = e}) = 1

\* staleInBatch: an event of the batch is dropped exactly when the socket it was
\* reported for is gone, also when a connection opened meanwhile has its number.
EventsReachTheirSocket ==
    \A f \in s.batch : Skips(f) <=> f \notin s.alive

\* dnsAttempt, dnsNext, dnsAbandon: a lookup asks each server for each record type at
\* most once, also when another connection takes it over: it never starts over, so
\* it ends even for exchanges without a deadline.
Position(h) ==
    LET q == s.c[s.inflight[h]] IN 2 * q.server + (IF q.qtype = "AAAA" THEN 1 ELSE 0)
Advances == \A h \in Hosts : (s.inflight[h] # None /\ s'.inflight[h] # None) => Position(h)' >= Position(h)
LookupsAdvance == [][Advances]_vars

================================================================================
