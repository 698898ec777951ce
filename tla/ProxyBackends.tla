---------------------------- MODULE ProxyBackends ----------------------------
(***************************************************************************)
(* The backends of one proxied domain: which of them a request is sent to  *)
(* (proxy_balance.go), how it is retried on another (proxy_forward.go,     *)
(* proxy_retry.go), how a failing one is ejected for a while               *)
(* (proxy_outlier.go) or taken out by its health checker                   *)
(* (proxy_health.go), and how the domain's configuration is replaced,      *)
(* removed and stopped under all of them (proxy.go).                       *)
(*                                                                         *)
(* Each request runs in a goroutine of its own, each health checker and    *)
(* each administrative call too.  A domain is replaced by a new version    *)
(* with new backend records; a request keeps the version it looked up.     *)
(***************************************************************************)
EXTENDS Integers, FiniteSets, FiniteSetsExt, SequencesExt

CONSTANTS Backends,         \* 1 .. n, in configuration order
          Weight,           \* [Backends -> Nat]
          Reqs,             \* requests
          MaxVersion,       \* bound on the times the domain is configured
          MaxRetries,
          BaseEject, MaxEject,
          FailThreshold, SuccessThreshold,
          MaxTime,          \* bound on the clock
          Mixes

VARIABLES t,    \* the engine, its requests and its callers
          mix

vars == <<t, mix>>

N == Cardinality(Backends)
Versions == 1 .. MaxVersion

(* ConsecutiveFailures and MaxEjectPercent, once normalized. *)
Threshold == mix.threshold
Percent == mix.percent

NewBackend == [healthy |-> TRUE, until |-> 0, fails |-> 0, count |-> 0, active |-> 0]

(* A health checker: its loop's place, the backend it probes next, the     *)
(* runs of passing and failing probes, and whether stop was called.        *)
NoChecker == [at |-> "gone", i |-> 1, stopped |-> FALSE,
              bad |-> [b \in Backends |-> 0], good |-> [b \in Backends |-> 0]]

NewRequest == [at |-> "idle", v |-> 1, tried |-> {}, b |-> 1, attempt |-> 0,
               err |-> "none", sent |-> 0, answers |-> 0]

Become(u) == t' = u /\ UNCHANGED mix

Ejected(u, v, b) == u.be[v][b].until > u.now
Available(u, v, b) == u.be[v][b].healthy /\ ~Ejected(u, v, b)

-----------------------------------------------------------------------------
(* Balancers: the first available backend from a starting point. *)

FirstFrom(order, start, ok(_)) ==
    LET n == Len(order)
        hits == {i \in 0 .. n - 1 : ok(order[((start + i) % n) + 1])}
    IN  IF hits = {} THEN 0 ELSE order[((start + Min(hits)) % n) + 1]

InOrder == [i \in 1 .. N |-> i]

(* newWeightedRR: a backend stands in the list as often as it weighs. *)
Weighted == FlattenSeq([b \in 1 .. N |-> [j \in 1 .. Weight[b] |-> b]])

LeastActive(u, v) ==
    LET up == {b \in Backends : Available(u, v, b)}
        least == {b \in up : \A c \in up : u.be[v][b].active <= u.be[v][c].active}
    IN  IF up = {} THEN 0 ELSE Min(least)

(* What pick may return; 0 is none.  The hash of a client's address and    *)
(* the random choice are any number.                                       *)
Picks(u, v) ==
    LET ok(b) == Available(u, v, b)
    IN  CASE mix.lb = "rr"       -> {FirstFrom(InOrder, u.counter[v], ok)}
          [] mix.lb = "weighted" -> {FirstFrom(Weighted, u.counter[v], ok)}
          [] mix.lb = "least"    -> {LeastActive(u, v)}
          [] mix.lb = "hash"     -> {FirstFrom(InOrder, h, ok) : h \in 0 .. N - 1}
          [] mix.lb = "random"   ->
                LET up == {b \in Backends : ok(b)} IN IF up = {} THEN {0} ELSE up

(* The counter of the two round-robin balancers, modulo their list. *)
Counted(u, v) ==
    CASE mix.lb = "rr"       -> [u EXCEPT !.counter[v] = (@ + 1) % N]
      [] mix.lb = "weighted" -> [u EXCEPT !.counter[v] = (@ + 1) % Len(Weighted)]
      [] OTHER               -> u

PickAsBalanced(u, r, p) == IF p \in u.req[r].tried THEN 0 ELSE p

(* pickRetryBackend: a pick already tried gives way to any backend that is *)
(* available and has not been.                                             *)
PickRetry(u, r, p) ==
    LET q == u.req[r]
        rest == {b \in Backends \ q.tried : Available(u, q.v, b)}
    IN  IF p # 0 /\ p \notin q.tried THEN p
        ELSE IF rest = {} THEN 0 ELSE Min(rest)

-----------------------------------------------------------------------------
(***************************************************************************)
(* What an attempt may come to.  err says what serveDomain makes of the    *)
(* error: "plain" ones carry no account of how far the attempt got.        *)
(***************************************************************************)

Outcome(err, wrote, got, failed) ==
    [err |-> err, wrote |-> wrote, got |-> got, failed |-> failed]

(* forwardRequestFP: a buffered answer counts by its status, a streamed    *)
(* one as a success, whatever it was; a client that stops reading fails    *)
(* the attempt, in the body with an account and at the end without.        *)
ForwardRequestFP ==
    {Outcome("none", TRUE, TRUE, FALSE), Outcome("none", TRUE, TRUE, TRUE),
     Outcome("attempt", FALSE, FALSE, TRUE), Outcome("attempt", TRUE, FALSE, TRUE),
     Outcome("attempt", TRUE, TRUE, TRUE), Outcome("plain", TRUE, TRUE, TRUE)}

(* forwardUpgrade: dialling, writing and waiting fail without an account;  *)
(* a malformed answer and a broken relay of a refusal have one.            *)
ForwardUpgrade ==
    {Outcome("none", TRUE, TRUE, FALSE), Outcome("plain", FALSE, FALSE, TRUE),
     Outcome("plain", TRUE, FALSE, TRUE), Outcome("attempt", TRUE, TRUE, TRUE)}

Outcomes(r) ==
    {o \in (IF r \in mix.upgrades THEN ForwardUpgrade ELSE ForwardRequestFP) :
        o.err = "plain" /\ o.got => "client leaves" \in mix.may}

MayRetryAlways(r, o) == ~o.got

(* proxyMayRetry *)
MayRetry(r, o) ==
    IF o.err = "plain" THEN r \in mix.replayable
    ELSE ~o.got /\ (~o.wrote \/ r \in mix.replayable)

(* serveDomain's bound on the attempts. *)
Attempts == Min({MaxRetries, N - 1}) + 1

-----------------------------------------------------------------------------
(* A request; one the cache answers reaches no backend. *)

Serve(r) ==
    /\ r \in mix.reqs
    /\ t.req[r].at = "idle"
    /\ \/ t.domain = 0 /\ Become([t EXCEPT !.req[r].at = "unrouted"])
       \/ t.domain # 0 /\ Become([t EXCEPT !.req[r].at = "pick", !.req[r].v = t.domain])
       \/ t.domain # 0 /\ "cache" \in mix.may /\ Become([t EXCEPT !.req[r].at = "answered"])

(* The backend is chosen; the interceptor may still refuse the request,    *)
(* before it counts as one of the backend's.                               *)
Pick(r) ==
    LET v == t.req[r].v
    IN  /\ t.req[r].at = "pick"
        /\ \E p \in Picks(t, v) :
              LET b == PickRetry(t, r, p)
                  u == Counted(t, v)
                  chosen == [u EXCEPT !.req[r].b = b, !.req[r].attempt = @ + 1,
                                      !.req[r].tried = @ \union {b}]
              IN  \/ b = 0 /\ Become([u EXCEPT !.req[r].at = "none left"])
                  \/ b # 0 /\ Become([chosen EXCEPT !.req[r].at = "forward",
                                                    !.be[v][b].active = @ + 1])
                  \/ /\ b # 0 /\ "interceptor" \in mix.may
                     /\ Become([chosen EXCEPT !.req[r].at = "blocked"])

ForwardedKeepsCount(r, o) ==
    [t EXCEPT !.req[r].err = IF o.err = "none" THEN "answered" ELSE "failed",
              !.req[r].at = IF o.failed THEN "failure" ELSE "success"]

(* The attempt ends; what it says of the backend is recorded next. *)
Forwarded(r, o) ==
    LET q == t.req[r]
        more == /\ o.err # "none"
                /\ MayRetry(r, o)
                /\ q.attempt < Attempts
    IN  [t EXCEPT !.be[q.v][q.b].active = @ - 1,
                  !.req[r].sent = @ + (IF o.wrote THEN 1 ELSE 0),
                  !.req[r].answers = @ + (IF o.got THEN 1 ELSE 0),
                  !.req[r].err = IF more THEN "again"
                                 ELSE IF o.err = "none" THEN "answered" ELSE "failed",
                  !.req[r].at = IF o.failed THEN "failure" ELSE "success"]

Forward(r) ==
    /\ t.req[r].at = "forward"
    /\ \E o \in Outcomes(r) : Become(Forwarded(r, o))

AfterRecord(u, r) ==
    [u EXCEPT !.req[r].at = IF u.req[r].err = "again" THEN "pick" ELSE u.req[r].err]

(* recordSuccess: a load, and a store only when there is something to      *)
(* clear.                                                                  *)
RecordSuccess(r) ==
    LET q == t.req[r]
    IN  /\ q.at = "success"
        /\ Become(IF t.be[q.v][q.b].fails = 0 THEN AfterRecord(t, r)
                  ELSE [t EXCEPT !.req[r].at = "clear"])

ClearFails(r) ==
    LET q == t.req[r]
    IN  /\ q.at = "clear"
        /\ Become(AfterRecord([t EXCEPT !.be[q.v][q.b].fails = 0], r))

(* recordFailure; past the threshold the count is all the same. *)
RecordFailure(r) ==
    LET q == t.req[r]
        u == [t EXCEPT !.be[q.v][q.b].fails = Min({@ + 1, Threshold})]
    IN  /\ q.at = "failure"
        /\ Become(IF u.be[q.v][q.b].fails >= Threshold
                  THEN [u EXCEPT !.req[r].at = "eject"] ELSE AfterRecord(u, r))

MayEjectAny(u, v) == TRUE

MayEjectAnother(u, v) ==
    (Cardinality({b \in Backends : Ejected(u, v, b)}) + 1) * 100 <= Percent * N

EjectDuration(count) == Min({BaseEject * 2 ^ count, MaxEject})

EjectAgain(u, v, b) ==
    IF u.be[v][b].fails < Threshold \/ ~MayEjectAnother(u, v) THEN u
    ELSE [u EXCEPT !.be[v][b].fails = 0, !.be[v][b].count = @ + 1,
                   !.be[v][b].until = u.now + EjectDuration(u.be[v][b].count)]

(* eject, under the detector's lock, looks at everything afresh. *)
Eject(u, v, b) ==
    LET s == u.be[v][b]
        quiet == s.until # 0 /\ u.now - s.until >= MaxEject
        prior == IF quiet THEN 0 ELSE s.count
    IN  IF Ejected(u, v, b) \/ s.fails < Threshold \/ ~MayEjectAnother(u, v) THEN u
        ELSE [u EXCEPT !.be[v][b].fails = 0, !.be[v][b].count = prior + 1,
                       !.be[v][b].until = u.now + EjectDuration(prior)]

EjectStep(r) ==
    LET q == t.req[r]
    IN  q.at = "eject" /\ Become(AfterRecord(Eject(t, q.v, q.b), r))

-----------------------------------------------------------------------------
(* A health checker: one pass over the backends per tick. *)

StartPass(v) ==
    /\ "health" \in mix.may
    /\ t.hc[v].at = "wait"
    /\ Become([t EXCEPT !.hc[v].at = "probe", !.hc[v].i = 1])

Probed(u, v, b, ok) ==
    LET h == u.hc[v]
        good == IF ok THEN Min({h.good[b] + 1, SuccessThreshold}) ELSE 0
        bad == IF ok THEN 0 ELSE Min({h.bad[b] + 1, FailThreshold})
    IN  [u EXCEPT !.hc[v].good[b] = good, !.hc[v].bad[b] = bad,
                  !.hc[v].i = (h.i % N) + 1,
                  !.hc[v].at = IF h.i = N THEN "wait" ELSE "probe",
                  !.be[v][b].healthy =
                      IF ok THEN @ \/ good >= SuccessThreshold
                      ELSE @ /\ bad < FailThreshold]

Probe(v) ==
    /\ t.hc[v].at = "probe"
    /\ \E ok \in BOOLEAN : Become(Probed(t, v, t.hc[v].i, ok))

CheckerExitsAtEnd(v) ==
    /\ t.hc[v].at = "wait" /\ t.closed
    /\ Become([t EXCEPT !.hc[v] = [NoChecker EXCEPT !.stopped = TRUE]])

(* The select takes any channel that is ready, so a stopped checker may    *)
(* still run a pass.                                                       *)
CheckerExits(v) ==
    /\ t.hc[v].at = "wait"
    /\ t.hc[v].stopped \/ t.closed
    /\ Become([t EXCEPT !.hc[v] = [NoChecker EXCEPT !.stopped = TRUE]])

-----------------------------------------------------------------------------
(* AddDomain, RemoveDomain (under the engine's lock) and Stop. *)

StopChecker(u, v) == [u EXCEPT !.hc[v].stopped = TRUE]

(* The call takes the lock and stops the checker of the version in place. *)
Configure(kind) ==
    /\ t.admin.at = "idle"
    /\ kind \in mix.may
    /\ kind = "add" => t.made < MaxVersion
    /\ kind = "remove" => t.domain # 0
    /\ Become([IF t.domain = 0 THEN t ELSE StopChecker(t, t.domain)
               EXCEPT !.admin = [at |-> "stopping", kind |-> kind]])

NewVersion(u) ==
    LET v == u.made + 1
    IN  [u EXCEPT !.made = v, !.admin.at = "store",
                  !.hc[v] = IF "health" \in mix.may THEN [NoChecker EXCEPT !.at = "wait"]
                            ELSE NoChecker]

ReplaceAtOnce(u) == TRUE

(* hc.stop waits for the loop to be over. *)
OldCheckerGone(u) == u.domain # 0 => u.hc[u.domain].at = "gone"

Replace ==
    /\ t.admin.at = "stopping"
    /\ OldCheckerGone(t)
    /\ Become(IF t.admin.kind = "add" THEN NewVersion(t)
              ELSE [t EXCEPT !.domain = 0, !.admin.at = "idle"])

StoreDomain ==
    /\ t.admin.at = "store"
    /\ Become([t EXCEPT !.domain = t.made, !.admin.at = "idle"])

(* Stop takes no lock: it closes the channel, then stops what it finds. *)
Stop ==
    /\ "stop" \in mix.may
    /\ ~t.closed
    /\ Become([t EXCEPT !.closed = TRUE, !.stopping = "range"])

StopRange ==
    /\ t.stopping = "range"
    /\ Become(IF t.domain = 0 THEN [t EXCEPT !.stopping = "done"]
              ELSE [StopChecker(t, t.domain) EXCEPT !.stopping = "wait", !.waits = t.domain])

StopWaits ==
    /\ t.stopping = "wait"
    /\ t.hc[t.waits].at = "gone"
    /\ Become([t EXCEPT !.stopping = "done"])

Tick ==
    /\ "tick" \in mix.may
    /\ t.now < MaxTime
    /\ Become([t EXCEPT !.now = @ + 1])

Init ==
    /\ mix \in Mixes
    /\ t = [domain |-> 1, made |-> 1, now |-> 0, closed |-> FALSE,
            be |-> [v \in Versions |-> [b \in Backends |-> NewBackend]],
            counter |-> [v \in Versions |-> 0],
            hc |-> [v \in Versions |-> IF v = 1 /\ "health" \in mix.may
                                       THEN [NoChecker EXCEPT !.at = "wait"] ELSE NoChecker],
            req |-> [r \in Reqs |-> NewRequest],
            admin |-> [at |-> "idle", kind |-> "none"],
            stopping |-> "no", waits |-> 1]

Next ==
    \/ \E r \in Reqs : \/ Serve(r)
                       \/ Pick(r)
                       \/ Forward(r)
                       \/ RecordSuccess(r)
                       \/ ClearFails(r)
                       \/ RecordFailure(r)
                       \/ EjectStep(r)
    \/ \E v \in Versions : StartPass(v) \/ Probe(v) \/ CheckerExits(v)
    \/ \E kind \in {"add", "remove"} : Configure(kind)
    \/ Replace
    \/ StoreDomain
    \/ Stop
    \/ StopRange
    \/ StopWaits
    \/ Tick

Spec == Init /\ [][Next]_vars

-----------------------------------------------------------------------------
(* The shape of the engine's state; no backend's count of requests in      *)
(* progress goes below zero.                                               *)
TypeOK ==
    /\ t.domain \in 0 .. MaxVersion /\ t.made \in Versions
    /\ t.be \in [Versions -> [Backends ->
          [healthy : BOOLEAN, until : 0 .. MaxTime + MaxEject, fails : 0 .. Threshold,
           count : Nat, active : 0 .. Cardinality(Reqs)]]]
    /\ \A r \in Reqs : t.req[r].attempt <= Attempts

(* serveDomain: the count least_conn compares is that of the requests at    *)
(* the backend now, and no request is sent to one backend twice.           *)
ActiveExact ==
    /\ \A v \in Versions, b \in Backends :
          t.be[v][b].active =
              Cardinality({r \in Reqs : t.req[r].at = "forward" /\ t.req[r].v = v /\ t.req[r].b = b})
    /\ \A r \in Reqs : t.req[r].attempt = Cardinality(t.req[r].tried)

(* mayEjectAnother: however many failures arrive at once, no more than     *)
(* MaxEjectPercent of a domain's backends are ejected at a time.           *)
EjectedWithinShare ==
    \A v \in Versions :
        Cardinality({b \in Backends : Ejected(t, v, b)}) * 100 <= Percent * N

(* eject: failures of requests that were in flight when a backend was      *)
(* ejected neither extend the ejection nor cut it short.                   *)
KeepsEjections ==
    \A v \in Versions, b \in Backends : Ejected(t, v, b) => t'.be[v][b].until = t.be[v][b].until
EjectionStands == [][KeepsEjections]_vars

(* pickRetryBackend: a request gives up for want of a backend only when    *)
(* each one it has not tried is unhealthy or ejected.                      *)
GivesUpLast ==
    \A r \in Reqs :
        t.req[r].at = "pick" /\ t'.req[r].at = "none left" =>
            \A b \in Backends \ t.req[r].tried : ~Available(t, t.req[r].v, b)
TriesThemAll == [][GivesUpLast]_vars

(* proxyMayRetry: a request that is not safe to repeat reaches at most one *)
(* backend, and, unless its client went away, no request is sent again     *)
(* once a backend has answered it.                                         *)
NotRepeated ==
    \A r \in Reqs :
        /\ r \notin mix.replayable => t.req[r].sent <= 1
        /\ "client leaves" \notin mix.may => t.req[r].answers <= 1

(* AddDomain, RemoveDomain: the old version's checker is over before the   *)
(* new one starts, so a domain is never probed by two; and a checker that  *)
(* nobody has told to stop is that of the version the table holds or is    *)
(* about to hold.                                                          *)
OneChecker ==
    LET running == {v \in Versions : t.hc[v].at # "gone"}
    IN  /\ Cardinality(running) <= 1
        /\ \A v \in running :
              \/ t.hc[v].stopped \/ t.closed \/ v = t.domain
              \/ t.admin.at = "store" /\ v = t.made

(* hc.stop: replacing, removing and stopping a domain have ended, although *)
(* they wait for a checker that may be in the middle of a pass.            *)
CallsEnded == t.admin.at = "idle" /\ t.stopping \in {"no", "done"}
=============================================================================
