------------------------------- MODULE MCLimits -------------------------------
(* What all connections and requests share, for TLC: the limits per client, per  *)
(* rule, per link and per body, the demotion of routes, and the two caches.      *)
(* They have no state in common, so one behaviour runs one of them, which part   *)
(* names; all but the limit per client keep their state in x.                    *)
EXTENDS PerIPLimiter, Sequences

VARIABLES part, x1, x2, x3, x4, x5, x6

x == <<x1, x2, x3, x4, x5, x6>>

-------------------------------------------------------------------------------
(* The limit per client.                                                       *)

MCDead == -100

-------------------------------------------------------------------------------
(* Rate limits: requests of one client to one or two paths, within a window or   *)
(* around its end, with the sweep or with rules that change.                     *)

RateMix(engine, max, block, reqs, start, end, loop, may) ==
    [engine |-> engine, max |-> max, block |-> block, client |-> [r \in 1..reqs |-> 1],
     path |-> [r \in 1..reqs |-> IF r = 2 THEN "q" ELSE "p"], loop |-> loop, hook |-> TRUE,
     may |-> may, rules |-> <<1>>, calls |-> <<>>, start |-> start, end |-> end]
RateMixes ==
    {RateMix(TRUE, 1, 0, 3, 1, 2, {1, 2}, {}), RateMix(FALSE, 2, 1, 3, 0, 1, {}, {}),
     RateMix(FALSE, 1, 3, 2, 1, 4, {1}, {"clean"}), RateMix(TRUE, 1, 0, 2, 0, 4, {1}, {"clean"}),
     [RateMix(TRUE, 1, 0, 2, 0, 0, {}, {}) EXCEPT
        !.calls = <<[op |-> "add", rule |-> 2], [op |-> "remove", rule |-> 1]>>]}
RateCovers == <<{"p", "q"}, {"q"}>>
Limiter == INSTANCE RateLimit
    WITH Reqs <- {1, 2, 3}, Admins <- {1, 2}, Rules <- {1, 2}, Specificity <- <<1, 2>>, Covers <- RateCovers,
         Entries <- {1, 2, 3}, Window <- 2, Grace <- 1, EpochMod <- 8, MaxTime <- 4, Mixes <- RateMixes,
         t <- x1, mix <- x2

Call(op, k, deadline) == [op |-> op, n |-> k, deadline |-> deadline]
TokenMixes ==
    {[rate |-> 2, burst |-> 2, calls |-> <<Call("wait", 3, 0), Call("allow", 1, 0), Call("allow", 2, 0)>>],
     [rate |-> 2, burst |-> 0, calls |-> <<Call("until", 5, 1), Call("wait", 2, 0)>>],
     [rate |-> 0, burst |-> 2, calls |-> <<Call("until", 5, 1), Call("wait", 2, 0), Call("allow", 3, 0)>>],
     [rate |-> 2, burst |-> 1, calls |-> <<Call("allow", 2, 0), Call("until", 2, 1), Call("wait", 1, 0)>>]}
Token == INSTANCE TokenBucket
    WITH Users <- {1, 2, 3}, Rate <- 2, Unit <- 3, MaxTime <- 4, Mixes <- TokenMixes,
         bucket <- x1, user <- x2, now <- x3, mix <- x4

-------------------------------------------------------------------------------
(* Request bodies in flight, and routes that were too slow to run inline.        *)

BudgetConnOf == <<1, 1, 0>>
Budget == INSTANCE BodyBudget
    WITH Streams <- {1, 2, 3}, Conns <- {1}, ConnOf <- BudgetConnOf, NoConn <- 0, Sizes <- {2, 5}, Limit <- 4,
         MaxBodySizes <- {-1, 1}, addPath <- x1, inFlight <- x2, reserved <- x3, st <- x4

Demotion == INSTANCE RouteDemotion
    WITH Routes <- {1, 2}, Runs <- {1, 2}, RepromoteRuns <- 1, MaxShift <- 1, MaxDemotions <- 2,
         demoted <- x1, structural <- x2, demotions <- x3, fastRuns <- x4, live <- x5, run <- x6

ASSUME DemotionFinite == Demotion!Finite

-------------------------------------------------------------------------------
(* The static file cache: who asks for which file, with or without an          *)
(* encoding, and whether files are replaced meanwhile.                         *)

Ask(k, plain, enc) == [k |-> k, plain |-> plain, enc |-> enc]
StaticMix(c, asks) == [change |-> c, asks |-> asks]
StaticMixes ==
    {StaticMix(TRUE, <<Ask(1, TRUE, FALSE), Ask(1, TRUE, FALSE), Ask(1, TRUE, FALSE)>>),
     StaticMix(TRUE, <<Ask(1, FALSE, TRUE), Ask(1, FALSE, TRUE)>>),
     StaticMix(TRUE, <<Ask(1, TRUE, TRUE), Ask(1, FALSE, TRUE)>>),
     StaticMix(FALSE, <<Ask(1, FALSE, TRUE), Ask(1, FALSE, TRUE), Ask(2, FALSE, TRUE)>>),
     StaticMix(FALSE, <<Ask(1, TRUE, TRUE), Ask(1, TRUE, TRUE), Ask(2, FALSE, TRUE)>>)}
Static == INSTANCE StaticCache
    WITH Keys <- {1, 2}, Reqs <- {1, 2, 3}, MaxVersion <- 2, MaxObjs <- 4, MaxSlots <- 3,
         DataCost <- 2, BareCost <- 1, VariantCost <- 1, MaxBytes <- 3, MaxFDs <- 1, TTL <- 1,
         MaxTime <- 2, QueueSize <- 1, Together <- 2, Mixes <- StaticMixes, t <- x1, mix <- x2

-------------------------------------------------------------------------------
(* The proxy's response cache: responses of different sizes, codings and rules   *)
(* put at once, lookups, purges, expiry and the sweep.                           *)

Put(key) == [key |-> key, cost |-> 1, size |-> 1, age |-> 1, maxHits |-> 0, manual |-> FALSE,
             method |-> "GET", status |-> 200, req |-> {}, resp |-> {},
             coding |-> <<>>, inflates |-> "ok", long |-> FALSE, compress |-> FALSE, offload |-> TRUE]
Slow(key) == [Put(key) EXCEPT !.long = TRUE, !.compress = TRUE, !.cost = 2]
Coded(key, c, i) == [Put(key) EXCEPT !.coding = <<c>>, !.inflates = i, !.compress = TRUE]
OnceOnly(key) == [Put(key) EXCEPT !.maxHits = 1, !.manual = TRUE, !.resp = {<<"set-cookie", "id">>}]
Varying(key) == [Put(key) EXCEPT !.resp = {<<"vary", "cookie">>}]
CacheRule(ks, age) == [paths |-> ks, methods |-> {"GET"}, status |-> {}, age |-> age]
Config(bytes, entries, stale) ==
    [maxBytes |-> bytes, maxEntries |-> entries, maxSize |-> 1, stale |-> stale, age |-> 1, rules |-> <<>>]
Ruled == [Config(0, 0, 0) EXCEPT !.rules = <<CacheRule({"b"}, 2), CacheRule({"a"}, 0)>>]
Get(key, plain) == [key |-> key, req |-> IF plain THEN {} ELSE {<<"cookie", "id">>}]
PurgeAll == [keys |-> {"a", "b", "c"}, wide |-> TRUE]
PurgeOne(k) == [keys |-> {k}, wide |-> FALSE]
Nobody == [u \in {} |-> PurgeAll]
NoGet == [r \in {} |-> Get("a", TRUE)]
Puts2(a, b) == [p \in {"p1", "p2"} |-> IF p = "p1" THEN a ELSE b]
Puts3(a, b, c) == [p \in {"p1", "p2", "p3"} |-> IF p = "p3" THEN c ELSE Puts2(a, b)[p]]
CacheMix(cfg, puts, gets, purges, may) ==
    [cfg |-> cfg, puts |-> puts, gets |-> gets, purges |-> purges, may |-> may]
CacheMixes ==
    {CacheMix(<<Config(0, 0, 0)>>, Puts2(Put("a"), Slow("a")), NoGet, [u \in {"u1"} |-> PurgeOne("a")], {}),
     CacheMix(<<Config(0, 0, 0)>>, Puts2(Put("a"), Put("b")), NoGet,
              [u \in {"u1", "u2"} |-> IF u = "u1" THEN PurgeOne("a") ELSE PurgeAll], {}),
     CacheMix(<<Config(0, 1, 0)>>, Puts3(Put("a"), Put("b"), Put("a")), NoGet, Nobody, {}),
     CacheMix(<<Config(2, 0, 0), Config(1, 0, 0)>>, Puts2(Put("a"), Slow("b")), NoGet,
              [u \in {"u1"} |-> PurgeOne("c")], {}),
     CacheMix(<<Config(0, 0, 2)>>, Puts2(OnceOnly("a"), Put("a")), [r \in {"g1", "g2"} |-> Get("a", r = "g1")],
              Nobody, {"tick"}),
     CacheMix(<<Config(0, 0, 0)>>, Puts2(Put("a"), Slow("a")), [r \in {"g1"} |-> Get("a", TRUE)],
              Nobody, {"tick", "sweep"}),
     CacheMix(<<Ruled>>, Puts3(Coded("a", "gzip", "ok"), Coded("b", "gzip", "bad"), Put("c")), NoGet, Nobody, {}),
     CacheMix(<<Config(0, 0, 0)>>, Puts3(Coded("a", "zstd", "bad"), Coded("b", "br", "big"), Varying("a")),
              NoGet, Nobody, {})}
CacheStripe == [k \in {"a", "b", "c"} |-> IF k = "c" THEN "s2" ELSE "s1"]
Cache == INSTANCE ProxyCache
    WITH Keys <- {"a", "b", "c"}, StripeOf <- CacheStripe, Puts <- {"p1", "p2", "p3"}, Gets <- {"g1", "g2"},
         Purgers <- {"u1", "u2"}, MaxTransforms <- 1, MaxTime <- 2, Mixes <- CacheMixes, t <- x1, mix <- x2

-------------------------------------------------------------------------------
From5 == x5 = 0 /\ x6 = 0
From3 == x3 = 0 /\ x4 = 0 /\ From5

PartsInit ==
    /\ Init
    /\ \/ part = "client" /\ x1 = 0 /\ x2 = 0 /\ From3
       \/ /\ ~dynamic
          /\ \/ part = "rate" /\ Limiter!Init /\ From3
             \/ part = "token" /\ Token!Init /\ From5
             \/ part = "budget" /\ Budget!Init /\ From5
             \/ part = "demotion" /\ Demotion!Init
             \/ part = "static" /\ Static!Init /\ From3
             \/ part = "cache" /\ Cache!Init /\ From3

PartsNext ==
    \/ part = "client" /\ Next /\ UNCHANGED <<part, x>>
    \/ part = "rate" /\ Limiter!Next /\ UNCHANGED <<part, vars, x3, x4, x5, x6>>
    \/ part = "token" /\ Token!Next /\ UNCHANGED <<part, vars, x5, x6>>
    \/ part = "budget" /\ Budget!Next /\ UNCHANGED <<part, vars, x5, x6>>
    \/ part = "demotion" /\ Demotion!Next /\ UNCHANGED <<part, vars>>
    \/ part = "static" /\ Static!Next /\ UNCHANGED <<part, vars, x3, x4, x5, x6>>
    \/ part = "cache" /\ Cache!Next /\ UNCHANGED <<part, vars, x3, x4, x5, x6>>

PartsSpec == PartsInit /\ [][PartsNext]_<<part, vars, x>>

-------------------------------------------------------------------------------
(* Properties.                                                                 *)

\* Rate limits: no window admits more than its rule allows, a request is charged once
\* by a rule, a block stands until its end, and a link's tokens are spent at most once
\* (rlCounter.admit, retireIfIdle, TokenBucket.Wait).
RateSound ==
    /\ [](part = "rate" => Limiter!TypeOK /\ Limiter!QuotaHolds /\ Limiter!ChargedOnce)
    /\ [][part = "rate" => Limiter!StandsUntilItsEnd]_x
    /\ [](part = "token" => Token!TypeOK /\ Token!RateHolds /\ Token!AllOrNothing)

\* Shared counts: the bytes of bodies in flight stay within the limit and are those
\* the streams hold, and inlineDemotedLive counts the demoted routes (tryReserveBodyBytes,
\* releaseBodyBytes, demoteInline, observeDemoted).
CountsSound ==
    /\ part = "budget" => Budget!TypeOK /\ Budget!BudgetHolds /\ Budget!BudgetExact /\ Budget!ShareExact
    /\ part = "demotion" => Demotion!TypeOK /\ Demotion!LiveCountsDemoted

\* The static file cache serves no replaced file past its time to live, keeps a shared
\* file open while it is used, counts what it holds, and builds each variant asked for
\* (lookupOrFill, attachFD, publish, requestVariants).
StaticSound ==
    part = "static" => /\ Static!TypeOK /\ Static!OpenWhileUsed /\ Static!HoldsWhatItCounts
                       /\ Static!JobsDriven /\ Static!NeverStale

\* The proxy's cache: its totals are its entries', a purge holds against a put under
\* way, what overflows is evicted, what is spent goes, and an entry's encoding is what
\* its header says (putEntry, Purge, evictLoop, evictExpired, transformAndStore).
CacheSound ==
    part = "cache" => /\ Cache!TypeOK /\ Cache!TotalsExact /\ Cache!PurgeHolds /\ Cache!OverflowDriven
                      /\ Cache!SpentEntriesGo /\ Cache!LabelsMatch

===============================================================================
