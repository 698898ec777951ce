----------------------------- MODULE ProxyCache -----------------------------
(***************************************************************************)
(* The reverse proxy's response cache (proxy_cache.go).  It takes no lock: *)
(* a concurrent map from keys to entries, a flag in each entry that its    *)
(* remover must win, totals kept beside the map, and purge marks that a    *)
(* store compares with the generation its exchange started under.  Stores, *)
(* lookups, purges, the sweep of expired entries and the eviction          *)
(* goroutine all run against each other; each step below is one access to  *)
(* the shared state, or several whose order nobody else can tell.          *)
(*                                                                         *)
(* Every Put stores at most one entry, so an entry is named by its Put.    *)
(***************************************************************************)
EXTENDS Integers, FiniteSets, FiniteSetsExt, SequencesExt

CONSTANTS Keys,          \* method|host|path
          StripeOf,      \* [Keys -> stripes], keyPurgeStripe
          Puts,          \* exchanges whose response may be stored
          Gets,          \* lookups
          Purgers,       \* calls of Purge, PurgeDomain, PurgeAll
          MaxTransforms, \* acquireTransform's limit
          MaxTime,       \* bound on the clock
          Mixes          \* the workloads, one chosen by Init

VARIABLES t,    \* the cache and everything running against it
          mix   \* what this behaviour's callers ask for

vars == <<t, mix>>

None == "none"
Actors == Puts \union Gets \union Purgers \union {"evictor", "sweeper"}

NoEntry == [made |-> 0, expires |-> 0, gen |-> 0, hits |-> 0,
            coding |-> <<>>, labels |-> <<>>, gzip |-> FALSE,
            counted |-> FALSE, deleted |-> FALSE]

Idle == [at |-> "idle", x |-> None, todo |-> <<>>, seq |-> 0, cfg |-> 0]

NewCache(m) ==
    [map |-> [k \in Keys |-> None], ent |-> [p \in Puts |-> NoEntry],
     act |-> [a \in Actors |-> Idle], bytes |-> 0, entries |-> 0,
     purges |-> 0, wide |-> 0, stripe |-> [s \in {StripeOf[k] : k \in Keys} |-> 0],
     evicting |-> FALSE, checks |-> 0, transforms |-> 0,
     cfg |-> 1, now |-> 0]

Become(u) == t' = u /\ UNCHANGED mix

Config(u) == mix.cfg[u.cfg]
KeyOf(p) == mix.puts[p].key
Used == {KeyOf(p) : p \in DOMAIN mix.puts}   \* the keys a Range can meet
Cost(p) == mix.puts[p].cost        \* cacheEntryCost

Goto(u, a, at) == [u EXCEPT !.act[a].at = at]
Finish(u, a) ==
    [u EXCEPT !.act[a] = [Idle EXCEPT !.at = "done", !.seq = u.act[a].seq]]

-----------------------------------------------------------------------------
(***************************************************************************)
(* Whether a response is stored.  Header fields are pairs of a name and a  *)
(* token of its value; a rule lists the keys its prefix covers.            *)
(***************************************************************************)

Disabling == {<<"pragma", "no-cache">>, <<"cache-control", "no-cache">>,
              <<"cache-control", "no-store">>}

(* proxyCacheRequestAllowed *)
RequestAllowed(hs) ==
    /\ \A h \in hs : h[1] \notin {"authorization", "cookie"}
    /\ hs \intersect (Disabling \union {<<"cache-control", "max-age=0">>}) = {}

(* proxyCacheResponseAllowed *)
ResponseAllowed(hs) ==
    /\ \A h \in hs : h[1] # "set-cookie" /\ (h[1] = "vary" => h[2] = "accept-encoding")
    /\ hs \intersect (Disabling \union {<<"cache-control", "private">>}) = {}

RuleMatches(r, p) ==
    /\ KeyOf(p) \in r.paths
    /\ r.methods = {} \/ mix.puts[p].method \in r.methods
    /\ r.status = {} \/ mix.puts[p].status \in r.status

Matching(c, p) == {i \in DOMAIN c.rules : RuleMatches(c.rules[i], p)}

ShouldCache(c, p) ==
    /\ mix.puts[p].method \in {"GET", "HEAD"}
    /\ mix.puts[p].status = 200
    /\ c.rules = <<>> \/ Matching(c, p) # {}

(* The first matching rule's age, or the default. *)
MaxAge(c, p) ==
    LET age == IF c.rules = <<>> THEN 0 ELSE c.rules[Min(Matching(c, p))].age
    IN  IF age > 0 THEN age ELSE c.age

(* proxyMaybeCache: CacheThis overrides the rules and the headers. *)
Storable(c, p) ==
    /\ mix.puts[p].method \in {"GET", "HEAD"}
    /\ c.maxSize > 0 => mix.puts[p].size <= c.maxSize
    /\ \/ mix.puts[p].manual
       \/ /\ RequestAllowed(mix.puts[p].req)
          /\ ResponseAllowed(mix.puts[p].resp)
          /\ ShouldCache(c, p)

(* detectBackendEncoding: the first coding this cache can undo. *)
Detected(p) ==
    SelectSeq(mix.puts[p].coding, LAMBDA e : e \in {"br", "gzip", "deflate"})

(* A small encoded body is inflated by the loop itself. *)
Inlined(p) ==
    /\ mix.puts[p].offload /\ Detected(p) # <<>>
    /\ ~mix.puts[p].long /\ mix.puts[p].inflates = "ok"

Deferred(p) ==
    /\ mix.puts[p].offload /\ ~Inlined(p)
    /\ Detected(p) # <<>> \/ (mix.puts[p].compress /\ mix.puts[p].long)

Released(u, p) == IF Deferred(p) THEN [u EXCEPT !.transforms = @ - 1] ELSE u

-----------------------------------------------------------------------------
(***************************************************************************)
(* Removing an entry: win its flag and take it off the totals, then unlink *)
(* it if the map still holds it under its key.                             *)
(***************************************************************************)

RetireAlways(u, x) ==
    [u EXCEPT !.ent[x].deleted = TRUE, !.bytes = @ - Cost(x), !.entries = @ - 1]

RetireEntry(u, x) ==
    IF u.ent[x].deleted THEN u
    ELSE [u EXCEPT !.ent[x].deleted = TRUE, !.bytes = @ - Cost(x), !.entries = @ - 1]

UnlinkKey(u, x) == [u EXCEPT !.map[KeyOf(x)] = None]

CompareAndDelete(u, x) ==
    IF u.map[KeyOf(x)] = x THEN [u EXCEPT !.map[KeyOf(x)] = None] ELSE u

(* Where a remover goes on: a walk to its next key, the others to the end. *)
AfterRemoval(u, a) ==
    IF a \in Purgers \union {"evictor", "sweeper"}
    THEN [u EXCEPT !.act[a].at = "walk", !.act[a].x = None]
    ELSE Finish(IF a \in Puts THEN Released(u, a) ELSE u, a)

(* removeEntry, first half. *)
Retire(a) ==
    LET x == t.act[a].x
    IN  /\ t.act[a].at = "remove"
        /\ Become(IF t.ent[x].deleted THEN AfterRemoval(t, a)
                  ELSE Goto(RetireEntry(t, x), a, "unlink"))

(* removeEntry, second half. *)
Unlink(a) ==
    /\ t.act[a].at = "unlink"
    /\ Become(AfterRemoval(CompareAndDelete(t, t.act[a].x), a))

-----------------------------------------------------------------------------
(* Purge marks. *)

PurgedSince(u, k, gen) == u.wide > gen \/ u.stripe[StripeOf[k]] > gen

(* markPurged: the sequence number is taken first, the mark raised after. *)
MarkPurged(a) ==
    /\ a \in DOMAIN mix.purges
    /\ t.act[a].at = "idle"
    /\ Become([t EXCEPT !.purges = @ + 1,
                        !.act[a] = [Idle EXCEPT !.at = "raise", !.seq = t.purges + 1]])

RaiseMark(a) ==
    LET ks == mix.purges[a].keys
        raised(old) == Max({old, t.act[a].seq})
        walk == [t EXCEPT !.act[a].at = "walk", !.act[a].todo = SetToSeq(ks \intersect Used)]
    IN  /\ t.act[a].at = "raise"
        /\ Become(IF mix.purges[a].wide
                  THEN [walk EXCEPT !.wide = raised(@)]
                  ELSE [walk EXCEPT !.stripe[StripeOf[CHOOSE k \in ks : TRUE]] = raised(@)])

(* Load the entry under the walk's next key: Purge's one key, PurgeDomain  *)
(* and PurgeAll's Range over the keys they match.                          *)
Visit(u, a, wanted(_)) ==
    LET k == Head(u.act[a].todo)
        x == u.map[k]
        v == [u EXCEPT !.act[a].todo = Tail(@)]
    IN  IF x # None /\ wanted(x)
        THEN [v EXCEPT !.act[a].x = x, !.act[a].at = "remove"] ELSE v

PurgeWalk(a) ==
    /\ a \in DOMAIN mix.purges
    /\ t.act[a].at = "walk"
    /\ Become(IF t.act[a].todo = <<>> THEN Finish(t, a)
              ELSE Visit(t, a, LAMBDA x : TRUE))

-----------------------------------------------------------------------------
(* Capacity. *)

OverCapacity(u, c) ==
    \/ c.maxBytes > 0 /\ u.bytes > c.maxBytes
    \/ c.maxEntries > 0 /\ u.entries > c.maxEntries

(* evicting.CompareAndSwap, and the goroutine it starts. *)
RequestEviction(u) ==
    IF u.evicting THEN u
    ELSE [u EXCEPT !.evicting = TRUE, !.act["evictor"] = [Idle EXCEPT !.at = "collect"]]

(* evictOldest's targets: 90% of the bytes, a tenth of the entries free. *)
AboveTarget(u, c) ==
    \/ c.maxBytes > 0 /\ u.bytes > (c.maxBytes * 90) \div 100
    \/ c.maxEntries > 0 /\ u.entries > c.maxEntries - Max({c.maxEntries \div 10, 1})

Stored(u) == {k \in Keys : u.map[k] # None}

EvictCollect ==
    LET older(j, k) == t.ent[t.map[j]].made < t.ent[t.map[k]].made
    IN  /\ t.act["evictor"].at = "collect"
        /\ Become([t EXCEPT !.act["evictor"].at = "walk",
                            !.act["evictor"].cfg = t.cfg,
                            !.act["evictor"].todo = SetToSortSeq(Stored(t), older)])

EvictDoneQuietly(u) ==
    [u EXCEPT !.evicting = FALSE, !.act["evictor"] = Idle]

(* The deferred end: the flag is dropped, and only then the capacity is    *)
(* looked at once more.                                                    *)
EvictDone(u) ==
    [u EXCEPT !.evicting = FALSE, !.checks = @ + 1, !.act["evictor"] = Idle]

EvictWalk ==
    LET ev == t.act["evictor"]
    IN  /\ ev.at = "walk"
        /\ Become(IF ev.todo = <<>> \/ ~AboveTarget(t, mix.cfg[ev.cfg])
                  THEN EvictDone(t)
                  ELSE Visit(t, "evictor", LAMBDA x : TRUE))

EvictRecheck ==
    /\ t.checks > 0
    /\ LET u == [t EXCEPT !.checks = @ - 1]
       IN  Become(IF OverCapacity(u, Config(u)) THEN RequestEviction(u) ELSE u)

-----------------------------------------------------------------------------
(* Storing a response. *)

(* An exchange leaves for the backend: purgeGeneration. *)
Start(p) ==
    /\ p \in DOMAIN mix.puts
    /\ t.act[p].at = "idle"
    /\ Become([t EXCEPT !.act[p].at = "fetch", !.ent[p].gen = t.purges])

(* A new key is not taken into a full cache. *)
Full(u, p) ==
    /\ Config(u).maxEntries > 0
    /\ u.entries >= Config(u).maxEntries
    /\ u.map[KeyOf(p)] = None

NewEntry(u, p) ==
    [u.ent[p] EXCEPT !.made = u.now,
        !.expires = u.now + (IF mix.puts[p].manual THEN mix.puts[p].age
                             ELSE MaxAge(Config(u), p)),
        !.coding = mix.puts[p].coding, !.labels = mix.puts[p].coding]

(* put, putManual and putEntry up to the transform; one that has to be     *)
(* done off the loop needs a slot.                                         *)
PutEntry(p) ==
    LET purged == PurgedSince(t, KeyOf(p), t.ent[p].gen)
        refused == ~Storable(Config(t), p) \/ purged
    IN  /\ p \in DOMAIN mix.puts
        /\ t.act[p].at = "fetch"
        /\ \/ refused /\ Become(Finish(t, p))
           \/ ~refused /\ Full(t, p) /\ Become(Finish(RequestEviction(t), p))
           \/ /\ ~refused /\ ~Full(t, p)
              /\ Become(IF Deferred(p) /\ t.transforms >= MaxTransforms
                        THEN Finish(t, p)
                        ELSE [t EXCEPT !.act[p].at = "transform", !.act[p].cfg = t.cfg,
                                       !.ent[p] = NewEntry(t, p),
                                       !.transforms = @ + (IF Deferred(p) THEN 1 ELSE 0)])

InflateKeepsLabel(e, p) == [e EXCEPT !.coding = <<>>]

(* inflateCacheEntry: a body that cannot be inflated is kept as it came. *)
Inflate(e, p) ==
    IF Detected(p) = <<>> \/ mix.puts[p].inflates # "ok" THEN e
    ELSE [e EXCEPT !.coding = <<>>, !.labels = <<>>]

(* transformAndStore gives up on a body that inflates past the limit;      *)
(* otherwise storeEntry counts the entry.                                  *)
Transform(p) ==
    LET e == [Inflate(t.ent[p], p) EXCEPT !.gzip = mix.puts[p].compress, !.counted = TRUE]
    IN  /\ t.act[p].at = "transform"
        /\ Become(IF Detected(p) # <<>> /\ mix.puts[p].inflates = "big"
                  THEN Finish(Released(t, p), p)
                  ELSE [t EXCEPT !.act[p].at = "swap", !.ent[p] = e,
                                 !.entries = @ + 1, !.bytes = @ + Cost(p)])

Swap(p) ==
    LET prev == t.map[KeyOf(p)]
    IN  /\ t.act[p].at = "swap"
        /\ Become([t EXCEPT !.map[KeyOf(p)] = p, !.act[p].x = prev,
                            !.act[p].at = IF prev = None THEN "recheck" ELSE "replace"])

Replace(p) ==
    /\ t.act[p].at = "replace"
    /\ Become([RetireEntry(t, t.act[p].x) EXCEPT !.act[p].at = "recheck"])

Settle(u, p) ==
    LET v == IF OverCapacity(u, mix.cfg[u.act[p].cfg]) THEN RequestEviction(u) ELSE u
    IN  Finish(Released(v, p), p)

RecheckNever(u, p) == Settle(u, p)

(* storeEntry after the swap: an entry purged while it was on its way is   *)
(* taken out again.                                                        *)
AfterSwap(u, p) ==
    IF PurgedSince(u, KeyOf(p), u.ent[p].gen)
    THEN [u EXCEPT !.act[p].at = "remove", !.act[p].x = p]
    ELSE Settle(u, p)

Recheck(p) == t.act[p].at = "recheck" /\ Become(AfterSwap(t, p))

-----------------------------------------------------------------------------
(* lookupEntry. *)

Lookup(g) ==
    LET x == t.map[mix.gets[g].key]
    IN  /\ g \in DOMAIN mix.gets
        /\ t.act[g].at = "idle"
        /\ Become(IF x = None \/ (~mix.puts[x].manual /\ ~RequestAllowed(mix.gets[g].req))
                  THEN Finish(t, g)
                  ELSE [t EXCEPT !.act[g].at = "judge", !.act[g].x = x])

(* ServeCached: the gzip copy goes to a client that takes gzip. *)
Served(e, takesGzip) ==
    IF e.gzip /\ takesGzip
    THEN [coding |-> Append(e.coding, "gzip"), labels |-> Append(e.labels, "gzip")]
    ELSE [coding |-> e.coding, labels |-> e.labels]

Hit(u, x) == [u EXCEPT !.ent[x].hits = @ + 1]

Judge(g) ==
    LET x == t.act[g].x
        gone == t.now > t.ent[x].expires
        stale == Config(t).stale
    IN  /\ t.act[g].at = "judge"
        /\ Become(CASE gone /\ stale > 0 /\ t.now < t.ent[x].expires + stale ->
                         Finish(Hit(t, x), g)
                    [] gone /\ ~(stale > 0 /\ t.now < t.ent[x].expires + stale) ->
                         Goto(t, g, "remove")
                    [] OTHER -> Goto(Hit(t, x), g, "limit"))

SpentLate(u, x) == mix.puts[x].maxHits > 0 /\ u.ent[x].hits > mix.puts[x].maxHits

Spent(u, x) == mix.puts[x].maxHits > 0 /\ u.ent[x].hits >= mix.puts[x].maxHits

HitLimit(g) ==
    /\ t.act[g].at = "limit"
    /\ Become(IF Spent(t, t.act[g].x) THEN Goto(t, g, "remove") ELSE Finish(t, g))

-----------------------------------------------------------------------------
(* The sweep, the configuration and the clock. *)

(* evictLoop's tick: evictExpired reads the clock once, then walks. *)
Sweep ==
    /\ "sweep" \in mix.may
    /\ t.act["sweeper"].at = "idle"
    /\ Become([t EXCEPT !.act["sweeper"].at = "walk", !.act["sweeper"].seq = t.now,
                        !.act["sweeper"].todo = SetToSeq(Used)])

SweepWalk ==
    LET sw == t.act["sweeper"]
    IN  /\ sw.at = "walk"
        /\ Become(IF sw.todo = <<>> THEN Finish(t, "sweeper")
                  ELSE Visit(t, "sweeper", LAMBDA x : sw.seq > t.ent[x].expires))

UpdateConfig ==
    /\ t.cfg < Len(mix.cfg)
    /\ Become([t EXCEPT !.cfg = @ + 1])

Tick ==
    /\ "tick" \in mix.may
    /\ t.now < MaxTime
    /\ Become([t EXCEPT !.now = @ + 1])

Init ==
    /\ mix \in Mixes
    /\ t = NewCache(mix)

Next ==
    \/ \E p \in Puts : \/ Start(p)
                       \/ PutEntry(p)
                       \/ Transform(p)
                       \/ Swap(p)
                       \/ Replace(p)
                       \/ Recheck(p)
    \/ \E g \in Gets : Lookup(g) \/ Judge(g) \/ HitLimit(g)
    \/ \E a \in Purgers : MarkPurged(a) \/ RaiseMark(a) \/ PurgeWalk(a)
    \/ \E a \in Actors : Retire(a) \/ Unlink(a)
    \/ EvictCollect
    \/ EvictWalk
    \/ EvictRecheck
    \/ Sweep
    \/ SweepWalk
    \/ UpdateConfig
    \/ Tick

Spec == Init /\ [][Next]_vars

-----------------------------------------------------------------------------
(* The shape of the cache's state: nobody holds an entry that was never    *)
(* made, and the totals never go below zero.                               *)
TypeOK ==
    /\ t.map \in [Keys -> DOMAIN mix.puts \union {None}]
    /\ \A a \in Actors : t.act[a].x \in DOMAIN mix.puts \union {None}
    /\ t.bytes \in Nat /\ t.entries \in Nat
    /\ t.transforms \in 0 .. MaxTransforms
    /\ t.checks \in Nat /\ t.evicting \in BOOLEAN

Live == {p \in Puts : t.ent[p].counted /\ ~t.ent[p].deleted}

(* storeEntry, retireEntry: the totals are those of the live entries, a    *)
(* live entry is in the map under its key or about to be put there, a      *)
(* replaced one about to be retired, and a deleted entry still in the map  *)
(* has a remover on its way to unlink it.  Nothing is counted twice,       *)
(* forgotten, or unlinked by a remover of an older entry.                  *)
TotalsExact ==
    /\ t.entries = Cardinality(Live)
    /\ t.bytes = MapThenSumSet(Cost, Live)
    /\ \A p \in Live : \/ t.map[KeyOf(p)] = p
                       \/ t.act[p].at = "swap"
                       \/ \E q \in Puts : t.act[q].at = "replace" /\ t.act[q].x = p
    /\ \A k \in Stored(t) : t.ent[t.map[k]].deleted =>
           \E a \in Actors : t.act[a].at = "unlink" /\ t.act[a].x = t.map[k]
    /\ t.transforms = Cardinality({p \in DOMAIN mix.puts :
           Deferred(p) /\ t.act[p].at \notin {"idle", "fetch", "done"}})

(* markPurged, purgedSince: once a purge has raised its mark, an entry     *)
(* fetched before the purge began stays in the cache only while its own    *)
(* store or that purge is still about to take it out.                      *)
PurgeHolds ==
    \A k \in Stored(t), a \in DOMAIN mix.purges :
        LET x == t.map[k]
        IN  /\ k \in mix.purges[a].keys
            /\ t.act[a].at \notin {"idle", "raise"}
            /\ t.act[a].seq > t.ent[x].gen
            /\ ~t.ent[x].deleted
            =>
                \/ t.act[x].at \in {"replace", "recheck", "remove"}
                \/ \E b \in Actors : t.act[b].x = x /\ t.act[b].at = "remove"
                \/ k \in ToSet(t.act[a].todo)

(* evictOldest, requestEviction: the cache is over its limits only while   *)
(* an eviction runs, one is about to look again, or a store has not yet    *)
(* compared the totals; no request is lost to an eviction that is ending.  *)
(* A configuration that was replaced is out of account: UpdateConfig       *)
(* leaves the entries as they are.                                         *)
OverflowDriven ==
    t.cfg = 1 /\ OverCapacity(t, Config(t)) =>
        \/ t.evicting
        \/ t.checks > 0
        \/ \E p \in Puts : t.act[p].at \in {"swap", "replace", "recheck", "remove"}

(* lookupEntry: an entry that is still fresh and has had its maxHits hits  *)
(* is being removed by one of the lookups that hit it.                     *)
SpentEntriesGo ==
    \A k \in Stored(t) :
        LET x == t.map[k]
        IN  mix.puts[x].maxHits > 0 /\ t.ent[x].hits >= mix.puts[x].maxHits
              /\ ~t.ent[x].deleted /\ t.now <= t.ent[x].expires =>
                \E g \in Gets : t.act[g].x = x /\ t.act[g].at \in {"limit", "remove"}

(* inflateCacheEntry, compressGzip, ServeCached: whatever copy of a stored *)
(* body a client is given, its Content-Encoding names the codings the body *)
(* really has, also when the backend's coding is unknown or broken.        *)
LabelsMatch ==
    \A k \in Stored(t), takesGzip \in BOOLEAN :
        LET r == Served(t.ent[t.map[k]], takesGzip) IN r.labels = r.coding
=============================================================================
