---------------------------- MODULE StaticCache ----------------------------
(***************************************************************************)
(* The cache behind Static (static_fast.go, static_compress.go): entries   *)
(* published, renewed, replaced and evicted without a lock, open files     *)
(* shared by counting their users, and compressed variants built in the    *)
(* background.  A file is replaced by renaming another over it; a request  *)
(* takes no time against the time to live.                                 *)
(***************************************************************************)
EXTENDS Integers, Sequences, FiniteSets, FiniteSetsExt

CONSTANTS Keys, Reqs,
          MaxVersion, MaxObjs, MaxSlots,  \* bounds on versions of a file, entries and slots ever made
          DataCost, BareCost, VariantCost,\* staticCacheEntryCost with and without data, staticVariants.cost
          MaxBytes, MaxFDs, TTL, MaxTime,
          QueueSize,                      \* staticCompressQueueSize
          Together,                       \* bound on the requests under way at once
          Mixes                           \* per behaviour: what each request asks, and whether files change

VARIABLES t, mix

vars == <<t, mix>>

Retired == -1      \* staticFDRetired
NoFD == 0
NoReq == [at |-> "new", e |-> 0, v |-> 0, old |-> 0, then |-> "", h |-> 0, raw |-> FALSE, slot |-> 0]

Init == /\ mix \in Mixes
        /\ t = [ver |-> [k \in Keys |-> 1], was |-> [k \in Keys |-> <<0>>], changed |-> [k \in Keys |-> -1], now |-> 0,
                entries |-> [k \in Keys |-> 0], obj |-> <<>>, slots |-> [k \in Keys |-> 0], slot |-> <<>>,
                refs |-> [r \in Reqs |-> 0], isOpen |-> [r \in Reqs |-> FALSE],
                bytes |-> 0, fds |-> 0, queue |-> <<>>, compressing |-> FALSE, builder |-> "off", job |-> <<0, 0, 0>>,
                req |-> [r \in Reqs |-> [NoReq EXCEPT !.at = IF r \in DOMAIN mix.asks THEN "new" ELSE "done"]], stale |-> FALSE]

Become(s) == t' = s /\ UNCHANGED mix
Asked(r) == mix.asks[r]                \* key, plain, enc
At(r, at) == t.req[r].at = at
To(s, r, at) == [s EXCEPT !.req[r].at = at]
Cost(o) == IF o.data THEN DataCost ELSE BareCost
Live(fd) == fd \notin {NoFD, Retired}

(* staticFD.tryAcquire, release *)
TryAcquire(s, h) == [s EXCEPT !.refs[h] = @ + 1]
Alive(s, h) == s.refs[h] > 0
ReleaseFD(s, h) == [s EXCEPT !.refs[h] = @ - 1, !.isOpen[h] = @ /\ s.refs[h] # 1]

(* The request has its answer: version v of its file. *)
LastTime(s, k, v) == IF s.ver[k] = v THEN s.now ELSE s.was[k][v]
Answer(s, r, v) == [s EXCEPT !.req[r] = [NoReq EXCEPT !.at = "done"],
                             !.stale = @ \/ s.now - LastTime(s, Asked(r).k, v) > TTL]

---------------------------------------------------------------------------
(* fresh, servesWithoutOpen, lookup: what needs no open file. *)

Fresh(r) ==
  LET e == t.entries[Asked(r).k]
  IN /\ At(r, "new") /\ (\A q \in 1 .. r - 1 : ~At(q, "new"))
     /\ Cardinality({q \in Reqs : t.req[q].at \notin {"new", "done"}}) < Together
     /\ IF e # 0 /\ t.now < t.obj[e].until
        THEN Become([t EXCEPT !.req[r].e = e, !.req[r].at = "variant", !.req[r].then = "probe"])
        ELSE Become(To(t, r, "probe"))

Probe(r) ==
  LET k == Asked(r).k
      e == t.entries[k]
      without == e # 0 /\ (IF Asked(r).plain THEN Live(t.obj[e].fd) ELSE t.obj[e].data)
  IN /\ At(r, "probe")
     /\ IF ~without THEN Become(To(t, r, "open"))
        ELSE Become([t EXCEPT !.req[r].v = t.ver[k], !.req[r].at = "lookup", !.req[r].then = "open"])

(* openBeneath with the file: it stays what was opened. *)
Open(r) ==
  LET k == Asked(r).k
  IN /\ At(r, "open")
     /\ Become([t EXCEPT !.req[r].v = t.ver[k], !.req[r].raw = TRUE, !.isOpen[r] = TRUE,
                           !.req[r].at = "lookup", !.req[r].then = "fill"])

(* lookup *)
Renew(s, e) == [s EXCEPT !.obj[e].until = s.now + TTL]
SameFileAlways(o, v) == TRUE
SameFile(o, v) == o.ver = v
Lookup(r) ==
  LET k == Asked(r).k
      e == t.entries[k]
      q == t.req[r]
  IN /\ At(r, "lookup")
     /\ CASE e = 0 -> Become([t EXCEPT !.req[r].e = 0, !.req[r].at = q.then])
          [] SameFile(t.obj[e], q.v) ->
               Become([Renew(t, e) EXCEPT !.req[r].e = e, !.req[r].at = IF q.then = "fill" THEN "fill" ELSE "variant"])
          [] OTHER -> Become([t EXCEPT !.req[r].e = 0, !.req[r].old = e, !.req[r].at = "drop"])

(* drop: only whoever takes the entry out of the map retires it. *)
DropAnyway(r) == At(r, "drop") /\ Become([t EXCEPT !.entries[Asked(r).k] = 0, !.req[r].at = "retire"])
Drop(r) ==
  LET k == Asked(r).k
  IN /\ At(r, "drop")
     /\ IF t.entries[k] = t.req[r].old THEN Become([t EXCEPT !.entries[k] = 0, !.req[r].at = "retire"])
        ELSE Become([t EXCEPT !.req[r].old = 0, !.req[r].at = t.req[r].then])

---------------------------------------------------------------------------
(* retire: the bytes, the variants of this version, the open file. *)

CurrentVersion(s, o) == s.entries[o.key] # 0 /\ s.obj[s.entries[o.key]].ver = o.ver

RetireSlot(s, i) == [s EXCEPT !.slot[i].state = "retired", !.bytes = @ - (IF s.slot[i].state = "built" THEN VariantCost ELSE 0)]
DropSlot(s, k, i) == IF s.slots[k] = i THEN RetireSlot([s EXCEPT !.slots[k] = 0], i) ELSE s

RetireBytes(r) ==
  LET o == t.obj[t.req[r].old]
  IN At(r, "retire") /\ Become([t EXCEPT !.bytes = @ - Cost(o), !.req[r].at = "retire variants"])

RetireVariants(r) ==
  LET o == t.obj[t.req[r].old]
      i == t.slots[o.key]
  IN /\ At(r, "retire variants")
     /\ Become(To(IF ~CurrentVersion(t, o) /\ i # 0 /\ t.slot[i].ver = o.ver THEN DropSlot(t, o.key, i) ELSE t, r, "retire fd"))

RetireFDKeeps(s, e) == [s EXCEPT !.obj[e].fd = Retired]
RetireFD(s, e) == LET h == s.obj[e].fd
                      u == [s EXCEPT !.obj[e].fd = Retired]
                  IN IF Live(h) THEN ReleaseFD([u EXCEPT !.fds = @ - 1], h) ELSE u

RetireFile(r) == /\ At(r, "retire fd")
                 /\ Become([RetireFD(t, t.req[r].old) EXCEPT !.req[r].old = 0,
                              !.req[r].at = IF t.req[r].then = "filled" THEN "variant" ELSE t.req[r].then])

---------------------------------------------------------------------------
(* lookupOrFill, reserve and reserveFree, publish. *)

NewEntry(s, r) == [key |-> Asked(r).k, ver |-> s.req[r].v, data |-> ~Asked(r).plain, fd |-> Retired, until |-> s.now + TTL, slot |-> 0]

Served(s, r) == [s EXCEPT !.req[r].at = "variant", !.req[r].then = "filled"]
Settled(s, k) == s.now > s.changed[k]
Fill(r) ==
  LET q == t.req[r]
      cost == IF Asked(r).plain THEN BareCost ELSE DataCost
      fits == t.bytes + cost <= MaxBytes
      made == [t EXCEPT !.obj = Append(@, NewEntry(t, r)), !.req[r].e = Len(t.obj) + 1]
  IN /\ At(r, "fill") /\ Len(t.obj) < MaxObjs
     /\ CASE q.e # 0 /\ (t.obj[q.e].data \/ Asked(r).plain) -> Become(Served(t, r))
          [] ~Settled(t, Asked(r).k) -> Become(To(t, r, "own"))
          [] fits -> Become([made EXCEPT !.bytes = @ + cost, !.req[r].at = "publish"])
          [] Asked(r).plain -> Become(To(t, r, "own"))
          [] OTHER -> Become(To(t, r, "evict"))

(* evict, and try again; with nothing to evict the entry serves this request *)
(* alone.                                                                    *)
Evict(r) ==
  /\ At(r, "evict")
  /\ \/ \E k \in Keys : /\ t.entries[k] # 0
                        /\ Become([t EXCEPT !.entries[k] = 0, !.req[r].old = t.entries[k], !.req[r].at = "retire", !.req[r].then = "fill"])
     \/ /\ \A k \in Keys : t.entries[k] = 0
        /\ Become([t EXCEPT !.obj = Append(@, NewEntry(t, r)), !.req[r].e = Len(t.obj) + 1, !.req[r].at = "variant", !.req[r].then = "filled"])

Publish(r) ==
  LET k == Asked(r).k
      u == [t EXCEPT !.obj[t.req[r].e].fd = NoFD, !.entries[k] = t.req[r].e]
  IN /\ At(r, "publish")
     /\ Become(IF t.entries[k] = 0 THEN Served(u, r)
               ELSE [u EXCEPT !.req[r].old = t.entries[k], !.req[r].then = "filled", !.req[r].at = "retire"])

---------------------------------------------------------------------------
(* serveEntry, attachFD, serveFD: data, a shared open file, or its own. *)

CloseRaw(s, r) == IF s.req[r].raw THEN [s EXCEPT !.isOpen[r] = FALSE, !.req[r].raw = FALSE] ELSE s
Otherwise(q) == IF q.then = "probe" THEN "probe" ELSE IF q.raw THEN "own" ELSE "open"

ServeEntry(r) ==
  LET q == t.req[r]
      o == t.obj[q.e]
  IN /\ At(r, "entry")
     /\ CASE Asked(r).plain /\ Live(o.fd) /\ Alive(t, o.fd) ->
               Become([TryAcquire(t, o.fd) EXCEPT !.req[r].h = o.fd, !.req[r].at = "sending"])
          [] o.data -> Become(Answer(CloseRaw(t, r), r, o.ver))
          [] OTHER -> Become(To(t, r, Otherwise(q)))

(* attachFD *)
Attach(r) ==
  LET o == t.obj[t.req[r].e]
  IN /\ At(r, "attach")
     /\ CASE Live(o.fd) /\ Alive(t, o.fd) ->
               Become([CloseRaw(TryAcquire(t, o.fd), r) EXCEPT !.req[r].h = o.fd, !.req[r].at = "sending"])
          [] o.fd # NoFD -> Become(To(t, r, "own"))
          [] t.fds >= MaxFDs -> Become(To(t, r, "own"))
          [] OTHER -> Become([t EXCEPT !.fds = @ + 1, !.req[r].at = "swap"])

AttachSwapBlind(r) ==
  At(r, "swap") /\ Become([t EXCEPT !.obj[t.req[r].e].fd = r, !.refs[r] = 2, !.req[r].raw = FALSE, !.req[r].h = r, !.req[r].at = "sending"])
AttachSwap(r) ==
  LET e == t.req[r].e
  IN /\ At(r, "swap")
     /\ IF t.obj[e].fd = NoFD
        THEN Become([t EXCEPT !.obj[e].fd = r, !.refs[r] = 2, !.req[r].raw = FALSE, !.req[r].h = r, !.req[r].at = "sending"])
        ELSE Become([t EXCEPT !.fds = @ - 1, !.req[r].at = "own"])

Sent(r) == At(r, "sending") /\ Become(Answer(CloseRaw(ReleaseFD(t, t.req[r].h), r), r, t.obj[t.req[r].e].ver))
ServeOwn(r) == At(r, "own") /\ Become(Answer(CloseRaw(t, r), r, t.req[r].v))

---------------------------------------------------------------------------
(* negotiateVariant, slotFor, requestVariants *)

AfterVariants(r) == IF t.req[r].then = "filled" /\ Asked(r).plain THEN "attach" ELSE "entry"

Variant(r) ==
  LET o == t.obj[t.req[r].e]
  IN /\ At(r, "variant")
     /\ CASE ~Asked(r).enc \/ (o.slot = 0 /\ ~CurrentVersion(t, o)) -> Become(To(t, r, AfterVariants(r)))
          [] o.slot # 0 -> Become([t EXCEPT !.req[r].slot = o.slot, !.req[r].at = "state"])
          [] OTHER -> Become(To(t, r, "slot for"))

SlotFor(r) ==
  LET e == t.req[r].e
      k == t.obj[e].key
      i == t.slots[k]
      new == Len(t.slot) + 1
      made == [t EXCEPT !.slot = Append(@, [ver |-> t.obj[e].ver, state |-> "none yet"]), !.slots[k] = new,
                        !.req[r].slot = new, !.req[r].at = "slot made"]
  IN /\ At(r, "slot for")
     /\ IF i # 0 /\ t.slot[i].ver = t.obj[e].ver
        THEN Become([t EXCEPT !.obj[e].slot = i, !.req[r].slot = i, !.req[r].at = "state"])
        ELSE new <= MaxSlots /\ Become(IF i = 0 THEN made ELSE RetireSlot(made, i))

(* The entry may have left the map while its slot went in. *)
SlotStays(r) == At(r, "slot made") /\ Become([t EXCEPT !.obj[t.req[r].e].slot = t.req[r].slot, !.req[r].at = "state"])
SlotMade(r) ==
  LET q == t.req[r]
      o == t.obj[q.e]
  IN /\ At(r, "slot made")
     /\ Become(IF CurrentVersion(t, o) THEN [t EXCEPT !.obj[q.e].slot = q.slot, !.req[r].at = "state"]
               ELSE To(DropSlot(t, o.key, q.slot), r, AfterVariants(r)))

SlotState(r) ==
  LET q == t.req[r]
      o == t.obj[q.e]
      st == t.slot[q.slot].state
      needsFD == ~o.data
      job == <<q.e, q.slot, IF needsFD THEN o.fd ELSE 0>>
      on == To(t, r, AfterVariants(r))
  IN /\ At(r, "state")
     /\ CASE st = "built" -> Become(Answer(CloseRaw(t, r), r, t.slot[q.slot].ver))
          [] st = "retired" -> Become([on EXCEPT !.obj[q.e].slot = 0])
          [] st # "none yet" -> Become(on)
          [] needsFD /\ ~(Live(o.fd) /\ Alive(t, o.fd)) -> Become(on)
          [] Len(t.queue) >= QueueSize -> Become(on)
          [] OTHER -> Become([(IF needsFD THEN TryAcquire(on, o.fd) ELSE on) EXCEPT
                                !.slot[q.slot].state = "building", !.queue = Append(@, job), !.req[r].at = "spawn"])

Spawn(r) ==
  /\ At(r, "spawn")
  /\ Become(To(IF t.compressing THEN t ELSE [t EXCEPT !.compressing = TRUE, !.builder = "draining"], r, AfterVariants(r)))

(* drainCompressQueue, buildVariants: a worker that finds compressing set    *)
(* again when it looks once more leaves the queue to the one that set it.    *)
TakeJob == /\ t.builder = "draining" /\ t.queue # <<>>
           /\ Become([t EXCEPT !.job = Head(t.queue), !.queue = Tail(@), !.builder = "building"])

BuildVariants ==
  LET e == t.job[1]
      i == t.job[2]
      h == t.job[3]
      u == [(IF h # 0 THEN ReleaseFD(t, h) ELSE t) EXCEPT !.builder = "draining", !.job = <<0, 0, 0>>]
  IN /\ t.builder = "building"
     /\ \E smaller \in BOOLEAN :
          CASE t.slot[i].state # "building" -> Become(u)
            [] ~smaller \/ t.bytes + VariantCost > MaxBytes -> Become([u EXCEPT !.slot[i].state = "none"])
            [] OTHER -> Become([u EXCEPT !.slot[i].state = "built", !.bytes = @ + VariantCost])

QueueEmpty == t.builder = "draining" /\ t.queue = <<>> /\ Become([t EXCEPT !.builder = "emptied"])
StopCompressing == t.builder = "emptied" /\ Become([t EXCEPT !.compressing = FALSE, !.builder = "recheck"])
RecheckNever == t.builder = "recheck" /\ Become([t EXCEPT !.builder = "off"])
Recheck == /\ t.builder = "recheck"
           /\ Become(IF t.queue = <<>> THEN [t EXCEPT !.builder = "off"]
                     ELSE [t EXCEPT !.compressing = TRUE, !.builder = "draining"])

---------------------------------------------------------------------------
(* The file system and time. *)
Idle == \A r \in Reqs : t.req[r].at \in {"new", "done"}

Replace(k) ==
  /\ mix.change /\ t.ver[k] < MaxVersion /\ \E r \in DOMAIN mix.asks : Asked(r).k = k /\ ~At(r, "done")
  /\ Become([t EXCEPT !.ver[k] = @ + 1, !.was[k] = Append([@ EXCEPT ![t.ver[k]] = t.now], t.now), !.changed[k] = t.now])
Tick == mix.change /\ Idle /\ (\E r \in Reqs : At(r, "new")) /\ t.now < MaxTime /\ Become([t EXCEPT !.now = @ + 1])

Next == \/ \E r \in Reqs : \/ Fresh(r) \/ Probe(r) \/ Open(r) \/ Lookup(r) \/ Drop(r)
                           \/ RetireBytes(r) \/ RetireVariants(r) \/ RetireFile(r) \/ Fill(r) \/ Evict(r) \/ Publish(r)
                           \/ ServeEntry(r) \/ Attach(r) \/ AttachSwap(r) \/ Sent(r) \/ ServeOwn(r)
                           \/ Variant(r) \/ SlotFor(r) \/ SlotMade(r) \/ SlotState(r) \/ Spawn(r)
        \/ TakeJob \/ BuildVariants \/ QueueEmpty \/ StopCompressing \/ Recheck
        \/ \E k \in Keys : Replace(k)
        \/ Tick

Spec == Init /\ [][Next]_vars

---------------------------------------------------------------------------
Mapped == {t.entries[k] : k \in Keys} \ {0}
Slotted == {t.slots[k] : k \in Keys} \ {0}
Quiet == Idle /\ t.builder = "off"

(* Counters stay counters. *)
TypeOK == t.bytes >= 0 /\ t.fds \in 0 .. MaxFDs + Cardinality(Reqs) /\ \A r \in Reqs : t.refs[r] >= 0

(* Every user of a shared open file is counted, so that it is open while one *)
(* is left and closed with the last (attachFD, retire, staticFD.release).    *)
Users(h) == Cardinality({e \in DOMAIN t.obj : t.obj[e].fd = h}) + Cardinality({r \in Reqs : t.req[r].h = h})
              + Cardinality({i \in DOMAIN t.queue : t.queue[i][3] = h}) + (IF t.job[3] = h THEN 1 ELSE 0)
OpenWhileUsed == \A h \in Reqs : /\ t.refs[h] = Users(h)
                                 /\ t.isOpen[h] = (t.refs[h] > 0 \/ t.req[h].raw)

(* When no request is under way, what the cache counts is what it holds: the *)
(* entries in the map, the variants built for them and the files open, all   *)
(* within the limits, and no variants are kept for a file that is no longer  *)
(* cached (reserve, publish, retireVariants, slotFor).                       *)
HoldsWhatItCounts ==
  Quiet => /\ t.bytes = MapThenSumSet(LAMBDA e : Cost(t.obj[e]), Mapped)
                          + VariantCost * Cardinality({i \in Slotted : t.slot[i].state = "built"})
           /\ t.bytes <= MaxBytes /\ t.fds <= MaxFDs
           /\ t.fds = Cardinality({e \in Mapped : Live(t.obj[e].fd)})
           /\ {h \in Reqs : t.isOpen[h]} = {t.obj[e].fd : e \in Mapped} \intersect Reqs
           /\ \A k \in Keys : t.slots[k] # 0 => t.entries[k] # 0 /\ t.obj[t.entries[k]].ver = t.slot[t.slots[k]].ver

(* A job that was queued is built: when nobody works on the queue it is      *)
(* empty (requestVariants, drainCompressQueue).                              *)
JobsDriven == t.queue # <<>> => t.builder # "off" \/ \E r \in Reqs : At(r, "spawn")

(* A file is never served more than the time to live after it was replaced   *)
(* (fresh, lookup, renew).                                                   *)
NeverStale == ~t.stale
=============================================================================
