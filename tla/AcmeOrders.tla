----------------------------- MODULE AcmeOrders -----------------------------
(***************************************************************************)
(* Ordering a certificate for one managed name (acme.go): the goroutines   *)
(* that order it, the HTTP-01 challenge served from memory or from disk    *)
(* meanwhile, the Certbot-style lineage written file by file, and what a   *)
(* restart loads of it.  An integration can be replaced while its          *)
(* goroutines are at work (EnableACME) and a name added before the first   *)
(* pass over the names (AddACMEDomain), so two goroutines can order the    *)
(* same name.  The certificate authority answers as it likes; an order's   *)
(* number stands for its token, its key and its certificate.  Of the four  *)
(* files of a lineage the two that are read back are modelled.             *)
(***************************************************************************)
EXTENDS Naturals, FiniteSets, FiniteSetsExt

CONSTANTS Workers,    \* goroutines
          Mixes,      \* which of "replace", "add", "renew", "crash", "io" may happen
          MaxOrders   \* bound on the orders ever made

VARIABLES ai,       \* for each integration: names managed, first pass made, stop closed
          cur,      \* s.acme
          worker,   \* the goroutines
          mem,      \* challenges: for each integration the token held for the name, 0 for none
          tokens,   \* token files in the challenge directory
          arch,     \* archive: for each version the contents of fullchain and privkey, 0 for no file
          live,     \* live: the version each link points at, 0 for no link
          held,     \* the certificate registered for the name: its chain and its key
          orders,   \* orders made so far
          clean,    \* no two saves have overlapped since the last one that began alone
          saved,    \* whether the last save to end succeeded
          mix

vars == <<ai, cur, worker, mem, tokens, arch, live, held, orders, clean, saved, mix>>
disk == <<arch, live, clean, saved>>

Versions == 1 .. MaxOrders
Parts == {"full", "key"}
NoCert == [full |-> 0, key |-> 0]
NoFiles == [p \in Parts |-> 0]
Gone == [pc |-> "none", k |-> 1, renews |-> FALSE, n |-> 0, wrote |-> FALSE, v |-> 0, full |-> 0, left |-> {}, p |-> "full"]
Fresh(managed) == [managed |-> managed, primed |-> FALSE, stopped |-> FALSE]

Busy == {w \in Workers : worker[w].pc # "none"}
Idle == Workers \ Busy
Saving == {w \in Workers : worker[w].pc \in {"full", "key", "link", "linked"}}

Init == /\ mix \in Mixes
        /\ \E m \in BOOLEAN : ai = [k \in {1, 2} |-> Fresh(m /\ k = 1)]
        /\ cur = 1 /\ worker = [w \in Workers |-> Gone]
        /\ mem = [k \in {1, 2} |-> 0] /\ tokens = {}
        /\ arch = [v \in Versions |-> NoFiles] /\ live = [p \in Parts |-> 0]
        /\ held = NoCert /\ orders = 0 /\ clean = TRUE /\ saved = FALSE

Goes(w, pc) == worker' = [worker EXCEPT ![w].pc = pc]
Spawn(k, pc, renews) ==
  /\ Idle # {}
  /\ worker' = [worker EXCEPT ![CHOOSE w \in Idle : TRUE] =
                  [Gone EXCEPT !.pc = pc, !.k = k, !.renews = renews]]

---------------------------------------------------------------------------
(* Who starts ordering: runLoop's first pass, addDomain, and the renewals.   *)

(* initialObtainAll: the names managed by now are loaded or ordered. *)
PrimeInitial ==
  /\ ~ai[cur].primed /\ ai' = [ai EXCEPT ![cur].primed = TRUE]
  /\ IF ai[cur].managed THEN Spawn(cur, "load", FALSE) ELSE UNCHANGED worker
  /\ UNCHANGED <<cur, mem, tokens, disk, held, orders, mix>>

AddDomain ==
  /\ "add" \in mix /\ ~ai[cur].managed
  /\ ai' = [ai EXCEPT ![cur].managed = TRUE] /\ Spawn(cur, "load", FALSE)
  /\ UNCHANGED <<cur, mem, tokens, disk, held, orders, mix>>

(* renewAll orders again for a certificate that is due, one at a time. *)
Renew ==
  /\ "renew" \in mix /\ ai[cur].primed /\ held # NoCert
  /\ \A w \in Busy : ~(worker[w].renews /\ worker[w].k = cur)
  /\ Spawn(cur, "order", TRUE)
  /\ UNCHANGED <<ai, cur, mem, tokens, disk, held, orders, mix>>

(* replaceACME: the new integration is in place before the old one is told. *)
EnableACME ==
  /\ "replace" \in mix /\ cur = 1
  /\ cur' = 2 /\ ai' = [ai EXCEPT ![1].stopped = TRUE, ![2] = Fresh(TRUE)]
  /\ UNCHANGED <<worker, mem, tokens, disk, held, orders, mix>>

---------------------------------------------------------------------------
(* tryLoadCached: the chain, then the key, then whether they are a pair. *)

LoadChain(w) ==
  /\ worker[w].pc = "load"
  /\ worker' = [worker EXCEPT ![w].full = IF live["full"] = 0 THEN 0 ELSE arch[live["full"]].full,
                              ![w].pc = "load key"]
  /\ UNCHANGED <<ai, cur, mem, tokens, disk, held, orders, mix>>

IsPairAny(full, key) == full # 0 /\ key # 0
IsPair(full, key) == full # 0 /\ full = key

LoadKey(w) ==
  LET key == IF live["key"] = 0 THEN 0 ELSE arch[live["key"]].key
      ok == IsPair(worker[w].full, key)
  IN /\ worker[w].pc = "load key"
     /\ held' = IF ok THEN [full |-> worker[w].full, key |-> key] ELSE held
     /\ worker' = [worker EXCEPT ![w] = IF ok THEN Gone ELSE [@ EXCEPT !.pc = "order", !.full = 0]]
     /\ UNCHANGED <<ai, cur, mem, tokens, disk, orders, mix>>

---------------------------------------------------------------------------
(* obtain, and what its caller does when it fails: obtainWithRetry sleeps    *)
(* and tries again until it is stopped, a renewal is left to the schedule.   *)

FailsForGood(w) == [worker EXCEPT ![w] = Gone]
Fails(w) == [worker EXCEPT ![w] = IF @.renews THEN Gone
                                  ELSE [Gone EXCEPT !.pc = "sleep", !.k = worker[w].k]]

OrderFails(w) ==
  /\ worker[w].pc = "order" /\ worker' = Fails(w)
  /\ UNCHANGED <<ai, cur, mem, tokens, disk, held, orders, mix>>

(* domainPointsHere: a name that resolves elsewhere is not ordered, but      *)
(* obtainWithRetry looks again after a day; a renewal does not look.         *)
PointsElsewhere(w) ==
  /\ worker[w].pc = "order" /\ ~worker[w].renews /\ Goes(w, "sleep")
  /\ UNCHANGED <<ai, cur, mem, tokens, disk, held, orders, mix>>

Sleep(w) ==
  /\ worker[w].pc = "sleep"
  /\ worker' = [worker EXCEPT ![w] = IF ai[@.k].stopped THEN Gone ELSE [@ EXCEPT !.pc = "order"]]
  /\ UNCHANGED <<ai, cur, mem, tokens, disk, held, orders, mix>>

(* The authorization is valid already, and the challenge is skipped. *)
OrderReady(w) ==
  /\ worker[w].pc = "order" /\ orders < MaxOrders
  /\ orders' = orders + 1 /\ worker' = [worker EXCEPT ![w].pc = "ready", ![w].n = orders + 1]
  /\ UNCHANGED <<ai, cur, mem, tokens, disk, held, mix>>

(* The challenge goes to memory and to its file before it is accepted. *)
OfferChallenge(w, wrote) ==
  /\ worker[w].pc = "order" /\ orders < MaxOrders /\ (~wrote => "io" \in mix)
  /\ orders' = orders + 1 /\ mem' = [mem EXCEPT ![worker[w].k] = orders + 1]
  /\ tokens' = IF wrote THEN tokens \union {orders + 1} ELSE tokens
  /\ worker' = [worker EXCEPT ![w].pc = "accepted", ![w].n = orders + 1, ![w].wrote = wrote]
  /\ UNCHANGED <<ai, cur, disk, held, mix>>

ServedFromMemory(n) == mem[cur] = n
HandleHTTP01(n) == mem[cur] = n \/ n \in tokens

(* cleanupChallenge: by name in memory, by token on disk. *)
CleanupAll(w) == /\ mem' = [mem EXCEPT ![worker[w].k] = 0] /\ tokens' = {}
Cleanup(w) == /\ mem' = [mem EXCEPT ![worker[w].k] = 0] /\ tokens' = tokens \ {worker[w].n}

(* WaitAuthorization succeeds only if the authority fetched the challenge. *)
Authorized(w) ==
  /\ worker[w].pc = "accepted" /\ HandleHTTP01(worker[w].n)
  /\ Cleanup(w) /\ Goes(w, "ready")
  /\ UNCHANGED <<ai, cur, disk, held, orders, mix>>

ChallengeFails(w) ==
  /\ worker[w].pc = "accepted" /\ Cleanup(w) /\ worker' = Fails(w)
  /\ UNCHANGED <<ai, cur, disk, held, orders, mix>>

FinalizeFails(w) ==
  /\ worker[w].pc = "ready" /\ worker' = Fails(w)
  /\ UNCHANGED <<ai, cur, mem, tokens, disk, held, orders, mix>>

---------------------------------------------------------------------------
(* saveCertbotLineage: the next version is read from the directory, the      *)
(* files written, then each live link removed and made again in the order    *)
(* Go walks a map.  A failure anywhere leaves the rest undone.               *)

NextArchiveVersion == 1 + Max({0} \union {v \in Versions : arch[v] # NoFiles})

Finalized(w) ==
  /\ worker[w].pc = "ready" /\ NextArchiveVersion \in Versions
  /\ worker' = [worker EXCEPT ![w].pc = "full", ![w].v = NextArchiveVersion]
  /\ clean' = (Saving = {})
  /\ UNCHANGED <<ai, cur, mem, tokens, arch, live, saved, held, orders, mix>>

WriteArchive(w, p, next) ==
  /\ worker[w].pc = p
  /\ arch' = [arch EXCEPT ![worker[w].v][p] = worker[w].n]
  /\ worker' = [worker EXCEPT ![w].pc = next, ![w].left = Parts]
  /\ UNCHANGED <<ai, cur, mem, tokens, live, clean, saved, held, orders, mix>>

RemoveLink(w, p) ==
  /\ worker[w].pc = "link" /\ p \in worker[w].left
  /\ live' = [live EXCEPT ![p] = 0]
  /\ worker' = [worker EXCEPT ![w].pc = "linked", ![w].left = @ \ {p}, ![w].p = p]
  /\ UNCHANGED <<ai, cur, mem, tokens, arch, clean, saved, held, orders, mix>>

Saved(w, ok) == /\ saved' = ok
                /\ worker' = [worker EXCEPT ![w].pc = "install", ![w].left = {}, ![w].p = "full", ![w].v = 0]

SymlinkFirstOnly(w) ==
  /\ worker[w].pc = "linked" /\ live' = [live EXCEPT ![worker[w].p] = worker[w].v] /\ Saved(w, TRUE)
  /\ UNCHANGED <<ai, cur, mem, tokens, arch, clean, held, orders, mix>>

(* os.Symlink fails when another goroutine has made the link meanwhile. *)
Symlink(w) ==
  LET p == worker[w].p
  IN /\ worker[w].pc = "linked"
     /\ IF live[p] # 0 THEN Saved(w, FALSE) /\ UNCHANGED live
        ELSE /\ live' = [live EXCEPT ![p] = worker[w].v]
             /\ IF worker[w].left = {} THEN Saved(w, TRUE) ELSE Goes(w, "link") /\ UNCHANGED saved
     /\ UNCHANGED <<ai, cur, mem, tokens, arch, clean, held, orders, mix>>

SaveFails(w) ==
  /\ w \in Saving /\ "io" \in mix /\ Saved(w, FALSE)
  /\ UNCHANGED <<ai, cur, mem, tokens, arch, live, clean, held, orders, mix>>

(* The certificate is registered whether or not it was saved. *)
Install(w) ==
  /\ worker[w].pc = "install"
  /\ held' = [full |-> worker[w].n, key |-> worker[w].n]
  /\ worker' = [worker EXCEPT ![w] = Gone]
  /\ UNCHANGED <<ai, cur, mem, tokens, disk, orders, mix>>

(* The process ends; the next one manages the name and finds only the disk. *)
Crash ==
  /\ "crash" \in mix /\ mix' = mix \ {"crash", "replace"}
  /\ worker' = [w \in Workers |-> Gone] /\ mem' = [k \in {1, 2} |-> 0]
  /\ held' = NoCert /\ cur' = 1 /\ ai' = [k \in {1, 2} |-> Fresh(k = 1)]
  /\ saved' = (saved /\ Saving = {})
  /\ UNCHANGED <<tokens, arch, live, clean, orders>>

Next == \/ PrimeInitial \/ AddDomain \/ Renew \/ EnableACME \/ Crash
        \/ \E w \in Workers : \/ LoadChain(w) \/ LoadKey(w) \/ OrderFails(w) \/ PointsElsewhere(w) \/ Sleep(w) \/ OrderReady(w)
                              \/ Authorized(w) \/ ChallengeFails(w) \/ FinalizeFails(w) \/ Finalized(w)
                              \/ WriteArchive(w, "full", "key") \/ WriteArchive(w, "key", "link")
                              \/ Symlink(w) \/ SaveFails(w) \/ Install(w)
        \/ \E w \in Workers, wrote \in BOOLEAN : OfferChallenge(w, wrote)
        \/ \E w \in Workers, p \in Parts : RemoveLink(w, p)

Spec == Init /\ [][Next]_vars

---------------------------------------------------------------------------
(* The types of the files, links and goroutines. *)
TypeOK == /\ cur \in {1, 2} /\ mem \in [{1, 2} -> 0 .. MaxOrders] /\ tokens \subseteq 1 .. MaxOrders
          /\ live \in [Parts -> 0 .. MaxOrders] /\ arch \in [Versions -> [Parts -> 0 .. MaxOrders]]
          /\ \A w \in Workers : worker[w].k \in {1, 2} /\ worker[w].left \subseteq Parts

(* The certificate a handshake is answered with always has its own key: what *)
(* tryLoadCached registers after a crash in the middle of a save, or while   *)
(* another goroutine is saving, is never a chain of one order and the key of *)
(* another (acme.go:488-520).                                                *)
HeldIsAPair == held.full = held.key

(* While the authority may come for a challenge, HandleHTTP01 has it         *)
(* (acme.go:331-366): neither a second order for the name, whose token takes *)
(* its place in memory and whose cleanup empties it, nor a new integration   *)
(* with a memory of its own loses a challenge whose file was written.        *)
ChallengeServed == \A w \in Workers : worker[w].pc = "accepted" /\ worker[w].wrote => HandleHTTP01(worker[w].n)

(* A save that succeeded, with no other beside it, left a lineage the next   *)
(* start loads, whatever half-written versions and links an earlier crash or *)
(* failure had left (saveCertbotLineage, acme.go:602-649).                   *)
LineageLoads == saved /\ clean /\ Saving = {} =>
                  /\ \A p \in Parts : live[p] # 0
                  /\ IsPair(arch[live["full"]].full, arch[live["key"]].key)

(* "retried ... indefinitely" (CHANGELOG.md:98): a name that is managed and  *)
(* has no certificate always has a goroutine that will order it, or the      *)
(* first pass still to come, however many orders and saves have failed.      *)
ObtainDriven == ai[cur].managed /\ held = NoCert /\ ~ai[cur].stopped =>
                  ~ai[cur].primed \/ \E w \in Busy : worker[w].k = cur
=============================================================================
