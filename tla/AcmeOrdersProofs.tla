-------------------------- MODULE AcmeOrdersProofs --------------------------
(***************************************************************************)
(* Theorems about AcmeOrders, for any number of goroutines and of orders:  *)
(* what a handshake is answered with, what HandleHTTP01 serves and what a  *)
(* restart loads, with crashes and failed writes anywhere in a save.       *)
(***************************************************************************)
EXTENDS AcmeOrders, TLAPS

SavingAt == {"full", "key", "link", "linked"}
Ordered == {"accepted", "ready", "install"} \cup SavingAt
Places == {"none", "load", "load key", "order", "sleep"} \cup Ordered

Goroutines ==
  [pc : Places, k : {1, 2}, renews : BOOLEAN, n : 0 .. MaxOrders, wrote : BOOLEAN,
   v : 0 .. MaxOrders, full : 0 .. MaxOrders, left : SUBSET Parts, p : Parts]

Integrations == [managed : BOOLEAN, primed : BOOLEAN, stopped : BOOLEAN]

\* The types of all variables but mix.
TypeInv ==
  /\ ai \in [{1, 2} -> Integrations] /\ cur \in {1, 2}
  /\ worker \in [Workers -> Goroutines]
  /\ mem \in [{1, 2} -> 0 .. MaxOrders] /\ tokens \subseteq 1 .. MaxOrders
  /\ arch \in [Versions -> [Parts -> 0 .. MaxOrders]]
  /\ live \in [Parts -> 0 .. MaxOrders]
  /\ held \in [full : 0 .. MaxOrders, key : 0 .. MaxOrders]
  /\ orders \in 0 .. MaxOrders /\ clean \in BOOLEAN /\ saved \in BOOLEAN

\* An order has a number of its own, and a save a version.
NumberInv ==
  /\ \A w \in Workers : worker[w].pc \in Ordered => worker[w].n \in 1 .. orders
  /\ \A w, u \in Workers : w # u /\ worker[w].pc \in Ordered /\ worker[u].pc \in Ordered
                             => worker[w].n # worker[u].n
  /\ \A w \in Workers : worker[w].pc \in SavingAt => worker[w].v \in Versions

\* A challenge whose file was written is on disk until its order cleans up.
TokenInv == \A w \in Workers : worker[w].pc = "accepted" /\ worker[w].wrote => worker[w].n \in tokens

\* What goroutine w has done of its save, which no other overlaps.
SaveStage(w) ==
  LET me == worker[w]
  IN  /\ \A u \in Workers : worker[u].pc \in SavingAt => u = w
      /\ me.pc # "full" => arch[me.v]["full"] = me.n
      /\ me.pc \in {"link", "linked"} => arch[me.v]["key"] = me.n
      /\ me.pc = "link" => \A q \in Parts : q \notin me.left => live[q] = me.v
      /\ me.pc = "linked" => \A q \in Parts : q \notin me.left /\ q # me.p => live[q] = me.v

SaveInv == clean => \A w \in Workers : worker[w].pc \in SavingAt => SaveStage(w)

\* A renewal is of a certificate that is registered.
RenewInv == \A w \in Workers : worker[w].renews => held # NoCert

OrdersInv ==
  /\ TypeInv /\ NumberInv /\ TokenInv /\ SaveInv /\ RenewInv
  /\ HeldIsAPair /\ LineageLoads /\ ObtainDriven

---------------------------------------------------------------------------
(* What a step of one goroutine leaves of each part of the invariant.        *)

\* One goroutine moves.
LEMMA Moves ==
  ASSUME worker \in [Workers -> Goroutines], NEW w \in Workers, NEW x \in Goroutines,
         worker' = [worker EXCEPT ![w] = x]
  PROVE  /\ worker' \in [Workers -> Goroutines] /\ worker'[w] = x
         /\ \A u \in Workers : u # w => worker'[u] = worker[u]
  BY Zenon

\* An order keeps its number, or takes the next one.
LEMMA NumberStep ==
  ASSUME MaxOrders \in Nat, TypeInv, NumberInv, NEW w \in Workers, NEW x \in Goroutines,
         worker' = [worker EXCEPT ![w] = x],
         \/ orders' = orders /\ (x.pc \in Ordered => worker[w].pc \in Ordered /\ x.n = worker[w].n)
         \/ orders' = orders + 1 /\ x.n = orders + 1,
         x.pc \in SavingAt => x.v \in Versions
  PROVE  NumberInv'
<1>1. /\ worker'[w] = x /\ \A u \in Workers : u # w => worker'[u] = worker[u]
      /\ orders \in Nat
  BY Moves DEF TypeInv
<1>2. \A u \in Workers : worker[u].n \in Nat
  BY DEF TypeInv, Goroutines
<1>3. orders' \in Nat /\ orders <= orders'
  BY <1>1
<1>4. ASSUME NEW u \in Workers, worker'[u].pc \in Ordered
      PROVE  /\ worker'[u].n \in 1 .. orders'
             /\ \A r \in Workers : r # u /\ worker'[r].pc \in Ordered => worker'[r].n # worker'[u].n
  <2>1. \A r \in Workers : worker[r].pc \in Ordered => worker[r].n \in 1 .. orders
    BY Zenon DEF NumberInv
  <2>2. \A r, q \in Workers : r # q /\ worker[r].pc \in Ordered /\ worker[q].pc \in Ordered
                                => worker[r].n # worker[q].n
    BY Zenon DEF NumberInv
  <2>3. CASE orders' = orders /\ (x.pc \in Ordered => worker[w].pc \in Ordered /\ x.n = worker[w].n)
    <3>1. \A r \in Workers : worker'[r].pc \in Ordered => worker[r].pc \in Ordered /\ worker'[r].n = worker[r].n
      BY <1>1, <2>3, Zenon
    <3> QED
      BY <1>4, <2>1, <2>2, <2>3, <3>1, ZenonT(60)
  <2>4. CASE orders' = orders + 1 /\ x.n = orders + 1
    <3>1. \A r \in Workers : worker[r].pc \in Ordered => worker[r].n # orders + 1
      BY <1>1, <1>2, <2>1
    <3>2. worker'[u].n \in 1 .. orders'
      BY <1>1, <1>2, <1>4, <2>1, <2>4
    <3>3. ASSUME NEW r \in Workers, r # u, worker'[r].pc \in Ordered
          PROVE  worker'[r].n # worker'[u].n
      BY <1>1, <1>4, <2>2, <2>4, <3>1, <3>3, ZenonT(240)
    <3> QED
      BY <3>2, <3>3, Zenon
  <2> QED
    BY <2>3, <2>4, Zenon
<1>5. ASSUME NEW u \in Workers, worker'[u].pc \in SavingAt
      PROVE  worker'[u].v \in Versions
  BY <1>1, <1>5, Zenon DEF NumberInv
<1> QED
  BY <1>4, <1>5, Zenon DEF NumberInv, Versions

\* A cleanup removes the token of its own order only.
LEMMA TokenStep ==
  ASSUME TypeInv, NumberInv, TokenInv, NEW w \in Workers, NEW x \in Goroutines,
         worker' = [worker EXCEPT ![w] = x],
         \/ tokens \subseteq tokens'
         \/ worker[w].pc = "accepted" /\ tokens' = tokens \ {worker[w].n},
         x.pc = "accepted" /\ x.wrote => x.n \in tokens'
  PROVE  TokenInv'
<1>1. /\ worker'[w] = x /\ \A u \in Workers : u # w => worker'[u] = worker[u]
  BY Moves, ZenonT(60) DEF TypeInv
<1>2. ASSUME NEW u \in Workers, u # w, worker[u].pc = "accepted", worker[u].wrote
      PROVE  worker[u].n \in tokens'
  <2>1. worker[u].n \in tokens
    BY <1>2, Zenon DEF TokenInv
  <2>2. worker[w].pc = "accepted" => worker[u].n # worker[w].n
    BY <1>2, Zenon DEF NumberInv, Ordered
  <2> QED
    BY <2>1, <2>2, Zenon
<1> QED
  BY <1>1, <1>2, ZenonT(30) DEF TokenInv

\* Outside a save the disk stands.
LEMMA DiskStands ==
  ASSUME TypeInv, SaveInv, LineageLoads, NEW w \in Workers, NEW x \in Goroutines,
         worker' = [worker EXCEPT ![w] = x], worker[w].pc \notin SavingAt, x.pc \notin SavingAt,
         UNCHANGED disk
  PROVE  SaveInv' /\ LineageLoads'
<1>1. /\ worker'[w] = x /\ \A u \in Workers : u # w => worker'[u] = worker[u]
      /\ arch' = arch /\ live' = live /\ clean' = clean /\ saved' = saved
  BY Moves, Zenon DEF TypeInv, disk
<1>2. \A u \in Workers : /\ worker'[u].pc \in SavingAt <=> worker[u].pc \in SavingAt
                         /\ worker[u].pc \in SavingAt => worker'[u] = worker[u]
  BY <1>1, Zenon
<1>3. SaveInv'
  <2>1. \A u \in Workers : worker[u].pc \in SavingAt /\ SaveStage(u) => SaveStage(u)'
    <3> SUFFICES ASSUME NEW u \in Workers, worker[u].pc \in SavingAt, SaveStage(u)
                 PROVE  SaveStage(u)'
      BY Zenon
    <3>1. worker'[u] = worker[u] /\ \A r \in Workers : worker'[r].pc \in SavingAt => r = u
      BY <1>2, Zenon DEF SaveStage
    <3> QED
      BY <1>1, <3>1, ZenonT(60) DEF SaveStage
  <2> QED
    BY <1>1, <1>2, <2>1, Zenon DEF SaveInv
<1>4. Saving' = Saving
  BY <1>2, Zenon DEF Saving, SavingAt
<1>5. LineageLoads'
  BY <1>1, <1>4, Zenon DEF LineageLoads, IsPair, Parts
<1> QED
  BY <1>3, <1>5, Zenon

\* A goroutine that ends leaves a certificate or a stopped integration behind.
LEMMA DrivenStep ==
  ASSUME TypeInv, RenewInv, ObtainDriven, NEW w \in Workers, NEW x \in Goroutines,
         worker' = [worker EXCEPT ![w] = x], UNCHANGED <<ai, cur>>,
         held' = held \/ held' # NoCert,
         x.pc # "none" => x.k = worker[w].k,
         x.pc = "none" => worker[w].renews \/ ai[worker[w].k].stopped \/ held' # NoCert,
         x.renews => worker[w].renews
  PROVE  RenewInv' /\ ObtainDriven'
<1>1. /\ worker'[w] = x /\ \A u \in Workers : u # w => worker'[u] = worker[u]
  BY Moves, Zenon DEF TypeInv
<1>2. RenewInv'
  BY <1>1, ZenonT(30) DEF RenewInv
<1>3. ASSUME ai[cur].managed, held' = NoCert, ~ai[cur].stopped, ai[cur].primed
      PROVE  \E u \in Workers : worker'[u].pc # "none" /\ worker'[u].k = cur
  <2>1. held = NoCert
    BY <1>3, Zenon
  <2>2. PICK u \in Workers : worker[u].pc # "none" /\ worker[u].k = cur
    BY <1>3, <2>1, Zenon DEF ObtainDriven, Busy
  <2>3. CASE u # w
    BY <1>1, <2>2, <2>3, Zenon
  <2>4. CASE u = w
    BY <1>1, <1>3, <2>1, <2>2, <2>4, Zenon DEF RenewInv
  <2> QED
    BY <2>3, <2>4, Zenon
<1>4. ObtainDriven'
  BY <1>3, Zenon DEF ObtainDriven, Busy
<1> QED
  BY <1>2, <1>4, Zenon

---------------------------------------------------------------------------
(* The steps.                                                                *)

\* A goroutine that has not been started.
LEMMA GoneFacts ==
  ASSUME MaxOrders \in Nat
  PROVE  /\ Gone \in Goroutines
         /\ Gone.pc = "none" /\ Gone.k = 1 /\ Gone.renews = FALSE /\ Gone.n = 0 /\ Gone.wrote = FALSE
         /\ Gone.v = 0 /\ Gone.full = 0 /\ Gone.left = {} /\ Gone.p = "full"
  BY DEF Gone, Goroutines, Places, Ordered, SavingAt, Parts

\* Steps that touch nothing but their goroutine, outside a save.
LEMMA QuietStep ==
  ASSUME MaxOrders \in Nat, OrdersInv, NEW w \in Workers, NEW x \in Goroutines,
         worker' = [worker EXCEPT ![w] = x],
         UNCHANGED <<ai, cur, mem, tokens, disk, held, orders>>,
         worker[w].pc \notin SavingAt, x.pc \in {"none", "load key", "order", "sleep"},
         x.pc # "none" => x.k = worker[w].k,
         x.pc = "none" => worker[w].renews \/ ai[worker[w].k].stopped,
         x.renews => worker[w].renews
  PROVE  OrdersInv'
<1>1. x.pc \notin Ordered /\ x.pc \notin SavingAt /\ x.pc # "accepted"
  BY Zenon DEF Ordered, SavingAt
<1>2. NumberInv' /\ TokenInv'
  BY <1>1, NumberStep, TokenStep, Zenon DEF OrdersInv
<1>3. SaveInv' /\ LineageLoads'
  BY <1>1, DiskStands, Zenon DEF OrdersInv
<1>4. RenewInv' /\ ObtainDriven'
  BY DrivenStep, Zenon DEF OrdersInv
<1>5. TypeInv'
  BY Moves, Zenon DEF OrdersInv, TypeInv, disk
<1>6. HeldIsAPair'
  BY Zenon DEF OrdersInv, HeldIsAPair
<1> QED
  BY <1>2, <1>3, <1>4, <1>5, <1>6, Zenon DEF OrdersInv

\* Fails: obtainWithRetry will try again, a renewal ends.
LEMMA FailFacts ==
  ASSUME MaxOrders \in Nat, TypeInv, NEW w \in Workers, worker' = Fails(w)
  PROVE  \E x \in Goroutines :
            /\ worker' = [worker EXCEPT ![w] = x] /\ x.pc \in {"none", "sleep"} /\ ~x.renews
            /\ x.pc # "none" => x.k = worker[w].k
            /\ x.pc = "none" => worker[w].renews
<1> DEFINE x == IF worker[w].renews THEN Gone ELSE [Gone EXCEPT !.pc = "sleep", !.k = worker[w].k]
<1>1. worker[w] \in Goroutines
  BY Zenon DEF TypeInv
<1>2. worker[w].k \in {1, 2}
  BY <1>1, Zenon DEF Goroutines
<1>3. /\ x \in Goroutines /\ x.pc \in {"none", "sleep"} /\ ~x.renews
      /\ x.pc # "none" => x.k = worker[w].k
      /\ x.pc = "none" => worker[w].renews
  <2>1. CASE worker[w].renews
    BY <2>1, GoneFacts, Zenon
  <2>2. CASE ~worker[w].renews
    <3>1. x = [Gone EXCEPT !.pc = "sleep", !.k = worker[w].k]
      BY <2>2, Zenon
    <3> HIDE DEF x
    <3> QED
      BY <1>2, <2>2, <3>1, GoneFacts, Zenon DEF Goroutines, Places
  <2> QED
    BY <2>1, <2>2, Zenon
<1>4. worker' = [worker EXCEPT ![w] = x]
  BY Zenon DEF Fails
<1> QED
  BY <1>3, <1>4, Zenon

\* An order that is not made, and the wait after it.
LEMMA WaitStep ==
  ASSUME MaxOrders \in Nat, OrdersInv, NEW w \in Workers,
         OrderFails(w) \/ FinalizeFails(w) \/ PointsElsewhere(w) \/ Sleep(w)
  PROVE  OrdersInv'
<1>1. /\ UNCHANGED <<ai, cur, mem, tokens, disk, held, orders>> /\ worker[w].pc \notin SavingAt
      /\ worker[w] \in Goroutines /\ TypeInv /\ worker \in [Workers -> Goroutines]
  BY Zenon DEF OrderFails, FinalizeFails, PointsElsewhere, Sleep, OrdersInv, TypeInv, SavingAt
<1>2. CASE OrderFails(w) \/ FinalizeFails(w)
  <2>1. worker' = Fails(w)
    BY <1>2, Zenon DEF OrderFails, FinalizeFails
  <2> QED
    BY <1>1, <2>1, FailFacts, QuietStep, Zenon
<1>3. CASE PointsElsewhere(w)
  <2> DEFINE x == [worker[w] EXCEPT !.pc = "sleep"]
  <2>1. worker' = [worker EXCEPT ![w] = x]
    BY <1>1, <1>3, Zenon DEF PointsElsewhere, Goes
  <2>2. x \in Goroutines /\ x.pc = "sleep" /\ x.k = worker[w].k /\ x.renews = worker[w].renews
    BY <1>1, Zenon DEF Goroutines, Places
  <2> HIDE DEF x
  <2> QED
    BY <1>1, <2>1, <2>2, QuietStep, Zenon
<1>4. CASE Sleep(w)
  <2> DEFINE y == [worker[w] EXCEPT !.pc = "order"]
             x == IF ai[worker[w].k].stopped THEN Gone ELSE y
  <2>1. worker' = [worker EXCEPT ![w] = x]
    BY <1>1, <1>4, Zenon DEF Sleep
  <2>2. y \in Goroutines /\ y.pc = "order" /\ y.k = worker[w].k /\ y.renews = worker[w].renews
    BY <1>1, Zenon DEF Goroutines, Places
  <2> HIDE DEF y
  <2>3. /\ x \in Goroutines /\ x.pc \in {"none", "order"}
        /\ x.pc # "none" => x.k = worker[w].k
        /\ x.pc = "none" => ai[worker[w].k].stopped
        /\ x.renews => worker[w].renews
    BY <2>2, GoneFacts, Zenon
  <2> HIDE DEF x
  <2> QED
    BY <1>1, <2>1, <2>3, QuietStep, Zenon
<1> QED
  BY <1>2, <1>3, <1>4, Zenon

\* tryLoadCached: what it registers is a pair, and a pair is a certificate.
LEMMA LoadStep ==
  ASSUME MaxOrders \in Nat, OrdersInv, NEW w \in Workers, LoadChain(w) \/ LoadKey(w)
  PROVE  OrdersInv'
<1>1. /\ UNCHANGED <<ai, cur, mem, tokens, disk, orders>> /\ worker[w].pc \notin SavingAt
      /\ worker[w] \in Goroutines /\ TypeInv /\ worker \in [Workers -> Goroutines]
      /\ worker[w].pc # "none"
  BY Zenon DEF LoadChain, LoadKey, OrdersInv, TypeInv, SavingAt
<1>2. \A q \in Parts : live[q] = 0 \/ live[q] \in Versions
  BY <1>1, SMTT(30) DEF TypeInv, Versions
<1>3. CASE LoadChain(w)
  <2> DEFINE c == IF live["full"] = 0 THEN 0 ELSE arch[live["full"]].full
             x == [worker[w] EXCEPT !.full = c, !.pc = "load key"]
  <2>1. c \in 0 .. MaxOrders
    BY <1>1, <1>2 DEF TypeInv, Parts
  <2> HIDE DEF c
  <2>2. worker' = [worker EXCEPT ![w] = x] /\ held' = held
    BY <1>1, <1>3, Zenon DEF LoadChain, c
  <2>3. /\ x \in Goroutines /\ x.pc = "load key" /\ x.k = worker[w].k
        /\ x.renews = worker[w].renews
    BY <1>1, <2>1, Zenon DEF Goroutines, Places
  <2> HIDE DEF x
  <2> QED
    BY <1>1, <2>2, <2>3, QuietStep, Zenon
<1>4. CASE LoadKey(w)
  <2> DEFINE key == IF live["key"] = 0 THEN 0 ELSE arch[live["key"]].key
             y == [worker[w] EXCEPT !.pc = "order", !.full = 0]
  <2>1. key \in 0 .. MaxOrders /\ worker[w].full \in 0 .. MaxOrders
    BY <1>1, <1>2 DEF TypeInv, Parts, Goroutines
  <2>2. /\ y \in Goroutines /\ y.pc = "order" /\ y.k = worker[w].k
        /\ y.renews = worker[w].renews
    <3>1. 0 \in 0 .. MaxOrders
      OBVIOUS
    <3> QED
      BY <1>1, <3>1, Zenon DEF Goroutines, Places
  <2> HIDE DEF y, key
  <2>3. CASE IsPair(worker[w].full, key)
    <3>1. worker' = [worker EXCEPT ![w] = Gone] /\ held' = [full |-> worker[w].full, key |-> key]
      BY <1>4, <2>3, Zenon DEF LoadKey, key
    <3>2. /\ held' \in [full : 0 .. MaxOrders, key : 0 .. MaxOrders]
          /\ held' # NoCert /\ held'.full = held'.key
      BY <2>1, <2>3, <3>1, Zenon DEF IsPair, NoCert
    <3>3. Gone.pc \notin SavingAt /\ Gone.pc \notin Ordered
      BY GoneFacts, Zenon DEF SavingAt, Ordered
    <3>4. NumberInv' /\ TokenInv'
      BY <1>1, <3>1, <3>3, GoneFacts, NumberStep, TokenStep, Zenon DEF OrdersInv
    <3>5. SaveInv' /\ LineageLoads'
      BY <1>1, <3>1, <3>3, GoneFacts, DiskStands, Zenon DEF OrdersInv
    <3>6. RenewInv' /\ ObtainDriven'
      BY <1>1, <3>1, <3>2, GoneFacts, DrivenStep, Zenon DEF OrdersInv
    <3>7. TypeInv'
      BY <1>1, <3>1, <3>2, GoneFacts, Moves, Zenon DEF TypeInv, disk
    <3> QED
      BY <3>2, <3>4, <3>5, <3>6, <3>7, Zenon DEF OrdersInv, HeldIsAPair
  <2>4. CASE ~IsPair(worker[w].full, key)
    <3>1. worker' = [worker EXCEPT ![w] = y] /\ held' = held
      BY <1>4, <2>4, Zenon DEF LoadKey, key, y
    <3> QED
      BY <1>1, <2>2, <3>1, QuietStep, Zenon
  <2> QED
    BY <2>3, <2>4, Zenon
<1> QED
  BY <1>3, <1>4, Zenon

\* A new order: its number is new, and its token is in its file before it is accepted.
LEMMA OrderStep ==
  ASSUME MaxOrders \in Nat, OrdersInv, NEW w \in Workers, NEW wrote \in BOOLEAN,
         OrderReady(w) \/ OfferChallenge(w, wrote)
  PROVE  OrdersInv'
<1>1. /\ UNCHANGED <<ai, cur, disk, held>> /\ worker[w].pc \notin SavingAt
      /\ worker[w] \in Goroutines /\ TypeInv /\ worker \in [Workers -> Goroutines]
      /\ worker[w].pc # "none" /\ orders < MaxOrders /\ orders' = orders + 1
  BY Zenon DEF OrderReady, OfferChallenge, OrdersInv, TypeInv, SavingAt
<1>2. orders + 1 \in 1 .. MaxOrders /\ orders + 1 \in 0 .. MaxOrders /\ worker[w].k \in {1, 2}
  BY <1>1, SMTT(30) DEF TypeInv, Goroutines
<1>3. /\ mem' \in [{1, 2} -> 0 .. MaxOrders] /\ tokens' \subseteq 1 .. MaxOrders
      /\ tokens \subseteq tokens'
  BY <1>1, <1>2 DEF TypeInv, OrderReady, OfferChallenge
<1>4. \E x \in Goroutines :
         /\ worker' = [worker EXCEPT ![w] = x] /\ x.pc \in {"ready", "accepted"}
         /\ x.n = orders + 1 /\ x.k = worker[w].k /\ x.renews = worker[w].renews
         /\ x.pc = "accepted" /\ x.wrote => x.n \in tokens'
  <2>1. CASE OrderReady(w)
    <3> DEFINE x == [worker[w] EXCEPT !.pc = "ready", !.n = orders + 1]
    <3>1. worker' = [worker EXCEPT ![w] = x]
      BY <1>1, <2>1, Zenon DEF OrderReady
    <3>2. /\ x \in Goroutines /\ x.pc = "ready" /\ x.n = orders + 1 /\ x.k = worker[w].k
          /\ x.renews = worker[w].renews
      BY <1>1, <1>2, Zenon DEF Goroutines, Places, Ordered
    <3> HIDE DEF x
    <3> QED
      BY <3>1, <3>2, Zenon
  <2>2. CASE OfferChallenge(w, wrote)
    <3> DEFINE x == [worker[w] EXCEPT !.pc = "accepted", !.n = orders + 1, !.wrote = wrote]
    <3>1. worker' = [worker EXCEPT ![w] = x]
      BY <1>1, <2>2, Zenon DEF OfferChallenge
    <3>2. /\ x \in Goroutines /\ x.pc = "accepted" /\ x.n = orders + 1 /\ x.k = worker[w].k
          /\ x.renews = worker[w].renews /\ x.wrote = wrote
      BY <1>1, <1>2, Zenon DEF Goroutines, Places, Ordered
    <3>3. wrote => orders + 1 \in tokens'
      BY <2>2, Zenon DEF OfferChallenge
    <3> HIDE DEF x
    <3> QED
      BY <3>1, <3>2, <3>3, Zenon
  <2> QED
    BY <2>1, <2>2, Zenon
<1>5. PICK x \in Goroutines :
         /\ worker' = [worker EXCEPT ![w] = x] /\ x.pc \in {"ready", "accepted"}
         /\ x.n = orders + 1 /\ x.k = worker[w].k /\ x.renews = worker[w].renews
         /\ x.pc = "accepted" /\ x.wrote => x.n \in tokens'
  BY <1>4, Zenon
<1>6. x.pc \notin SavingAt /\ x.pc # "none"
  BY <1>5, Zenon DEF SavingAt
<1>7. NumberInv' /\ TokenInv'
  BY <1>1, <1>3, <1>5, <1>6, NumberStep, TokenStep, Zenon DEF OrdersInv
<1>8. SaveInv' /\ LineageLoads'
  BY <1>1, <1>5, <1>6, DiskStands, Zenon DEF OrdersInv
<1>9. RenewInv' /\ ObtainDriven'
  BY <1>1, <1>5, <1>6, DrivenStep, Zenon DEF OrdersInv
<1>10. TypeInv'
  BY <1>1, <1>2, <1>3, <1>5, Moves, Zenon DEF TypeInv, disk
<1> QED
  BY <1>1, <1>7, <1>8, <1>9, <1>10, Zenon DEF OrdersInv, HeldIsAPair

\* cleanupChallenge after the authority's answer.
LEMMA ChallengeStep ==
  ASSUME MaxOrders \in Nat, OrdersInv, NEW w \in Workers, Authorized(w) \/ ChallengeFails(w)
  PROVE  OrdersInv'
<1>1. /\ UNCHANGED <<ai, cur, disk, held, orders>> /\ worker[w].pc = "accepted"
      /\ worker[w] \in Goroutines /\ TypeInv /\ worker \in [Workers -> Goroutines] /\ Cleanup(w)
  BY Zenon DEF Authorized, ChallengeFails, OrdersInv, TypeInv
<1>2. worker[w].k \in {1, 2} /\ 0 \in 0 .. MaxOrders
  BY <1>1 DEF Goroutines
<1>3. /\ mem' \in [{1, 2} -> 0 .. MaxOrders] /\ tokens' \subseteq 1 .. MaxOrders
      /\ tokens' = tokens \ {worker[w].n}
  BY <1>1, <1>2, Zenon DEF TypeInv, Cleanup
<1>4. \E x \in Goroutines :
         /\ worker' = [worker EXCEPT ![w] = x] /\ x.pc \in {"ready", "none", "sleep"}
         /\ x.pc = "ready" => x.n = worker[w].n
         /\ x.pc # "none" => x.k = worker[w].k
         /\ x.pc = "none" => worker[w].renews
         /\ x.renews => worker[w].renews
  <2>1. CASE Authorized(w)
    <3> DEFINE x == [worker[w] EXCEPT !.pc = "ready"]
    <3>1. worker' = [worker EXCEPT ![w] = x]
      BY <1>1, <2>1, Zenon DEF Authorized, Goes
    <3>2. /\ x \in Goroutines /\ x.pc = "ready" /\ x.n = worker[w].n /\ x.k = worker[w].k
          /\ x.renews = worker[w].renews
      BY <1>1, Zenon DEF Goroutines, Places, Ordered
    <3> HIDE DEF x
    <3> QED
      BY <3>1, <3>2, Zenon
  <2>2. CASE ChallengeFails(w)
    <3>1. worker' = Fails(w)
      BY <2>2, Zenon DEF ChallengeFails
    <3>2. PICK x \in Goroutines :
            /\ worker' = [worker EXCEPT ![w] = x] /\ x.pc \in {"none", "sleep"} /\ ~x.renews
            /\ x.pc # "none" => x.k = worker[w].k
            /\ x.pc = "none" => worker[w].renews
      BY <1>1, <3>1, FailFacts, Zenon
    <3> QED
      BY <3>2, Zenon
  <2> QED
    BY <2>1, <2>2, Zenon
<1>5. PICK x \in Goroutines :
         /\ worker' = [worker EXCEPT ![w] = x] /\ x.pc \in {"ready", "none", "sleep"}
         /\ x.pc = "ready" => x.n = worker[w].n
         /\ x.pc # "none" => x.k = worker[w].k
         /\ x.pc = "none" => worker[w].renews
         /\ x.renews => worker[w].renews
  BY <1>4, Zenon
<1>6. /\ x.pc \notin SavingAt /\ worker[w].pc \notin SavingAt /\ x.pc # "accepted"
      /\ x.pc \in Ordered => worker[w].pc \in Ordered /\ x.n = worker[w].n
  BY <1>1, <1>5, Zenon DEF SavingAt, Ordered
<1>7. NumberInv' /\ TokenInv'
  BY <1>1, <1>3, <1>5, <1>6, NumberStep, TokenStep, Zenon DEF OrdersInv
<1>8. SaveInv' /\ LineageLoads'
  BY <1>1, <1>5, <1>6, DiskStands, Zenon DEF OrdersInv
<1>9. RenewInv' /\ ObtainDriven'
  BY <1>1, <1>5, DrivenStep, Zenon DEF OrdersInv
<1>10. TypeInv'
  BY <1>1, <1>3, <1>5, Moves, Zenon DEF TypeInv, disk
<1> QED
  BY <1>1, <1>7, <1>8, <1>9, <1>10, Zenon DEF OrdersInv, HeldIsAPair

\* A step of a save, for all but the lineage.
LEMMA SaverStep ==
  ASSUME MaxOrders \in Nat, OrdersInv, NEW w \in Workers, NEW x \in Goroutines,
         worker' = [worker EXCEPT ![w] = x],
         UNCHANGED <<ai, cur, mem, tokens, held, orders>>,
         worker[w].pc \in Ordered, x.pc \in Ordered, x.pc # "accepted", x.n = worker[w].n,
         x.k = worker[w].k, x.renews = worker[w].renews,
         x.pc \in SavingAt => x.v \in Versions,
         arch' \in [Versions -> [Parts -> 0 .. MaxOrders]], live' \in [Parts -> 0 .. MaxOrders],
         clean' \in BOOLEAN, saved' \in BOOLEAN, SaveInv', LineageLoads'
  PROVE  OrdersInv'
<1>1. x.pc # "none"
  BY Zenon DEF Ordered, SavingAt
<1>2. NumberInv' /\ TokenInv'
  BY NumberStep, TokenStep, Zenon DEF OrdersInv
<1>3. RenewInv' /\ ObtainDriven'
  BY <1>1, DrivenStep, Zenon DEF OrdersInv
<1>4. TypeInv'
  BY Moves, Zenon DEF OrdersInv, TypeInv
<1> QED
  BY <1>2, <1>3, <1>4, Zenon DEF OrdersInv, HeldIsAPair

\* finalize: a save that begins alone is clean from there on.
LEMMA FinalizedStep ==
  ASSUME MaxOrders \in Nat, OrdersInv, NEW w \in Workers, Finalized(w)
  PROVE  OrdersInv'
<1> DEFINE v == NextArchiveVersion
           x == [worker[w] EXCEPT !.pc = "full", !.v = v]
<1>1. /\ UNCHANGED <<ai, cur, mem, tokens, arch, live, saved, held, orders>> /\ worker[w].pc = "ready"
      /\ worker[w] \in Goroutines /\ TypeInv /\ worker \in [Workers -> Goroutines]
      /\ v \in Versions /\ clean' = (Saving = {})
  BY Zenon DEF Finalized, OrdersInv, TypeInv
<1>2. worker' = [worker EXCEPT ![w] = x]
  BY <1>1, Zenon DEF Finalized
<1> HIDE DEF v
<1>3. /\ x \in Goroutines /\ x.pc = "full" /\ x.v = v /\ x.n = worker[w].n /\ x.k = worker[w].k
      /\ x.renews = worker[w].renews
  <2>1. v \in 0 .. MaxOrders
    BY <1>1 DEF Versions
  <2> QED
    BY <1>1, <2>1, Zenon DEF Goroutines, Places, Ordered, SavingAt
<1> HIDE DEF x
<1>4. worker'[w] = x /\ \A u \in Workers : u # w => worker'[u] = worker[u]
  BY <1>1, <1>2, <1>3, Moves, Zenon
<1>5. SaveInv'
  <2> SUFFICES ASSUME clean', NEW u \in Workers, worker'[u].pc \in SavingAt
               PROVE  SaveStage(u)'
    BY Zenon DEF SaveInv
  <2>1. \A r \in Workers : worker[r].pc \notin SavingAt
    BY <1>1, Zenon DEF Saving, SavingAt
  <2>2. \A r \in Workers : worker'[r].pc \in SavingAt => r = w
    BY <1>4, <2>1, Zenon
  <2>3. u = w /\ worker'[u].pc = "full"
    BY <1>3, <1>4, <2>2, Zenon
  <2> QED
    BY <2>2, <2>3, Zenon DEF SaveStage
<1>6. LineageLoads'
  <2>1. w \in Saving'
    BY <1>3, <1>4, Zenon DEF Saving
  <2> QED
    BY <2>1, Zenon DEF LineageLoads
<1>7. clean' \in BOOLEAN
  <2>1. (Saving = {}) \in BOOLEAN
    BY Zenon
  <2> QED
    BY <1>1, <2>1, Zenon
<1> QED
  <2>1. /\ worker[w].pc \in Ordered /\ x.pc \in Ordered /\ x.pc # "accepted"
        /\ arch' \in [Versions -> [Parts -> 0 .. MaxOrders]] /\ live' \in [Parts -> 0 .. MaxOrders]
        /\ saved' \in BOOLEAN
    BY <1>1, <1>3, Zenon DEF Ordered, SavingAt, TypeInv
  <2> QED
    BY <1>1, <1>2, <1>3, <1>5, <1>6, <1>7, <2>1, SaverStep, Zenon

\* saveCertbotLineage: a file of the new version.
LEMMA WriteStep ==
  ASSUME MaxOrders \in Nat, OrdersInv, NEW w \in Workers,
         WriteArchive(w, "full", "key") \/ WriteArchive(w, "key", "link")
  PROVE  OrdersInv'
<1> DEFINE me == worker[w]
           next == IF me.pc = "full" THEN "key" ELSE "link"
           x == [me EXCEPT !.pc = next, !.left = Parts]
<1>1. /\ UNCHANGED <<ai, cur, mem, tokens, live, clean, saved, held, orders>>
      /\ me.pc \in {"full", "key"} /\ next \in {"key", "link"}
      /\ me \in Goroutines /\ TypeInv /\ worker \in [Workers -> Goroutines]
      /\ arch' = [arch EXCEPT ![me.v][me.pc] = me.n]
  BY Zenon DEF WriteArchive, OrdersInv, TypeInv
<1>2. worker' = [worker EXCEPT ![w] = x]
  BY <1>1, Zenon DEF WriteArchive
<1>3. /\ x \in Goroutines /\ x.pc = next /\ x.v = me.v /\ x.n = me.n /\ x.k = me.k
      /\ x.renews = me.renews /\ x.left = Parts
  BY <1>1, ZenonT(60) DEF Goroutines, Places, Ordered, SavingAt
<1> HIDE DEF x
<1>4. worker'[w] = x /\ \A u \in Workers : u # w => worker'[u] = worker[u]
  BY <1>1, <1>2, <1>3, Moves, Zenon
<1>5. me.v \in Versions /\ me.n \in 0 .. MaxOrders
  BY <1>1, Zenon DEF OrdersInv, NumberInv, SavingAt, Goroutines
<1>6. /\ arch' \in [Versions -> [Parts -> 0 .. MaxOrders]]
      /\ arch'[me.v][me.pc] = me.n
      /\ \A q \in Parts : q # me.pc => arch'[me.v][q] = arch[me.v][q]
  BY <1>1, <1>5, Zenon DEF TypeInv, Parts
<1>7. SaveInv'
  <2> SUFFICES ASSUME clean', NEW u \in Workers, worker'[u].pc \in SavingAt
               PROVE  SaveStage(u)'
    BY Zenon DEF SaveInv
  <2>1. SaveStage(w)
    BY <1>1, Zenon DEF OrdersInv, SaveInv, SavingAt
  <2>2. \A r \in Workers : worker'[r].pc \in SavingAt => r = w
    BY <1>4, <2>1, Zenon DEF SaveStage
  <2>3. u = w /\ worker'[u] = x
    BY <1>4, <2>2, Zenon
  <2>4. arch'[x.v]["full"] = x.n
    BY <1>1, <1>3, <1>6, <2>1, Zenon DEF SaveStage, Parts
  <2>5. x.pc \in {"link", "linked"} => arch'[x.v]["key"] = x.n
    BY <1>1, <1>3, <1>6, Zenon
  <2>6. (\A q \in Parts : q \in x.left) /\ x.pc # "linked"
    BY <1>1, <1>3, Zenon
  <2> QED
    BY <2>2, <2>3, <2>4, <2>5, <2>6, Zenon DEF SaveStage
<1>8. LineageLoads'
  <2>1. w \in Saving'
    BY <1>1, <1>3, <1>4, Zenon DEF Saving
  <2> QED
    BY <2>1, Zenon DEF LineageLoads
<1> QED
  <2>1. /\ me.pc \in Ordered /\ x.pc \in Ordered /\ x.pc # "accepted"
        /\ live' \in [Parts -> 0 .. MaxOrders] /\ clean' \in BOOLEAN /\ saved' \in BOOLEAN
    BY <1>1, <1>3, Zenon DEF Ordered, SavingAt, TypeInv
  <2> QED
    BY <1>1, <1>2, <1>3, <1>5, <1>6, <1>7, <1>8, <2>1, SaverStep, Zenon

\* saveCertbotLineage: the old link is removed ...
LEMMA RemoveStep ==
  ASSUME MaxOrders \in Nat, OrdersInv, NEW w \in Workers, NEW p \in Parts, RemoveLink(w, p)
  PROVE  OrdersInv'
<1> DEFINE me == worker[w]
           rest == me.left \ {p}
           x == [me EXCEPT !.pc = "linked", !.left = rest, !.p = p]
<1>1. /\ UNCHANGED <<ai, cur, mem, tokens, arch, clean, saved, held, orders>>
      /\ me.pc = "link" /\ me \in Goroutines /\ TypeInv /\ worker \in [Workers -> Goroutines]
      /\ live' = [live EXCEPT ![p] = 0]
  BY Zenon DEF RemoveLink, OrdersInv, TypeInv
<1>2. worker' = [worker EXCEPT ![w] = x]
  BY <1>1, Zenon DEF RemoveLink
<1>3. rest \in SUBSET Parts
  BY <1>1, Zenon DEF Goroutines
<1>4. \A q \in Parts : q \notin rest /\ q # p => q \notin me.left
  BY Zenon
<1> HIDE DEF rest
<1>5. /\ x \in Goroutines /\ x.pc = "linked" /\ x.v = me.v /\ x.n = me.n /\ x.k = me.k
      /\ x.renews = me.renews /\ x.left = rest /\ x.p = p
  BY <1>1, <1>3, Zenon DEF Goroutines, Places, Ordered, SavingAt
<1> HIDE DEF x
<1>6. worker'[w] = x /\ \A u \in Workers : u # w => worker'[u] = worker[u]
  BY <1>1, <1>2, <1>5, Moves, Zenon
<1>7. /\ live' \in [Parts -> 0 .. MaxOrders]
      /\ \A q \in Parts : q # p => live'[q] = live[q]
  BY <1>1 DEF TypeInv
<1>8. SaveInv'
  <2> SUFFICES ASSUME clean', NEW u \in Workers, worker'[u].pc \in SavingAt
               PROVE  SaveStage(u)'
    BY Zenon DEF SaveInv
  <2>1. SaveStage(w)
    BY <1>1, Zenon DEF OrdersInv, SaveInv, SavingAt
  <2>2. \A r \in Workers : worker'[r].pc \in SavingAt => r = w
    BY <1>6, <2>1, Zenon DEF SaveStage
  <2>3. u = w /\ worker'[u] = x
    BY <1>6, <2>2, Zenon
  <2>4. arch'[x.v]["full"] = x.n /\ arch'[x.v]["key"] = x.n
    BY <1>1, <1>5, <2>1, Zenon DEF SaveStage
  <2>5. \A q \in Parts : q \notin x.left /\ q # x.p => live'[q] = x.v
    BY <1>1, <1>4, <1>5, <1>7, <2>1, Zenon DEF SaveStage
  <2> QED
    BY <1>5, <2>2, <2>3, <2>4, <2>5, Zenon DEF SaveStage
<1>9. LineageLoads'
  <2>1. w \in Saving'
    BY <1>5, <1>6, Zenon DEF Saving
  <2> QED
    BY <2>1, Zenon DEF LineageLoads
<1> QED
  <2>1. /\ me.pc \in Ordered /\ x.pc \in Ordered /\ x.pc # "accepted" /\ x.v \in Versions
        /\ arch' \in [Versions -> [Parts -> 0 .. MaxOrders]] /\ clean' \in BOOLEAN /\ saved' \in BOOLEAN
    BY <1>1, <1>5, Zenon DEF Ordered, SavingAt, TypeInv, OrdersInv, NumberInv
  <2> QED
    BY <1>1, <1>2, <1>5, <1>7, <1>8, <1>9, <2>1, SaverStep, Zenon

\* The end of a save.  If it succeeded alone, both links are at its version.
LEMMA EndStep ==
  ASSUME MaxOrders \in Nat, OrdersInv, NEW w \in Workers, NEW ok \in BOOLEAN, Saved(w, ok),
         worker[w].pc \in SavingAt,
         UNCHANGED <<ai, cur, mem, tokens, arch, clean, held, orders>>,
         live' \in [Parts -> 0 .. MaxOrders],
         ok /\ clean => /\ worker[w].pc = "linked"
                        /\ \A q \in Parts : live'[q] = worker[w].v
  PROVE  OrdersInv'
<1> DEFINE me == worker[w]
           x == [me EXCEPT !.pc = "install", !.left = {}, !.p = "full", !.v = 0]
<1>1. /\ me \in Goroutines /\ TypeInv /\ worker \in [Workers -> Goroutines] /\ saved' = ok
  BY Zenon DEF OrdersInv, TypeInv, Saved
<1>2. worker' = [worker EXCEPT ![w] = x]
  BY <1>1, Zenon DEF Saved
<1>3. /\ x \in Goroutines /\ x.pc = "install" /\ x.n = me.n /\ x.k = me.k
      /\ x.renews = me.renews
  <2>1. 0 \in 0 .. MaxOrders /\ {} \in SUBSET Parts /\ "full" \in Parts
    BY DEF Parts
  <2> QED
    BY <1>1, <2>1, Zenon DEF Goroutines, Places, Ordered
<1> HIDE DEF x
<1>4. worker'[w] = x /\ \A u \in Workers : u # w => worker'[u] = worker[u]
  BY <1>1, <1>2, <1>3, Moves, Zenon
<1>5. x.pc \notin SavingAt /\ x.pc \in Ordered /\ x.pc # "accepted" /\ me.pc \in Ordered
  BY <1>3, Zenon DEF SavingAt, Ordered
<1>6. clean => SaveStage(w)
  BY Zenon DEF OrdersInv, SaveInv
<1>7. clean => \A u \in Workers : worker'[u].pc \notin SavingAt
  BY <1>4, <1>5, <1>6, Zenon DEF SaveStage
<1>8. SaveInv'
  BY <1>7, Zenon DEF SaveInv
<1>9. LineageLoads'
  <2> SUFFICES ASSUME ok, clean
               PROVE  /\ \A q \in Parts : live'[q] # 0
                      /\ IsPair(arch[live'["full"]].full, arch[live'["key"]].key)
    BY <1>1, Zenon DEF LineageLoads, IsPair
  <2>1. /\ me.v \in Versions /\ me.n \in 1 .. orders
        /\ arch[me.v]["full"] = me.n /\ arch[me.v]["key"] = me.n
    BY <1>5, <1>6, Zenon DEF OrdersInv, NumberInv, SaveStage
  <2>2. \A q \in Parts : live'[q] = me.v
    BY Zenon
  <2>3. me.v # 0 /\ me.n # 0
    <3>1. /\ \A i \in 1 .. MaxOrders : i # 0
          /\ \A i \in 1 .. orders : i # 0
      OBVIOUS
    <3> QED
      BY <2>1, <3>1, Zenon DEF Versions
  <2> QED
    BY <2>1, <2>2, <2>3, Zenon DEF IsPair, Parts
<1> QED
  <2>1. arch' \in [Versions -> [Parts -> 0 .. MaxOrders]] /\ clean' \in BOOLEAN /\ saved' \in BOOLEAN
    BY <1>1, Zenon DEF TypeInv
  <2> QED
    BY <1>2, <1>3, <1>5, <1>8, <1>9, <2>1, SaverStep, Zenon

\* saveCertbotLineage: ... and made again, or the save fails here or anywhere.
LEMMA LinkStep ==
  ASSUME MaxOrders \in Nat, OrdersInv, NEW w \in Workers, Symlink(w) \/ SaveFails(w)
  PROVE  OrdersInv'
<1> DEFINE me == worker[w]
<1>1. /\ UNCHANGED <<ai, cur, mem, tokens, arch, clean, held, orders>>
      /\ me.pc \in SavingAt /\ me \in Goroutines /\ TypeInv /\ worker \in [Workers -> Goroutines]
  BY Zenon DEF Symlink, SaveFails, OrdersInv, TypeInv, Saving, SavingAt
<1>2. me.p \in Parts /\ me.v \in Versions /\ me.v \in 0 .. MaxOrders
  BY <1>1, Zenon DEF OrdersInv, NumberInv, Goroutines
<1>3. clean => SaveStage(w)
  BY <1>1, Zenon DEF OrdersInv, SaveInv
<1>4. CASE SaveFails(w) \/ (Symlink(w) /\ live[me.p] # 0)
  <2>1. Saved(w, FALSE) /\ live' = live
    BY <1>4, Zenon DEF SaveFails, Symlink
  <2>2. live' \in [Parts -> 0 .. MaxOrders]
    BY <1>1, <2>1, Zenon DEF TypeInv
  <2> QED
    BY <1>1, <2>1, <2>2, EndStep, Zenon
<1>5. CASE Symlink(w) /\ live[me.p] = 0
  <2>1. me.pc = "linked" /\ live' = [live EXCEPT ![me.p] = me.v]
    BY <1>5, Zenon DEF Symlink
  <2>2. /\ live' \in [Parts -> 0 .. MaxOrders]
        /\ live'[me.p] = me.v /\ \A q \in Parts : q # me.p => live'[q] = live[q]
    BY <1>1, <1>2, <2>1, Zenon DEF TypeInv
  <2>3. clean => \A q \in Parts : q \notin me.left => live'[q] = me.v
    BY <1>3, <2>1, <2>2, Zenon DEF SaveStage
  <2>4. CASE me.left = {}
    <3>1. Saved(w, TRUE)
      BY <1>5, <2>4, Zenon DEF Symlink
    <3>2. clean => \A q \in Parts : live'[q] = me.v
      BY <2>3, <2>4, Zenon
    <3> QED
      BY <1>1, <2>1, <2>2, <3>1, <3>2, EndStep, ZenonT(30)
  <2>5. CASE me.left # {}
    <3> DEFINE x == [me EXCEPT !.pc = "link"]
    <3>1. worker' = [worker EXCEPT ![w] = x] /\ saved' = saved
      BY <1>1, <1>5, <2>5, Zenon DEF Symlink, Goes
    <3>2. /\ x \in Goroutines /\ x.pc = "link" /\ x.v = me.v /\ x.n = me.n /\ x.k = me.k
          /\ x.renews = me.renews /\ x.left = me.left
      BY <1>1, Zenon DEF Goroutines, Places, Ordered, SavingAt
    <3> HIDE DEF x
    <3>3. worker'[w] = x /\ \A u \in Workers : u # w => worker'[u] = worker[u]
      BY <1>1, <3>1, <3>2, Moves, Zenon
    <3>4. SaveInv'
      <4> SUFFICES ASSUME clean', NEW u \in Workers, worker'[u].pc \in SavingAt
                   PROVE  SaveStage(u)'
        BY Zenon DEF SaveInv
      <4>1. SaveStage(w) /\ clean
        BY <1>1, <1>3, Zenon
      <4>2. \A r \in Workers : worker'[r].pc \in SavingAt => r = w
        BY <3>3, <4>1, Zenon DEF SaveStage
      <4>3. u = w /\ worker'[u] = x
        BY <3>3, <4>2, Zenon
      <4>4. arch'[x.v]["full"] = x.n /\ arch'[x.v]["key"] = x.n
        BY <1>1, <2>1, <3>2, <4>1, Zenon DEF SaveStage
      <4>5. \A q \in Parts : q \notin x.left => live'[q] = x.v
        BY <2>3, <3>2, <4>1, Zenon
      <4> QED
        BY <3>2, <4>2, <4>3, <4>4, <4>5, Zenon DEF SaveStage
    <3>5. LineageLoads'
      <4>1. w \in Saving'
        BY <3>2, <3>3, Zenon DEF Saving
      <4> QED
        BY <4>1, Zenon DEF LineageLoads
    <3>6. /\ me.pc \in Ordered /\ x.pc \in Ordered /\ x.pc # "accepted" /\ x.v \in Versions
          /\ arch' \in [Versions -> [Parts -> 0 .. MaxOrders]] /\ clean' \in BOOLEAN /\ saved' \in BOOLEAN
      BY <1>1, <1>2, <3>1, <3>2, Zenon DEF Ordered, SavingAt, TypeInv
    <3> QED
      BY <1>1, <2>2, <3>1, <3>2, <3>4, <3>5, <3>6, SaverStep, ZenonT(60)
  <2> QED
    BY <2>4, <2>5, Zenon
<1> QED
  BY <1>4, <1>5, Zenon DEF Symlink

\* RegisterCertificate, whether or not the save succeeded.
LEMMA InstallStep ==
  ASSUME MaxOrders \in Nat, OrdersInv, NEW w \in Workers, Install(w)
  PROVE  OrdersInv'
<1>1. /\ UNCHANGED <<ai, cur, mem, tokens, disk, orders>> /\ worker[w].pc = "install"
      /\ TypeInv /\ worker' = [worker EXCEPT ![w] = Gone]
      /\ held' = [full |-> worker[w].n, key |-> worker[w].n]
  BY ZenonT(60) DEF Install, OrdersInv
<1>2. worker[w].n \in 0 .. MaxOrders /\ worker[w].n # 0
  BY <1>1, SMTT(30) DEF OrdersInv, NumberInv, Ordered, TypeInv, Goroutines
<1>3. /\ held' \in [full : 0 .. MaxOrders, key : 0 .. MaxOrders]
      /\ held' # NoCert /\ held'.full = held'.key
  BY <1>1, <1>2, Zenon DEF NoCert
<1>4. Gone.pc \notin SavingAt /\ Gone.pc \notin Ordered /\ worker[w].pc \notin SavingAt
  BY <1>1, GoneFacts, Zenon DEF SavingAt, Ordered
<1>5. NumberInv' /\ TokenInv'
  BY <1>1, <1>4, GoneFacts, NumberStep, TokenStep, Zenon DEF OrdersInv
<1>6. SaveInv' /\ LineageLoads'
  BY <1>1, <1>4, GoneFacts, DiskStands, Zenon DEF OrdersInv
<1>7. RenewInv' /\ ObtainDriven'
  BY <1>1, <1>3, GoneFacts, DrivenStep, Zenon DEF OrdersInv
<1>8. TypeInv'
  BY <1>1, <1>3, GoneFacts, Moves, ZenonT(30) DEF TypeInv, disk
<1> QED
  BY <1>3, <1>5, <1>6, <1>7, <1>8, Zenon DEF OrdersInv, HeldIsAPair

\* A goroutine is started for the integration in place.
LEMMA SpawnStep ==
  ASSUME MaxOrders \in Nat, OrdersInv, NEW pc \in {"load", "order"}, NEW renews \in BOOLEAN,
         Spawn(cur, pc, renews), renews => held # NoCert,
         UNCHANGED <<cur, mem, tokens, disk, held, orders>>, ai' \in [{1, 2} -> Integrations]
  PROVE  OrdersInv'
<1> DEFINE w == CHOOSE w \in Idle : TRUE
           x == [Gone EXCEPT !.pc = pc, !.k = cur, !.renews = renews]
<1>1. w \in Workers /\ worker[w].pc = "none" /\ worker' = [worker EXCEPT ![w] = x]
  BY Zenon DEF Spawn, Idle, Busy
<1>2. cur \in {1, 2} /\ TypeInv
  BY Zenon DEF OrdersInv, TypeInv
<1>3. x \in Goroutines /\ x.pc = pc /\ x.k = cur /\ x.renews = renews
  BY <1>2, GoneFacts, ZenonT(60) DEF Goroutines, Places
<1> HIDE DEF w, x
<1>4. /\ worker'[w] = x /\ \A u \in Workers : u # w => worker'[u] = worker[u]
  BY <1>1, <1>2, <1>3, Moves, ZenonT(60) DEF TypeInv
<1>5. /\ x.pc \notin SavingAt /\ x.pc \notin Ordered /\ x.pc # "accepted" /\ x.pc # "none"
      /\ worker[w].pc \notin SavingAt
  BY <1>1, <1>3, Zenon DEF SavingAt, Ordered
<1>6. NumberInv' /\ TokenInv'
  BY <1>1, <1>3, <1>5, NumberStep, TokenStep, Zenon DEF OrdersInv
<1>7. SaveInv' /\ LineageLoads'
  BY <1>1, <1>3, <1>5, DiskStands, Zenon DEF OrdersInv
<1>8. RenewInv'
  BY <1>3, <1>4, Zenon DEF OrdersInv, RenewInv
<1>9. ObtainDriven'
  BY <1>1, <1>3, <1>4, <1>5, Zenon DEF ObtainDriven, Busy
<1>10. TypeInv'
  BY <1>1, <1>2, <1>3, Moves, Zenon DEF TypeInv, disk
<1> QED
  BY <1>6, <1>7, <1>8, <1>9, <1>10, Zenon DEF OrdersInv, HeldIsAPair

\* The integrations change and nothing else does.
LEMMA StandStep ==
  ASSUME OrdersInv, UNCHANGED <<worker, mem, tokens, disk, held, orders>>,
         ai' \in [{1, 2} -> Integrations], cur' \in {1, 2}, ObtainDriven'
  PROVE  OrdersInv'
<1>1. /\ worker' = worker /\ mem' = mem /\ tokens' = tokens /\ held' = held /\ orders' = orders
      /\ arch' = arch /\ live' = live /\ clean' = clean /\ saved' = saved
  BY Zenon DEF disk
<1>2. TypeInv'
  BY <1>1, Zenon DEF OrdersInv, TypeInv
<1>3. NumberInv' /\ TokenInv'
  BY <1>1, Zenon DEF OrdersInv, NumberInv, TokenInv
<1>4. SaveInv'
  BY <1>1, ZenonT(240) DEF OrdersInv, SaveInv, SaveStage
<1>5. RenewInv' /\ HeldIsAPair'
  BY <1>1, Zenon DEF OrdersInv, RenewInv, HeldIsAPair
<1>6. LineageLoads'
  <2>1. Saving' = Saving
    BY <1>1, Zenon DEF Saving
  <2> QED
    BY <1>1, <2>1, Zenon DEF OrdersInv, LineageLoads, IsPair
<1> QED
  BY <1>2, <1>3, <1>4, <1>5, <1>6, Zenon DEF OrdersInv

\* initialObtainAll, addDomain, renewAll and replaceACME.
LEMMA StartStep ==
  ASSUME MaxOrders \in Nat, OrdersInv,
         PrimeInitial \/ AddDomain \/ Renew \/ EnableACME \/ UNCHANGED vars
  PROVE  OrdersInv'
<1>1. ai \in [{1, 2} -> Integrations] /\ cur \in {1, 2} /\ ObtainDriven
  BY Zenon DEF OrdersInv, TypeInv
<1>2. CASE PrimeInitial
  <2>1. /\ UNCHANGED <<cur, mem, tokens, disk, held, orders>>
        /\ ai' = [ai EXCEPT ![cur].primed = TRUE]
    BY <1>2, Zenon DEF PrimeInitial
  <2>2. ai' \in [{1, 2} -> Integrations] /\ ai'[cur].managed = ai[cur].managed
    BY <1>1, <2>1, ZenonT(60) DEF Integrations
  <2>3. CASE ai[cur].managed
    BY <1>2, <2>1, <2>2, <2>3, SpawnStep, Zenon DEF PrimeInitial
  <2>4. CASE ~ai[cur].managed
    <3>1. ObtainDriven' /\ UNCHANGED worker
      BY <1>2, <2>1, <2>2, <2>4, Zenon DEF ObtainDriven, PrimeInitial
    <3> QED
      BY <1>1, <2>1, <2>2, <3>1, StandStep, Zenon
  <2> QED
    BY <2>3, <2>4, Zenon
<1>3. CASE AddDomain
  <2>1. ai' = [ai EXCEPT ![cur].managed = TRUE]
    BY <1>3, Zenon DEF AddDomain
  <2>2. ai' \in [{1, 2} -> Integrations]
    BY <1>1, <2>1, ZenonT(60) DEF Integrations
  <2> QED
    BY <1>3, <2>2, SpawnStep, Zenon DEF AddDomain
<1>4. CASE Renew
  BY <1>1, <1>4, SpawnStep, Zenon DEF Renew
<1>5. CASE EnableACME
  <2>1. /\ UNCHANGED <<worker, mem, tokens, disk, held, orders>> /\ cur' = 2
        /\ ai' = [ai EXCEPT ![1].stopped = TRUE, ![2] = Fresh(TRUE)]
    BY <1>5, Zenon DEF EnableACME
  <2>2. Fresh(TRUE) \in Integrations /\ Fresh(TRUE).primed = FALSE
    BY Zenon DEF Fresh, Integrations
  <2>3. ai' \in [{1, 2} -> Integrations] /\ ai'[2] = Fresh(TRUE)
    BY <1>1, <2>1, <2>2, ZenonT(60) DEF Integrations
  <2>4. ObtainDriven'
    BY <2>1, <2>2, <2>3, Zenon DEF ObtainDriven
  <2> QED
    BY <2>1, <2>3, <2>4, StandStep, Zenon
<1>6. CASE UNCHANGED vars
  <2>1. UNCHANGED <<ai, cur, worker, mem, tokens, disk, held, orders>>
    BY <1>6, Zenon DEF vars, disk
  <2>2. ObtainDriven'
    BY <1>1, <2>1, Zenon DEF ObtainDriven, Busy
  <2> QED
    BY <1>1, <2>1, <2>2, StandStep, Zenon
<1> QED
  BY <1>2, <1>3, <1>4, <1>5, <1>6, Zenon

\* The process ends, at any point of any save.
LEMMA CrashStep ==
  ASSUME MaxOrders \in Nat, OrdersInv, Crash
  PROVE  OrdersInv'
<1>1. /\ UNCHANGED <<tokens, arch, live, clean, orders>> /\ TypeInv
      /\ worker' = [w \in Workers |-> Gone] /\ mem' = [k \in {1, 2} |-> 0] /\ held' = NoCert
      /\ cur' = 1 /\ ai' = [k \in {1, 2} |-> Fresh(k = 1)] /\ saved' = (saved /\ Saving = {})
  BY Zenon DEF Crash, OrdersInv
<1>2. \A w \in Workers : /\ worker'[w].pc = "none" /\ ~worker'[w].renews
                         /\ worker'[w].pc \notin SavingAt /\ worker'[w].pc \notin Ordered
                         /\ worker'[w].pc # "accepted"
  BY <1>1, GoneFacts, Zenon DEF SavingAt, Ordered
<1>3. NumberInv' /\ TokenInv' /\ SaveInv' /\ RenewInv'
  BY <1>2, Zenon DEF NumberInv, TokenInv, SaveInv, RenewInv
<1>4. LineageLoads'
  BY <1>1, Zenon DEF OrdersInv, LineageLoads, IsPair
<1>5. ai' \in [{1, 2} -> Integrations] /\ ~ai'[1].primed
  <2>1. \A b \in BOOLEAN : Fresh(b) \in Integrations /\ ~Fresh(b).primed
    BY Zenon DEF Fresh, Integrations
  <2>2. \A k \in {1, 2} : (k = 1) \in BOOLEAN
    BY Zenon
  <2>3. \A k \in {1, 2} : Fresh(k = 1) \in Integrations /\ ~Fresh(k = 1).primed
    BY <2>1, <2>2, Zenon
  <2> QED
    BY <1>1, <2>3, Zenon
<1>6. ObtainDriven' /\ HeldIsAPair'
  BY <1>1, <1>5, Zenon DEF ObtainDriven, HeldIsAPair, NoCert
<1>7. TypeInv'
  <2>1. held' \in [full : 0 .. MaxOrders, key : 0 .. MaxOrders] /\ mem' \in [{1, 2} -> 0 .. MaxOrders]
    BY <1>1 DEF NoCert
  <2>2. worker' \in [Workers -> Goroutines]
    BY <1>1, GoneFacts, Zenon
  <2>3. saved' \in BOOLEAN
    <3>1. (saved /\ Saving = {}) \in BOOLEAN
      BY Zenon
    <3> QED
      BY <1>1, <3>1, Zenon
  <2> QED
    BY <1>1, <1>5, <2>1, <2>2, <2>3, Zenon DEF TypeInv
<1> QED
  BY <1>3, <1>4, <1>6, <1>7, Zenon DEF OrdersInv

---------------------------------------------------------------------------
(* The theorems.                                                             *)

\* A process that finds an empty directory.
LEMMA OrdersInit ==
  ASSUME MaxOrders \in Nat, Init PROVE OrdersInv
<1>1. PICK m \in BOOLEAN : ai = [k \in {1, 2} |-> Fresh(m /\ k = 1)]
  BY Zenon DEF Init
<1>2. /\ cur = 1 /\ worker = [w \in Workers |-> Gone] /\ mem = [k \in {1, 2} |-> 0] /\ tokens = {}
      /\ arch = [v \in Versions |-> NoFiles] /\ live = [p \in Parts |-> 0]
      /\ held = NoCert /\ orders = 0 /\ clean = TRUE /\ saved = FALSE
  BY Zenon DEF Init
<1>3. \A w \in Workers : /\ worker[w].pc = "none" /\ ~worker[w].renews
                         /\ worker[w].pc \notin SavingAt /\ worker[w].pc \notin Ordered
                         /\ worker[w].pc # "accepted"
  BY <1>2, GoneFacts, Zenon DEF SavingAt, Ordered
<1>4. ai \in [{1, 2} -> Integrations] /\ ~ai[1].primed
  <2>1. \A b \in BOOLEAN : Fresh(b) \in Integrations /\ ~Fresh(b).primed
    BY Zenon DEF Fresh, Integrations
  <2>2. \A k \in {1, 2} : (m /\ k = 1) \in BOOLEAN
    BY Zenon
  <2>3. \A k \in {1, 2} : Fresh(m /\ k = 1) \in Integrations /\ ~Fresh(m /\ k = 1).primed
    BY <2>1, <2>2, Zenon
  <2> QED
    BY <1>1, <2>3, Zenon
<1>5. TypeInv
  <2>1. 0 \in 0 .. MaxOrders
    OBVIOUS
  <2>2. NoCert \in [full : 0 .. MaxOrders, key : 0 .. MaxOrders]
    BY <2>1, Zenon DEF NoCert
  <2>3. NoFiles \in [Parts -> 0 .. MaxOrders]
    BY <2>1, Zenon DEF NoFiles
  <2>4. worker \in [Workers -> Goroutines]
    BY <1>2, GoneFacts, Zenon
  <2> QED
    BY <1>2, <1>4, <2>1, <2>2, <2>3, <2>4, Zenon DEF TypeInv
<1>6. NumberInv /\ TokenInv /\ SaveInv /\ RenewInv
  BY <1>3, Zenon DEF NumberInv, TokenInv, SaveInv, RenewInv
<1>7. HeldIsAPair /\ LineageLoads /\ ObtainDriven
  BY <1>2, <1>4, Zenon DEF HeldIsAPair, LineageLoads, ObtainDriven, NoCert
<1> QED
  BY <1>5, <1>6, <1>7, Zenon DEF OrdersInv

\* Every step keeps the invariant.
LEMMA OrdersStep ==
  ASSUME MaxOrders \in Nat, OrdersInv, [Next]_vars PROVE OrdersInv'
<1>1. CASE PrimeInitial \/ AddDomain \/ Renew \/ EnableACME \/ UNCHANGED vars
  BY <1>1, StartStep, Zenon
<1>2. CASE Crash
  BY <1>2, CrashStep, Zenon
<1>3. ASSUME NEW w \in Workers,
             \/ LoadChain(w) \/ LoadKey(w) \/ OrderFails(w) \/ PointsElsewhere(w) \/ Sleep(w)
             \/ OrderReady(w) \/ Authorized(w) \/ ChallengeFails(w) \/ FinalizeFails(w)
      PROVE  OrdersInv'
  BY <1>3, LoadStep, WaitStep, OrderStep, ChallengeStep, Zenon
<1>4. ASSUME NEW w \in Workers,
             \/ Finalized(w) \/ WriteArchive(w, "full", "key") \/ WriteArchive(w, "key", "link")
             \/ Symlink(w) \/ SaveFails(w) \/ Install(w)
      PROVE  OrdersInv'
  BY <1>4, FinalizedStep, WriteStep, LinkStep, InstallStep, Zenon
<1>5. ASSUME NEW w \in Workers, NEW wrote \in BOOLEAN, OfferChallenge(w, wrote)
      PROVE  OrdersInv'
  BY <1>5, OrderStep, Zenon
<1>6. ASSUME NEW w \in Workers, NEW p \in Parts, RemoveLink(w, p)
      PROVE  OrdersInv'
  BY <1>6, RemoveStep, Zenon
<1> QED
  BY <1>1, <1>2, <1>3, <1>4, <1>5, <1>6, Zenon DEF Next

\* The invariant of the orders for a name, of which the theorems below are parts.
THEOREM OrdersInductive == ASSUME MaxOrders \in Nat PROVE Spec => []OrdersInv
<1>1. Init => OrdersInv
  BY OrdersInit, Zenon
<1>2. OrdersInv /\ [Next]_vars => OrdersInv'
  BY OrdersStep, Zenon
<1> QED
  BY <1>1, <1>2, PTL DEF Spec

\* The types of the files, the links and the goroutines.
THEOREM TypeCorrect == ASSUME MaxOrders \in Nat PROVE Spec => []TypeOK
<1>1. OrdersInv => TypeOK
  BY Zenon DEF OrdersInv, TypeInv, TypeOK, Goroutines
<1> QED
  BY <1>1, OrdersInductive, PTL

\* tryLoadCached, obtain: a handshake is never answered with the chain of one order and
\* the key of another.
THEOREM HeldCertIsAPair == ASSUME MaxOrders \in Nat PROVE Spec => []HeldIsAPair
<1>1. OrdersInv => HeldIsAPair
  BY Zenon DEF OrdersInv
<1> QED
  BY <1>1, OrdersInductive, PTL

\* HandleHTTP01, cleanupChallenge: a challenge whose file was written is served until its
\* own order cleans up, whatever other orders and integrations do.
THEOREM ChallengeIsServed == ASSUME MaxOrders \in Nat PROVE Spec => []ChallengeServed
<1>1. OrdersInv => ChallengeServed
  BY Zenon DEF OrdersInv, TokenInv, ChallengeServed, HandleHTTP01
<1> QED
  BY <1>1, OrdersInductive, PTL

\* saveCertbotLineage: a save that succeeded alone is one the next start loads, whatever
\* crashes and failures came before it.
THEOREM LineageIsLoadable == ASSUME MaxOrders \in Nat PROVE Spec => []LineageLoads
<1>1. OrdersInv => LineageLoads
  BY Zenon DEF OrdersInv
<1> QED
  BY <1>1, OrdersInductive, PTL

\* obtainWithRetry: a managed name without a certificate is never given up.
THEOREM ObtainIsDriven == ASSUME MaxOrders \in Nat PROVE Spec => []ObtainDriven
<1>1. OrdersInv => ObtainDriven
  BY Zenon DEF OrdersInv
<1> QED
  BY <1>1, OrdersInductive, PTL
=============================================================================
