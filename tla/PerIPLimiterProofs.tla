-------------------------- MODULE PerIPLimiterProofs ---------------------------
(* Proofs about PerIPLimiter, for any number of clients and any limit that stays *)
(* on.                                                                           *)
EXTENDS PerIPLimiter, FiniteSetTheorems, TLAPS

\* Clients that hold a counter which may have left the map.
Stale(p) == cl[p].at \in {"read", "drop", "cas"}

\* The limit stays on, so nobody is admitted without a share and no release goes
\* below zero.
AlwaysOn ==
    /\ on
    /\ \A p \in Clients : cl[p].at \notin {"free", "undo"}

\* The counter of a client with a share is the mapped one, and counts the shares.
SharesInv ==
    /\ \A p \in Holders : cl[p].counter # Nil /\ cl[p].counter = entry
    /\ entry # Nil => \/ n[entry] = Cardinality(Holders)
                      \/ n[entry] = Dead /\ Holders = {}

\* A counter that somebody still refers to after it left the map is dead.
DeadInv ==
    /\ \A p \in Clients :
          Stale(p) => /\ cl[p].counter # Nil
                      /\ cl[p].counter = entry \/ n[cl[p].counter] = Dead
    /\ \A p \in Clients : At(p, "drop") => n[cl[p].counter] = Dead
    /\ \A p \in Clients : At(p, "cas") => cl[p].cur \in 0..(Limit - 1)
    /\ sweeper.at # "idle" => /\ sweeper.counter # Nil
                              /\ sweeper.counter = entry \/ n[sweeper.counter] = Dead
    /\ sweeper.at = "unmap" => n[sweeper.counter] = Dead

\* The inductive invariant.
IInv == TypeOK /\ AlwaysOn /\ SharesInv /\ DeadInv

\* Shares are countable, and the dead value is below zero.
LEMMA HoldersFinite ==
    ASSUME IInv
    PROVE  IsFiniteSet(Holders) /\ Cardinality(Holders) \in Nat /\ Dead \in Int /\ Dead < 0
<1>1. IsFiniteSet(Clients)
  BY LimiterAssumption, Zenon
<1>2. IsFiniteSet(Holders)
  BY <1>1, FS_Subset, Zenon DEF Holders
<1>3. Cardinality(Holders) \in Nat /\ Cardinality(Clients) \in Nat
  BY <1>1, <1>2, FS_CardinalityType, Zenon
<1> QED
  BY <1>2, <1>3, LimiterAssumption

\* One more share raises the count by one.
LEMMA OneMore ==
    ASSUME NEW H, NEW G, NEW p, IsFiniteSet(H), p \notin H, G = H \cup {p}
    PROVE  IsFiniteSet(G) /\ Cardinality(G) = Cardinality(H) + 1
  BY FS_AddElement, Zenon

\* One share less lowers it by one.
LEMMA OneLess ==
    ASSUME NEW H, NEW G, NEW p, IsFiniteSet(H), p \in H, G = H \ {p}
    PROVE  IsFiniteSet(G) /\ Cardinality(G) = Cardinality(H) - 1
  BY FS_RemoveElement, Zenon

\* The limiter starts empty.
LEMMA InitHolds ==
    ASSUME Init
    PROVE  IInv
<1>1. TypeOK
  BY LimiterAssumption DEF Init, TypeOK, Idle, Swept, Steps
<1>2. Holders = {}
  BY Zenon DEF Init, Holders, Idle
<1> QED
  BY <1>1, <1>2, Zenon DEF Init, IInv, AlwaysOn, SharesInv, DeadInv, Stale, At, Idle, Swept

\* A client arrives.
LEMMA ArriveKeeps ==
    ASSUME IInv, NEW p \in Clients, Arrive(p), UNCHANGED dynamic
    PROVE  IInv'
<1> USE LimiterAssumption, HoldersFinite DEF Arrive
<1>1. TypeOK'
  BY SMTT(30) DEF IInv, TypeOK, Steps, GoTo
<1>2. AlwaysOn'
  BY ZenonT(60) DEF IInv, TypeOK, AlwaysOn, At, GoTo
<1>3. Holders' = Holders
  BY ZenonT(60) DEF IInv, TypeOK, Holders, At, GoTo
<1>4. SharesInv'
  BY <1>3, ZenonT(60) DEF IInv, Holders, TypeOK, SharesInv, At, GoTo
<1>5. DeadInv'
  BY DEF IInv, TypeOK, DeadInv, Stale, At, GoTo
<1> QED
  BY <1>1, <1>2, <1>4, <1>5, Zenon DEF IInv

\* hold looks the address up.
LEMMA LoadKeeps ==
    ASSUME IInv, NEW p \in Clients, Load(p), UNCHANGED dynamic
    PROVE  IInv'
<1> USE LimiterAssumption, HoldersFinite DEF Load
<1>1. TypeOK'
  BY DEF IInv, TypeOK, Steps, GoTo, Take
<1>2. AlwaysOn'
  BY SMTT(30) DEF IInv, TypeOK, AlwaysOn, At, GoTo, Take
<1>3. Holders' = Holders
  BY SMTT(30) DEF IInv, TypeOK, Holders, At, GoTo, Take
<1>4. SharesInv'
  BY <1>3, ZenonT(60) DEF IInv, Holders, TypeOK, SharesInv, At, GoTo, Take
<1>5. DeadInv'
  BY SMTT(30) DEF IInv, TypeOK, DeadInv, Stale, At, GoTo, Take
<1> QED
  BY <1>1, <1>2, <1>4, <1>5, ZenonT(60) DEF IInv

\* hold stores a new counter, or takes the one it finds.
LEMMA LoadOrStoreKeeps ==
    ASSUME IInv, NEW p \in Clients, LoadOrStore(p), UNCHANGED dynamic
    PROVE  IInv'
<1> USE LimiterAssumption, HoldersFinite DEF LoadOrStore
<1>1. TypeOK'
  BY SMTT(30) DEF IInv, TypeOK, Steps, Take, Fresh
<1>2. AlwaysOn'
  BY DEF IInv, TypeOK, AlwaysOn, At, Take, Fresh
<1>3. Holders' = Holders
  BY SMTT(30) DEF IInv, TypeOK, Holders, At, Take, Fresh
<1>4. SharesInv'
  <2>1. CASE entry # Nil
    BY <1>3, <2>1, ZenonT(60) DEF IInv, Holders, SharesInv, TypeOK, At, Take
  <2>2. CASE entry = Nil
    <3>1. Holders = {}
      BY <2>2, Zenon DEF IInv, SharesInv
    <3>2. Cardinality(Holders) = 0
      BY <3>1, FS_EmptySet, Zenon
    <3>3. PICK c \in Counters : entry' = c /\ n' = [n EXCEPT ![c] = 0]
      BY <2>2, Zenon
    <3>4. n'[entry'] = 0
      BY <3>3, ZenonT(60) DEF IInv, TypeOK
    <3> QED
      BY <1>3, <3>1, <3>2, <3>4, Zenon DEF SharesInv
  <2> QED
    BY <2>1, <2>2, Zenon
<1>5. DeadInv'
  BY SMTT(60) DEF IInv, TypeOK, SharesInv, DeadInv, Steps, Stale, At, Take, Fresh
<1> QED
  BY <1>1, <1>2, <1>4, <1>5, Zenon DEF IInv

\* hold reads the counter.
LEMMA ReadKeeps ==
    ASSUME IInv, NEW p \in Clients, Read(p), UNCHANGED dynamic
    PROVE  IInv'
<1> USE LimiterAssumption, HoldersFinite DEF Read
<1>0. cl[p].counter \in Counters /\ n[cl[p].counter] \in Int
  BY Zenon DEF IInv, TypeOK, DeadInv, Stale, At
<1>1. TypeOK'
  <2> DEFINE cur == n[cl[p].counter]
             T == [at : Steps, counter : Counters \cup {Nil}, cur : Int]
  <2>a. cl \in [Clients -> T]
    BY Zenon DEF IInv, TypeOK
  <2>b. Idle \in T /\ [cl[p] EXCEPT !.at = "drop"] \in T
    BY <2>a DEF Idle, Steps
  <2>c. [cl[p] EXCEPT !.at = "cas", !.cur = cur] \in T
    BY <1>0, <2>a, ZenonT(60) DEF Steps
  <2>1. cl' \in [Clients -> T]
    BY <2>a, <2>b, <2>c, Zenon
  <2> QED
    BY <2>1, Zenon DEF IInv, TypeOK
<1>2. AlwaysOn'
  BY ZenonT(60) DEF IInv, TypeOK, AlwaysOn, At, Idle
<1>3. Holders' = Holders
  BY ZenonT(60) DEF IInv, TypeOK, Holders, At, Idle
<1>4. SharesInv'
  BY <1>3, ZenonT(60) DEF IInv, Holders, TypeOK, SharesInv, At, Idle
<1>5. DeadInv'
  <2> DEFINE cur == n[cl[p].counter]
  <2>1. /\ cl[p].at = "read" /\ UNCHANGED <<entry, n, sweeper>>
        /\ cl[p].counter # Nil /\ (cl[p].counter = entry \/ cur = Dead)
    BY Zenon DEF IInv, DeadInv, Stale, At
  <2>2. cur < 0 => cur = Dead
    <3>1. CASE cl[p].counter = entry
      <4>1. cur = Cardinality(Holders) \/ cur = Dead
        BY <2>1, <3>1, Zenon DEF IInv, SharesInv
      <4>2. Cardinality(Holders) \in Nat
        BY Zenon DEF IInv
      <4> QED
        BY <4>1, <4>2
    <3> QED
      BY <2>1, <3>1, Zenon
  <2>3. /\ \A q \in Clients : q # p => cl'[q] = cl[q]
        /\ cur < 0 => cl'[p].at = "drop" /\ cl'[p].counter = cl[p].counter
        /\ ~(cur < 0) /\ cur >= Limit => cl'[p] = Idle
        /\ ~(cur < 0) /\ ~(cur >= Limit) =>
              cl'[p].at = "cas" /\ cl'[p].counter = cl[p].counter /\ cl'[p].cur = cur
    BY ZenonT(60) DEF IInv, TypeOK
  <2>4. Idle.at = "idle" /\ (~(cur < 0) /\ ~(cur >= Limit) => cur \in 0..(Limit - 1))
    BY <1>0 DEF Idle
  <2>5. /\ Stale(p)' => cl'[p].counter # Nil /\ (cl'[p].counter = entry \/ n[cl'[p].counter] = Dead)
        /\ cl'[p].at = "drop" => n[cl'[p].counter] = Dead
        /\ cl'[p].at = "cas" => cl'[p].cur \in 0..(Limit - 1)
    BY <2>1, <2>2, <2>3, <2>4, Zenon DEF Stale
  <2> HIDE DEF cur
  <2>6. ASSUME NEW q \in Clients
        PROVE  (/\ Stale(q) => cl[q].counter # Nil /\ (cl[q].counter = entry \/ n[cl[q].counter] = Dead)
                /\ At(q, "drop") => n[cl[q].counter] = Dead
                /\ At(q, "cas") => cl[q].cur \in 0..(Limit - 1))'
    <3>1. CASE q = p
      BY <2>1, <2>5, <3>1, Zenon DEF At
    <3>2. CASE q # p
      <4>1. cl'[q] = cl[q]
        BY <2>3, <3>2, Zenon
      <4> QED
        BY <2>1, <4>1, ZenonT(60) DEF IInv, DeadInv, Stale, At
    <3> QED
      BY <3>1, <3>2, Zenon
  <2>7. (/\ sweeper.at # "idle" => sweeper.counter # Nil /\ (sweeper.counter = entry \/ n[sweeper.counter] = Dead)
         /\ sweeper.at = "unmap" => n[sweeper.counter] = Dead)'
    BY <2>1, Zenon DEF IInv, DeadInv
  <2> QED
    BY <2>6, <2>7, Zenon DEF DeadInv
<1> QED
  BY <1>1, <1>2, <1>4, <1>5, Zenon DEF IInv

\* hold drops a dead counter.
LEMMA DropKeeps ==
    ASSUME IInv, NEW p \in Clients, Drop(p), UNCHANGED dynamic
    PROVE  IInv'
<1> USE LimiterAssumption, HoldersFinite DEF Drop
<1>1. TypeOK'
  BY ZenonT(240) DEF IInv, TypeOK, Steps, Deleted
<1>2. AlwaysOn'
  BY ZenonT(60) DEF IInv, TypeOK, AlwaysOn, At, Deleted
<1>3. Holders' = Holders
  BY ZenonT(60) DEF IInv, TypeOK, Holders, At, Deleted
<1>4. SharesInv'
  BY <1>3, SMTT(30) DEF IInv, Holders, TypeOK, SharesInv, DeadInv, Stale, At, Deleted
<1>5. DeadInv'
  BY DEF IInv, TypeOK, DeadInv, Stale, At, Deleted
<1> QED
  BY <1>1, <1>2, <1>4, <1>5, ZenonT(60) DEF IInv

\* A slot is about to be released.
LEMMA ReleaseSlotKeeps ==
    ASSUME IInv, NEW p \in Clients, ReleaseSlot(p), UNCHANGED dynamic
    PROVE  IInv'
<1> USE LimiterAssumption, HoldersFinite DEF ReleaseSlot
<1>1. TypeOK'
  BY ZenonT(60) DEF IInv, TypeOK, Steps, GoTo
<1>2. AlwaysOn'
  BY ZenonT(60) DEF IInv, TypeOK, AlwaysOn, At, GoTo
<1>3. Holders' = Holders
  BY ZenonT(30) DEF IInv, TypeOK, Holders, At, GoTo
<1>4. SharesInv'
  BY <1>3, ZenonT(120) DEF IInv, Holders, TypeOK, SharesInv, At, GoTo
<1>5. DeadInv'
  BY ZenonT(60) DEF IInv, TypeOK, DeadInv, Stale, At, GoTo
<1> QED
  BY <1>1, <1>2, <1>4, <1>5, Zenon DEF IInv

\* A share is about to be released by address.
LEMMA ReleaseAddrKeeps ==
    ASSUME IInv, NEW p \in Clients, ReleaseAddr(p), UNCHANGED dynamic
    PROVE  IInv'
<1> USE LimiterAssumption, HoldersFinite DEF ReleaseAddr
<1>1. TypeOK'
  BY ZenonT(120) DEF IInv, TypeOK, Steps, GoTo
<1>2. AlwaysOn'
  BY ZenonT(60) DEF IInv, TypeOK, AlwaysOn, At, GoTo
<1>3. Holders' = Holders
  BY ZenonT(60) DEF IInv, TypeOK, AlwaysOn, Holders, At, GoTo
<1>4. SharesInv'
  <2>1. \A q \in Clients : cl'[q].counter = cl[q].counter
    BY Zenon DEF IInv, TypeOK, GoTo
  <2>2. Holders \subseteq Clients
    BY Zenon DEF Holders
  <2> QED
    BY <1>3, <2>1, <2>2, Zenon DEF IInv, SharesInv
<1>5. DeadInv'
  BY ZenonT(60) DEF IInv, TypeOK, DeadInv, Stale, At, GoTo
<1> QED
  BY <1>1, <1>2, <1>4, <1>5, Zenon DEF IInv

\* release finds the counter.
LEMMA FindKeeps ==
    ASSUME IInv, NEW p \in Clients, Find(p), UNCHANGED dynamic
    PROVE  IInv'
<1> USE LimiterAssumption, HoldersFinite DEF Find
<1>0. entry \in Counters /\ entry # Nil /\ cl[p].counter = entry
  BY Zenon DEF IInv, TypeOK, SharesInv, Holders, At
<1>a. cl' = [cl EXCEPT ![p] = [@ EXCEPT !.at = "sub", !.counter = entry]]
  BY <1>0, Zenon
<1> HIDE DEF Find
<1>b. At(p, "find") /\ UNCHANGED <<entry, n, on, sweeper>>
  BY Zenon DEF Find
<1>1. TypeOK'
  BY <1>0, <1>a, <1>b, ZenonT(240) DEF IInv, TypeOK, Steps
<1>2. AlwaysOn'
  BY <1>a, <1>b, ZenonT(60) DEF IInv, TypeOK, AlwaysOn, At, Idle
<1>3. Holders' = Holders
  BY <1>a, <1>b, ZenonT(30) DEF IInv, TypeOK, Holders, At, Idle
<1>4. SharesInv'
  <2>1. \A q \in Clients : cl'[q].counter = cl[q].counter
    BY <1>0, <1>a, ZenonT(30) DEF IInv, TypeOK
  <2>2. Holders \subseteq Clients
    BY Zenon DEF Holders
  <2> QED
    BY <1>3, <1>b, <2>1, <2>2, Zenon DEF IInv, SharesInv
<1>5. DeadInv'
  BY <1>a, <1>b, ZenonT(120) DEF IInv, TypeOK, DeadInv, Stale, At, Idle
<1> QED
  BY <1>1, <1>2, <1>4, <1>5, Zenon DEF IInv

\* sweep comes to the entry.
LEMMA VisitKeeps ==
    ASSUME IInv, Visit, UNCHANGED dynamic
    PROVE  IInv'
<1> USE LimiterAssumption, HoldersFinite DEF Visit
<1>1. TypeOK'
  BY Zenon DEF IInv, TypeOK, Steps
<1>2. AlwaysOn'
  BY Zenon DEF IInv, TypeOK, AlwaysOn, At
<1>3. Holders' = Holders
  BY Zenon DEF IInv, TypeOK, Holders, At
<1>4. SharesInv'
  BY <1>3, Zenon DEF IInv, Holders, TypeOK, SharesInv, At
<1>5. DeadInv'
  BY Zenon DEF IInv, TypeOK, DeadInv, Stale, At
<1> QED
  BY <1>1, <1>2, <1>4, <1>5, Zenon DEF IInv

\* sweep marks a counter nobody has a share of.
LEMMA MarkKeeps ==
    ASSUME IInv, Mark, UNCHANGED dynamic
    PROVE  IInv'
<1> USE LimiterAssumption, HoldersFinite DEF Mark
<1>1. TypeOK'
  BY DEF IInv, TypeOK, Steps, Swept
<1>2. AlwaysOn'
  BY Zenon DEF IInv, TypeOK, AlwaysOn, At, Swept
<1>3. Holders' = Holders
  BY Zenon DEF IInv, TypeOK, Holders, At, Swept
<1>4. SharesInv'
  <2>1. CASE n[sweeper.counter] = 0
    <3>1. sweeper.counter = entry /\ entry \in Counters
      BY <2>1 DEF IInv, DeadInv, TypeOK
    <3>2. Cardinality(Holders) = 0
      BY <2>1, <3>1 DEF IInv, SharesInv
    <3>3. Holders = {}
      BY <3>2, FS_EmptySet, Zenon
    <3>4. n'[entry] = Dead
      BY <2>1, <3>1, Zenon DEF IInv, TypeOK
    <3> QED
      BY <1>3, <3>3, <3>4, Zenon DEF SharesInv
  <2>2. CASE n[sweeper.counter] # 0
    BY <1>3, <2>2, ZenonT(60) DEF IInv, SharesInv
  <2> QED
    BY <2>1, <2>2, Zenon
<1>5. DeadInv'
  BY DEF IInv, TypeOK, DeadInv, Stale, At, Swept
<1> QED
  BY <1>1, <1>2, <1>4, <1>5, Zenon DEF IInv

\* sweep deletes the counter it marked.
LEMMA UnmapKeeps ==
    ASSUME IInv, Unmap, UNCHANGED dynamic
    PROVE  IInv'
<1> USE LimiterAssumption, HoldersFinite DEF Unmap
<1>1. TypeOK'
  BY Zenon DEF IInv, TypeOK, Steps, Swept, Deleted
<1>2. AlwaysOn'
  BY Zenon DEF IInv, TypeOK, AlwaysOn, At, Swept, Deleted
<1>3. Holders' = Holders
  BY ZenonT(60) DEF IInv, TypeOK, Holders, At, Swept, Deleted
<1>4. SharesInv'
  BY <1>3 DEF IInv, Holders, TypeOK, SharesInv, DeadInv, At, Swept, Deleted
<1>5. DeadInv'
  BY Zenon DEF IInv, TypeOK, DeadInv, Stale, At, Swept, Deleted
<1> QED
  BY <1>1, <1>2, <1>4, <1>5, Zenon DEF IInv

\* hold takes a share, if the counter is still what it read.
LEMMA SwapKeeps ==
    ASSUME IInv, NEW p \in Clients, Swap(p), UNCHANGED dynamic
    PROVE  IInv'
<1> USE LimiterAssumption, HoldersFinite
<1> DEFINE c == cl[p].counter
<1>1. c \in Counters /\ n[c] \in Int /\ cl[p].cur \in 0..(Limit - 1) /\ At(p, "cas")
  BY Zenon DEF IInv, TypeOK, DeadInv, Stale, At, Swap
<1>2. CASE n[c] # cl[p].cur
  <2>1. cl' = [cl EXCEPT ![p].at = "read", ![p].cur = 0] /\ UNCHANGED <<n, entry, on, sweeper>>
    BY <1>2, Zenon DEF Swap
  <2>2. TypeOK' /\ AlwaysOn'
    <3>1. cl' \in [Clients -> [at : Steps, counter : Counters \cup {Nil}, cur : Int]]
      <4> DEFINE T == [at : Steps, counter : Counters \cup {Nil}, cur : Int]
      <4>1. cl \in [Clients -> T] /\ "read" \in Steps
        BY Zenon DEF IInv, TypeOK, Steps
      <4> DEFINE moved == [cl EXCEPT ![p].at = "read"]
      <4>2. moved \in [Clients -> T]
        BY <4>1, Zenon
      <4>3. cl' = [moved EXCEPT ![p].cur = 0]
        BY <2>1, Zenon
      <4> HIDE DEF moved
      <4> QED
        BY <4>2, <4>3
    <3>2. TypeOK'
      BY <2>1, <3>1, Zenon DEF IInv, TypeOK
    <3> QED
      BY <2>1, <3>2, ZenonT(120) DEF IInv, TypeOK, AlwaysOn
  <2>3. Holders' = Holders
    BY <1>1, <2>1, ZenonT(60) DEF IInv, TypeOK, Holders, At
  <2>4. \A q \in Clients : cl'[q].counter = cl[q].counter
    BY <2>1, ZenonT(30) DEF IInv, TypeOK
  <2>5. SharesInv'
    BY <2>1, <2>3, <2>4, ZenonT(60) DEF IInv, SharesInv, Holders
  <2>6. DeadInv'
    BY <1>1, <2>1, SMTT(30) DEF IInv, TypeOK, DeadInv, Stale, At
  <2> QED
    BY <2>2, <2>5, <2>6, Zenon DEF IInv
<1>3. CASE n[c] = cl[p].cur
  <2>1. /\ n' = [n EXCEPT ![c] = @ + 1]
        /\ cl' = [cl EXCEPT ![p].at = "held", ![p].cur = 0]
        /\ UNCHANGED <<entry, on, sweeper>>
    BY <1>3, ZenonT(60) DEF Swap
  <2>2. c = entry /\ n[c] = Cardinality(Holders) /\ n[c] # Dead
    BY <1>1, <1>3, SMTT(30) DEF IInv, TypeOK, DeadInv, SharesInv, Stale, At
  <2>3. TypeOK' /\ AlwaysOn'
    <3>1. n' \in [Counters -> Int] /\ \A d \in Counters : n'[d] <= Limit
      BY <1>1, <1>3, <2>1, SMTT(30) DEF IInv, TypeOK
    <3>2. cl' \in [Clients -> [at : Steps, counter : Counters \cup {Nil}, cur : Int]]
      <4> DEFINE T == [at : Steps, counter : Counters \cup {Nil}, cur : Int]
      <4>1. cl \in [Clients -> T] /\ "held" \in Steps
        BY Zenon DEF IInv, TypeOK, Steps
      <4> DEFINE moved == [cl EXCEPT ![p].at = "held"]
      <4>2. moved \in [Clients -> T]
        BY <4>1, Zenon
      <4>3. cl' = [moved EXCEPT ![p].cur = 0]
        BY <2>1, Zenon
      <4> HIDE DEF moved
      <4> QED
        BY <4>2, <4>3
    <3>3. TypeOK'
      BY <2>1, <3>1, <3>2, Zenon DEF IInv, TypeOK
    <3> QED
      BY <2>1, <3>3, SMTT(30) DEF IInv, TypeOK, AlwaysOn
  <2>4. p \notin Holders /\ Holders' = Holders \cup {p}
    BY <1>1, <2>1, ZenonT(60) DEF IInv, TypeOK, Holders, At
  <2>5. Cardinality(Holders') = Cardinality(Holders) + 1
    BY <2>4, OneMore, Zenon
  <2>6. \A q \in Clients : cl'[q].counter = cl[q].counter
    BY <2>1, ZenonT(30) DEF IInv, TypeOK
  <2>7. n'[entry'] = Cardinality(Holders')
    BY <1>1, <2>1, <2>2, <2>5, Zenon DEF IInv, TypeOK
  <2>8. \A q \in Holders' : cl'[q].counter # Nil /\ cl'[q].counter = entry'
    BY <1>1, <2>1, <2>2, <2>4, <2>6, ZenonT(60) DEF IInv, SharesInv, Holders
  <2>9. SharesInv'
    BY <2>7, <2>8, Zenon DEF SharesInv
  <2>10. \A d \in Counters : n[d] = Dead => n'[d] = Dead
    BY <1>1, <2>1, <2>2, Zenon DEF IInv, TypeOK
  <2>11. DeadInv'
    BY <1>1, <2>1, <2>10, SMTT(30) DEF IInv, TypeOK, DeadInv, Stale, At
  <2> QED
    BY <2>3, <2>9, <2>11, Zenon DEF IInv
<1> QED
  BY <1>2, <1>3, Zenon

\* A share is given back.
LEMMA SubKeeps ==
    ASSUME IInv, NEW p \in Clients, Sub(p), UNCHANGED dynamic
    PROVE  IInv'
<1> USE LimiterAssumption, HoldersFinite
<1> DEFINE c == cl[p].counter
<1>1. At(p, "sub") /\ p \in Holders
  BY Zenon DEF Sub, Holders, At
<1>2. c \in Counters /\ c = entry /\ n[c] = Cardinality(Holders)
  BY <1>1, Zenon DEF IInv, TypeOK, SharesInv
<1>3. Cardinality(Holders \ {p}) = Cardinality(Holders) - 1 /\ Cardinality(Holders) - 1 >= 0
  <2>1. IsFiniteSet(Holders \ {p}) /\ Cardinality(Holders \ {p}) = Cardinality(Holders) - 1
    BY <1>1, OneLess, Zenon
  <2>2. Cardinality(Holders \ {p}) \in Nat
    BY <2>1, FS_CardinalityType, Zenon
  <2> QED
    BY <2>1, <2>2
<1>4. /\ n' = [n EXCEPT ![c] = @ - 1]
      /\ cl' = [cl EXCEPT ![p] = Idle]
      /\ UNCHANGED <<entry, on, sweeper>>
  <2>1. ~(n[c] - 1 < 0)
    BY <1>2, <1>3
  <2> QED
    BY <2>1, Zenon DEF Sub
<1>5. TypeOK' /\ AlwaysOn'
  <2>1. n' \in [Counters -> Int] /\ \A d \in Counters : n'[d] <= Limit
    BY <1>2, <1>4 DEF IInv, TypeOK
  <2> QED
    BY <1>4, <2>1 DEF IInv, TypeOK, AlwaysOn, Steps, Idle
<1>6. Holders' = Holders \ {p}
  BY <1>4, Zenon DEF IInv, TypeOK, Holders, Idle
<1>7. n'[entry'] = Cardinality(Holders')
  BY <1>2, <1>3, <1>4, <1>6, Zenon DEF IInv, TypeOK
<1>8. \A q \in Holders' : cl'[q].counter # Nil /\ cl'[q].counter = entry'
  BY <1>4, <1>6, Zenon DEF IInv, TypeOK, SharesInv, Holders
<1>9. SharesInv'
  BY <1>7, <1>8, Zenon DEF SharesInv
<1>10. \A d \in Counters : n[d] = Dead => n'[d] = Dead
  BY <1>2, <1>4, SMTT(30) DEF IInv, TypeOK
<1>11. DeadInv'
  BY <1>2, <1>4, <1>10, ZenonT(60) DEF IInv, TypeOK, DeadInv, Stale, At, Idle
<1> QED
  BY <1>5, <1>9, <1>11, Zenon DEF IInv

\* Every step keeps the invariant, and so does stuttering.
LEMMA NextKeeps ==
    ASSUME IInv, [Next]_vars, ~dynamic
    PROVE  IInv'
<1>1. CASE UNCHANGED vars
  BY <1>1, Zenon DEF vars, IInv, TypeOK, AlwaysOn, SharesInv, DeadInv, Stale, At, Holders
<1>2. ASSUME NEW p \in Clients, End(p) \/ Undo(p)
      PROVE  FALSE
  BY <1>2, Zenon DEF IInv, AlwaysOn, End, Undo, At
<1>3. ~SwitchLimit
  BY Zenon DEF SwitchLimit
<1> QED
  BY <1>1, <1>2, <1>3, ArriveKeeps, LoadKeeps, LoadOrStoreKeeps, ReadKeeps, DropKeeps,
     SwapKeeps, ReleaseSlotKeeps, ReleaseAddrKeeps, FindKeeps, SubKeeps, VisitKeeps,
     MarkKeeps, UnmapKeeps, Zenon DEF Next

\* hold, release and sweep: while the limit stays on, the invariant always holds.
LEMMA Invariance ==
    Spec => [](~dynamic => IInv)
<1>1. Init => (~dynamic => IInv)
  BY InitHolds, Zenon
<1>2. (~dynamic => IInv) /\ [Next]_vars => (~dynamic => IInv)'
  <2> SUFFICES ASSUME ~dynamic => IInv, [Next]_vars, ~dynamic'
               PROVE  IInv'
    BY Zenon
  <2>1. dynamic' = dynamic
    BY Zenon DEF Next, vars
  <2> QED
    BY <2>1, NextKeeps, Zenon
<1> QED
  BY <1>1, <1>2, PTL DEF Spec

\* hold, release and sweep: while the limit stays on, counters keep their types and
\* never pass it.
THEOREM TypeCorrect ==
    Spec => [](~dynamic => TypeOK)
  BY Invariance, PTL DEF IInv

\* MaxConnsPerIP, MaxRequestsPerIP: for any number of clients and any limit that
\* stays on, no address has more shares than the limit.
THEOREM LimitHolds ==
    Spec => []HeldWithinLimit
<1>1. ASSUME ~dynamic => IInv
      PROVE  HeldWithinLimit
  <2> SUFFICES ASSUME ~dynamic, IInv
               PROVE  Cardinality({p \in Clients : At(p, "held")}) <= Limit
    BY <1>1, Zenon DEF HeldWithinLimit
  <2> DEFINE held == {p \in Clients : At(p, "held")}
  <2>1. held \subseteq Holders
    BY Zenon DEF Holders, At
  <2>2. IsFiniteSet(Holders) /\ Cardinality(Holders) \in Nat
    BY HoldersFinite, Zenon
  <2>3. Cardinality(held) <= Cardinality(Holders) /\ Cardinality(held) \in Nat
    BY <2>1, <2>2, FS_Subset, FS_CardinalityType, Zenon
  <2>4. CASE Holders = {}
    <3>1. Cardinality(Holders) = 0
      BY <2>4, FS_EmptySet, Zenon
    <3> QED
      BY <2>2, <2>3, <3>1, LimiterAssumption
  <2>5. CASE Holders # {}
    <3>1. entry \in Counters /\ n[entry] = Cardinality(Holders)
      BY <2>5, Zenon DEF IInv, TypeOK, SharesInv
    <3>2. Cardinality(Holders) <= Limit
      BY <3>1, Zenon DEF IInv, TypeOK
    <3> QED
      BY <2>2, <2>3, <3>2, LimiterAssumption
  <2> QED
    BY <2>4, <2>5, Zenon
<1> QED
  BY <1>1, Invariance, PTL

\* hold and sweep: the counter of a client with a share is the one in the map and
\* counts exactly the shares, so sweep never takes it away.
THEOREM ShareIsMapped ==
    Spec => []HeldCounterIsMapped
<1>1. ASSUME ~dynamic => IInv
      PROVE  HeldCounterIsMapped
  <2> SUFFICES ASSUME ~dynamic, IInv, NEW p \in Clients, At(p, "held")
               PROVE  entry = cl[p].counter /\ n[entry] = Cardinality(Holders)
    BY <1>1, Zenon DEF HeldCounterIsMapped
  <2> QED
    BY Zenon DEF IInv, SharesInv, Holders, At
<1> QED
  BY <1>1, Invariance, PTL

\* hold and release: while the limit stays on, with nobody in the limiter the entry is gone, at zero or dead.
THEOREM SharesComeBack ==
    Spec => [](~dynamic => NoShareLost)
<1>1. ASSUME IInv
      PROVE  NoShareLost
  <2>1. ASSUME \A p \in Clients : At(p, "idle")
        PROVE  Holders = {}
    BY <2>1, Zenon DEF Holders, At
  <2>2. Cardinality({}) = 0
    BY FS_EmptySet, Zenon
  <2> QED
    BY <1>1, <2>1, <2>2, Zenon DEF IInv, SharesInv, NoShareLost
<1> QED
  BY <1>1, Invariance, PTL

================================================================================
