----------------------------- MODULE RouteDemotion -----------------------------
(* Which routes run on the loop: demotion after a hand-off and promotion after   *)
(* enough fast runs (src/core/router_inline.go).                                 *)
(*                                                                               *)
(* Every field of an inlineRoute is an atomic of its own, and the router counts  *)
(* the demoted routes in inlineDemotedLive so that the common case reads one     *)
(* word.  Runs of a route on several workers and goroutines pick, demote and     *)
(* observe concurrently; every store and compare-and-swap is a step.             *)
EXTENDS Integers, FiniteSets, FiniteSetTheorems, TLAPS

CONSTANTS
    Routes,         \* handlers with an inlineRoute entry
    Runs,           \* runs in progress, each on a worker or a pool goroutine
    RepromoteRuns,  \* inlineRepromoteRuns
    MaxShift,       \* inlineRepromoteMaxShift
    MaxDemotions    \* bound: demotions of a route

Smaller(a, b) == IF a < b THEN a ELSE b

\* The fast runs it takes after k demotions: inlineRepromoteRuns << max(shift, 0).
Threshold(k) == RepromoteRuns * 2^(IF k = 0 THEN 0 ELSE Smaller(k - 1, MaxShift))

VARIABLES
    demoted,        \* inlineRoute.demoted
    structural,     \* inlineRoute.structural
    demotions,      \* inlineRoute.demotions
    fastRuns,       \* inlineRoute.fastRuns
    live,           \* Router.inlineDemotedLive
    run             \* each run: the step it is at and its route

route == <<demoted, structural, demotions, fastRuns>>
vars  == <<route, live, run>>

Steps == {"new", "find", "kind", "inline", "pool", "mark", "reset", "demote", "bump", "count",
          "clear", "promotable", "promote", "uncount"}

\* The types; fastRuns passes the threshold by no more than the runs that count
\* at once.
TypeOK ==
    /\ demoted \in [Routes -> BOOLEAN]
    /\ structural \in [Routes -> BOOLEAN]
    /\ demotions \in [Routes -> 0..MaxDemotions]
    /\ fastRuns \in [Routes -> 0..(Threshold(MaxDemotions) + Cardinality(Runs))]
    /\ live \in Int
    /\ run \in [Runs -> [at : Steps, route : Routes, observed : BOOLEAN]]

Init ==
    /\ demoted = [r \in Routes |-> FALSE]
    /\ structural = [r \in Routes |-> FALSE]
    /\ demotions = [r \in Routes |-> 0]
    /\ fastRuns = [r \in Routes |-> 0]
    /\ live = 0
    /\ run \in [Runs -> [at : {"new"}, route : Routes, observed : {FALSE}]]

At(p, step) == run[p].at = step
GoTo(p, step) == run' = [run EXCEPT ![p].at = step]

--------------------------------------------------------------------------------
(* pickInline: where the next run of a route goes.                              *)

\* demotedInline: the read of inlineDemotedLive.
Pick(p, r) ==
    /\ At(p, "new")
    /\ run' = [run EXCEPT ![p] = [at |-> IF live = 0 THEN "inline" ELSE "find",
                                  route |-> r, observed |-> FALSE]]
    /\ UNCHANGED <<route, live>>

\* demotedInline: the read of the route's demoted flag ...
FindDemoted(p) ==
    /\ At(p, "find")
    /\ GoTo(p, IF demoted[run[p].route] THEN "kind" ELSE "inline")
    /\ UNCHANGED <<route, live>>

\* ... and of structural: such a route's runs are not observed.
FindKind(p) ==
    /\ At(p, "kind")
    /\ run' = [run EXCEPT ![p].at = "pool", ![p].observed = ~structural[run[p].route]]
    /\ UNCHANGED <<route, live>>

--------------------------------------------------------------------------------
(* The run itself.                                                              *)

\* An inline run returns in time; a run on the pool of a structural route ends.
RunReturns(p) ==
    /\ At(p, "inline") \/ (At(p, "pool") /\ ~run[p].observed)
    /\ GoTo(p, "new")
    /\ UNCHANGED <<route, live>>

\* An inline run is handed off: demoteInline begins, with structural when the
\* handler left the loop by itself.
HandedOff(p, struct) ==
    /\ At(p, "inline")
    /\ demotions[run[p].route] < MaxDemotions
    /\ GoTo(p, IF struct THEN "mark" ELSE "reset")
    /\ UNCHANGED <<route, live>>

\* demoteInline: structural.Store(true).
MarkStructural(p) ==
    /\ At(p, "mark")
    /\ structural' = [structural EXCEPT ![run[p].route] = TRUE]
    /\ GoTo(p, "reset")
    /\ UNCHANGED <<demoted, demotions, fastRuns, live>>

\* demoteInline: fastRuns.Store(0).
ResetFastRuns(p) ==
    /\ At(p, "reset")
    /\ fastRuns' = [fastRuns EXCEPT ![run[p].route] = 0]
    /\ GoTo(p, "demote")
    /\ UNCHANGED <<demoted, structural, demotions, live>>

\* The demotions of r, those not yet added to its counter included.
Demotions(r) ==
    demotions[r] + Cardinality({p \in Runs : run[p].at = "bump" /\ run[p].route = r})

\* Mutant: a demotion is counted although another run demoted the route first.
DemoteAgain(p) ==
    /\ At(p, "demote")
    /\ demoted[run[p].route] \/ Demotions(run[p].route) < MaxDemotions
    /\ demoted' = [demoted EXCEPT ![run[p].route] = TRUE]
    /\ GoTo(p, "bump")
    /\ UNCHANGED <<structural, demotions, fastRuns, live>>

\* demoteInline: only the swap that demotes the route counts it.
Demote(p) ==
    /\ At(p, "demote")
    /\ demoted[run[p].route] \/ Demotions(run[p].route) < MaxDemotions
    /\ demoted' = [demoted EXCEPT ![run[p].route] = TRUE]
    /\ GoTo(p, IF demoted[run[p].route] THEN "new" ELSE "bump")
    /\ UNCHANGED <<structural, demotions, fastRuns, live>>

\* demoteInline: demotions.Add(1).
BumpDemotions(p) ==
    /\ At(p, "bump")
    /\ demotions' = [demotions EXCEPT ![run[p].route] = @ + 1]
    /\ GoTo(p, "count")
    /\ UNCHANGED <<demoted, structural, fastRuns, live>>

\* demoteInline: inlineDemotedLive.Add(1).
CountDemoted(p) ==
    /\ At(p, "count")
    /\ live' = live + 1
    /\ GoTo(p, "new")
    /\ UNCHANGED route

\* observeDemoted of a slow run.
ObserveSlow(p) ==
    /\ At(p, "pool") /\ run[p].observed
    /\ fastRuns' = [fastRuns EXCEPT ![run[p].route] = 0]
    /\ GoTo(p, "new")
    /\ UNCHANGED <<demoted, structural, demotions, live>>

\* observeDemoted of a fast run: fastRuns.Add(1) against the threshold.  The read
\* of demotions just before is part of the step: a stale one only moves the
\* threshold.
ObserveFast(p) ==
    /\ At(p, "pool") /\ run[p].observed
    /\ fastRuns' = [fastRuns EXCEPT ![run[p].route] = @ + 1]
    /\ GoTo(p, IF fastRuns[run[p].route] + 1 < Threshold(demotions[run[p].route])
               THEN "new" ELSE "clear")
    /\ UNCHANGED <<demoted, structural, demotions, live>>

\* observeDemoted: fastRuns.Store(0).
ClearFastRuns(p) ==
    /\ At(p, "clear")
    /\ fastRuns' = [fastRuns EXCEPT ![run[p].route] = 0]
    /\ GoTo(p, "promotable")
    /\ UNCHANGED <<demoted, structural, demotions, live>>

\* observeDemoted: the read of structural ...
TestStructural(p) ==
    /\ At(p, "promotable")
    /\ GoTo(p, IF structural[run[p].route] THEN "new" ELSE "promote")
    /\ UNCHANGED <<route, live>>

\* Mutant: the promotion is counted whether or not the swap succeeded.
PromoteBlindly(p) ==
    /\ At(p, "promote")
    /\ demoted' = [demoted EXCEPT ![run[p].route] = FALSE]
    /\ GoTo(p, "uncount")
    /\ UNCHANGED <<structural, demotions, fastRuns, live>>

\* ... and the swap that returns the route to the loop.
Promote(p) ==
    /\ At(p, "promote")
    /\ demoted' = [demoted EXCEPT ![run[p].route] = FALSE]
    /\ GoTo(p, IF demoted[run[p].route] THEN "uncount" ELSE "new")
    /\ UNCHANGED <<structural, demotions, fastRuns, live>>

\* observeDemoted: inlineDemotedLive.Add(-1).
UncountDemoted(p) ==
    /\ At(p, "uncount")
    /\ live' = live - 1
    /\ GoTo(p, "new")
    /\ UNCHANGED route

Next ==
    \E p \in Runs :
        \/ \E r \in Routes : Pick(p, r)
        \/ \E struct \in BOOLEAN : HandedOff(p, struct)
        \/ FindDemoted(p) \/ FindKind(p) \/ RunReturns(p)
        \/ MarkStructural(p) \/ ResetFastRuns(p) \/ Demote(p) \/ BumpDemotions(p) \/ CountDemoted(p)
        \/ ObserveSlow(p) \/ ObserveFast(p) \/ ClearFastRuns(p)
        \/ TestStructural(p) \/ Promote(p) \/ UncountDemoted(p)

Spec == Init /\ [][Next]_vars

--------------------------------------------------------------------------------
(* Properties.                                                                  *)

Waiting(step) == {p \in Runs : run[p].at = step}

\* demoteInline, observeDemoted: inlineDemotedLive is the number of demoted
\* routes, but for the runs between their swap and their Add; so it cannot be
\* left at 0, which would put every demoted route back on the loop.
LiveCountsDemoted ==
    live + Cardinality(Waiting("bump") \cup Waiting("count"))
        = Cardinality({r \in Routes : demoted[r]}) + Cardinality(Waiting("uncount"))

--------------------------------------------------------------------------------
(* The counter is exact for any number of routes and of runs.                   *)

Position == [at : Steps, route : Routes, observed : BOOLEAN]

Counting == Waiting("bump") \cup Waiting("count")
Uncounting == Waiting("uncount")
Marked == {r \in Routes : demoted[r]}

LiveInv ==
    /\ demoted \in [Routes -> BOOLEAN] /\ live \in Int /\ run \in [Runs -> Position]
    /\ LiveCountsDemoted

Finite == IsFiniteSet(Routes) /\ IsFiniteSet(Runs)

\* The sets that are counted are finite.
LEMMA FiniteCounts ==
  ASSUME Finite
  PROVE  /\ IsFiniteSet(Counting) /\ IsFiniteSet(Uncounting) /\ IsFiniteSet(Marked)
         /\ Cardinality(Counting) \in Nat /\ Cardinality(Uncounting) \in Nat /\ Cardinality(Marked) \in Nat
<1>1. Counting \in SUBSET Runs /\ Uncounting \in SUBSET Runs /\ Marked \in SUBSET Routes
  BY Zenon DEF Counting, Uncounting, Waiting, Marked
<1> QED
  BY <1>1, FS_Subset, FS_CardinalityType, Zenon DEF Finite

\* A run moves.
LEMMA RunMoves ==
  ASSUME LiveInv, NEW p \in Runs, NEW x \in Position, run' = [run EXCEPT ![p] = x]
  PROVE  /\ run' \in [Runs -> Position]
         /\ Counting' = IF x.at \in {"bump", "count"} THEN Counting \cup {p} ELSE Counting \ {p}
         /\ Uncounting' = IF x.at = "uncount" THEN Uncounting \cup {p} ELSE Uncounting \ {p}
<1>1. /\ run' \in [Runs -> Position] /\ run'[p] = x
      /\ \A q \in Runs : q # p => run'[q] = run[q]
  BY Zenon DEF LiveInv
<1> QED
  BY <1>1, ZenonT(60) DEF Counting, Uncounting, Waiting

\* A step that neither swaps a flag nor counts.
LEMMA QuietMove ==
  ASSUME LiveInv, NEW p \in Runs, NEW x \in Position, run' = [run EXCEPT ![p] = x],
         UNCHANGED <<demoted, live>>,
         run[p].at \in {"bump", "count"} <=> x.at \in {"bump", "count"},
         run[p].at = "uncount" <=> x.at = "uncount"
  PROVE  LiveInv'
<1>1. Counting' = Counting /\ Uncounting' = Uncounting
  BY RunMoves, ZenonT(60) DEF Counting, Uncounting, Waiting
<1>2. Marked' = Marked
  BY Zenon DEF Marked
<1> QED
  BY <1>1, <1>2, RunMoves, Zenon DEF LiveInv, LiveCountsDemoted, Counting, Uncounting, Marked

\* demoteInline, observeDemoted: a swap that changes the flag owes a count.
LEMMA SwapMove ==
  ASSUME Finite, LiveInv, NEW p \in Runs, NEW x \in Position, run' = [run EXCEPT ![p] = x],
         live' = live, NEW r \in Routes, NEW flag \in BOOLEAN, demoted' = [demoted EXCEPT ![r] = flag],
         demoted[r] = ~flag, run[p].at \notin {"bump", "count", "uncount"},
         x.at = IF flag THEN "bump" ELSE "uncount"
  PROVE  LiveInv'
<1>1. p \notin Counting /\ p \notin Uncounting
  BY Zenon DEF Counting, Uncounting, Waiting
<1>2. /\ demoted' \in [Routes -> BOOLEAN] /\ live' \in Int /\ run' \in [Runs -> Position]
      /\ live + Cardinality(Counting) = Cardinality(Marked) + Cardinality(Uncounting)
  BY RunMoves, Zenon DEF LiveInv, LiveCountsDemoted, Counting, Uncounting, Marked
<1>3. CASE flag
  <2>1. Counting' = Counting \cup {p} /\ Uncounting' = Uncounting
    <3>1. x.at = "bump"
      BY <1>3, Zenon
    <3>2. Counting' = Counting \cup {p} /\ Uncounting' = Uncounting \ {p}
      BY <3>1, RunMoves, Zenon
    <3> QED
      BY <1>1, <3>2, Zenon
  <2>2. Marked' = Marked \cup {r} /\ r \notin Marked
    BY <1>3, Zenon DEF Marked, LiveInv
  <2>3. /\ Cardinality(Counting') = Cardinality(Counting) + 1
        /\ Cardinality(Marked') = Cardinality(Marked) + 1
    BY <1>1, <2>1, <2>2, FiniteCounts, FS_AddElement, ZenonT(60)
  <2>4. live' + Cardinality(Counting') = Cardinality(Marked') + Cardinality(Uncounting')
    BY <1>2, <2>1, <2>3, FiniteCounts, SMTT(30) DEF LiveInv
  <2> QED
    BY <1>2, <2>4, Zenon DEF LiveInv, LiveCountsDemoted, Counting, Uncounting, Marked
<1>4. CASE ~flag
  <2>1. Counting' = Counting /\ Uncounting' = Uncounting \cup {p}
    <3>1. x.at = "uncount"
      BY <1>4, Zenon
    <3>2. Counting' = Counting \ {p} /\ Uncounting' = Uncounting \cup {p}
      BY <3>1, RunMoves, Zenon
    <3> QED
      BY <1>1, <3>2, Zenon
  <2>2. Marked' = Marked \ {r} /\ r \in Marked
    BY <1>4, Zenon DEF Marked, LiveInv
  <2>3. /\ Cardinality(Uncounting') = Cardinality(Uncounting) + 1
        /\ Cardinality(Marked') = Cardinality(Marked) - 1
    BY <1>1, <2>1, <2>2, FiniteCounts, FS_AddElement, FS_RemoveElement, ZenonT(60)
  <2>4. live' + Cardinality(Counting') = Cardinality(Marked') + Cardinality(Uncounting')
    BY <1>2, <2>1, <2>3, FiniteCounts, SMTT(30) DEF LiveInv
  <2> QED
    BY <1>2, <2>4, Zenon DEF LiveInv, LiveCountsDemoted, Counting, Uncounting, Marked
<1> QED
  BY <1>3, <1>4, Zenon

\* inlineDemotedLive.Add: what was owed is counted.
LEMMA CountMove ==
  ASSUME Finite, LiveInv, NEW p \in Runs, CountDemoted(p) \/ UncountDemoted(p)
  PROVE  LiveInv'
<1> DEFINE x == [run[p] EXCEPT !.at = "new"]
<1>1. x \in Position /\ x.at = "new" /\ run' = [run EXCEPT ![p] = x] /\ demoted' = demoted
  BY ZenonT(30) DEF LiveInv, Position, Steps, CountDemoted, UncountDemoted, GoTo, route
<1> HIDE DEF x
<1>2. /\ run' \in [Runs -> Position] /\ Counting' = Counting \ {p} /\ Uncounting' = Uncounting \ {p}
      /\ Marked' = Marked
  BY <1>1, RunMoves, Zenon DEF Marked
<1>3. live + Cardinality(Counting) = Cardinality(Marked) + Cardinality(Uncounting) /\ live \in Int
  BY Zenon DEF LiveInv, LiveCountsDemoted, Counting, Uncounting, Marked
<1>4. live' \in Int /\ live' + Cardinality(Counting') = Cardinality(Marked') + Cardinality(Uncounting')
  <2>1. CASE CountDemoted(p)
    <3>1. p \in Counting /\ p \notin Uncounting /\ live' = live + 1
      BY <2>1, Zenon DEF CountDemoted, At, Counting, Uncounting, Waiting
    <3>2. Uncounting' = Uncounting
      BY <1>2, <3>1, Zenon
    <3>3. Cardinality(Counting \ {p}) = Cardinality(Counting) - 1
      BY <3>1, FiniteCounts, FS_RemoveElement, Zenon
    <3>4. /\ Cardinality(Counting') = Cardinality(Counting) - 1
          /\ Cardinality(Uncounting') = Cardinality(Uncounting) /\ Cardinality(Marked') = Cardinality(Marked)
      BY <1>2, <3>2, <3>3, Zenon
    <3>5. Cardinality(Counting) \in Nat /\ Cardinality(Uncounting) \in Nat /\ Cardinality(Marked) \in Nat
      BY FiniteCounts, Zenon
    <3> QED
      BY <1>3, <3>1, <3>4, <3>5, SMTT(30)
  <2>2. CASE UncountDemoted(p)
    <3>1. p \notin Counting /\ p \in Uncounting /\ live' = live - 1
      BY <2>2, Zenon DEF UncountDemoted, At, Counting, Uncounting, Waiting
    <3>2. Counting' = Counting
      BY <1>2, <3>1, Zenon
    <3>3. Cardinality(Uncounting \ {p}) = Cardinality(Uncounting) - 1
      BY <3>1, FiniteCounts, FS_RemoveElement, Zenon
    <3>4. Cardinality(Uncounting') = Cardinality(Uncounting) - 1
      BY <1>2, <3>3, Zenon
    <3> QED
      BY <1>2, <1>3, <3>1, <3>2, <3>4, FiniteCounts, SMTT(30)
  <2> QED
    BY <2>1, <2>2, Zenon
<1> QED
  BY <1>1, <1>2, <1>4, Zenon DEF LiveInv, LiveCountsDemoted, Counting, Uncounting, Marked

\* Every step keeps the counter exact.
LEMMA LiveStep ==
  ASSUME Finite, LiveInv, [Next]_vars PROVE LiveInv'
<1>1. CASE UNCHANGED vars
  BY <1>1, Zenon DEF vars, route, LiveInv, LiveCountsDemoted, Waiting
<1>2. ASSUME NEW p \in Runs, CountDemoted(p) \/ UncountDemoted(p) PROVE LiveInv'
  BY <1>2, CountMove, Zenon
<1>3. ASSUME NEW p \in Runs, Demote(p) \/ Promote(p) PROVE LiveInv'
  <2> DEFINE r == run[p].route
             flag == IF Demote(p) THEN TRUE ELSE FALSE
             at == IF demoted[r] = flag THEN "new" ELSE IF flag THEN "bump" ELSE "uncount"
             x == [run[p] EXCEPT !.at = at]
  <2>1. run[p] \in Position /\ r \in Routes /\ run[p].at \in {"demote", "promote"} /\ flag \in BOOLEAN
    BY <1>3, Zenon DEF LiveInv, Position, Demote, Promote, At
  <2>2. /\ demoted' = [demoted EXCEPT ![r] = flag] /\ live' = live
        /\ run' = [run EXCEPT ![p].at = at]
    BY <1>3, <2>1, Zenon DEF Demote, Promote, At, GoTo, LiveInv
  <2> HIDE DEF flag
  <2>3. at \in {"new", "bump", "uncount"}
    BY Zenon
  <2>4. x \in Position /\ x.at = at /\ run' = [run EXCEPT ![p] = x]
    BY <2>1, <2>2, <2>3, Zenon DEF LiveInv, Position, Steps
  <2> HIDE DEF x
  <2>5. CASE demoted[r] = flag
    <3>1. demoted' = demoted /\ x.at = "new"
      BY <2>1, <2>2, <2>4, <2>5, Zenon DEF LiveInv
    <3> QED
      BY <2>1, <2>2, <2>4, <3>1, QuietMove, Zenon
  <2>6. CASE demoted[r] # flag
    <3>1. demoted[r] = ~flag
      BY <2>1, <2>6, Zenon DEF LiveInv
    <3> QED
      BY <2>1, <2>2, <2>4, <2>6, <3>1, SwapMove, ZenonT(240)
  <2> QED
    BY <2>5, <2>6, Zenon
<1>4. ASSUME NEW p \in Runs, NEW q \in Routes, Pick(p, q) PROVE LiveInv'
  <2> DEFINE at == IF live = 0 THEN "inline" ELSE "find"
             x == [at |-> at, route |-> q, observed |-> FALSE]
  <2>1. x \in Position /\ x.at \in {"inline", "find"}
    BY Zenon DEF Position, Steps
  <2>2. run' = [run EXCEPT ![p] = x] /\ UNCHANGED <<demoted, live>> /\ run[p].at = "new"
    BY <1>4, Zenon DEF Pick, route, At
  <2> HIDE DEF x
  <2> QED
    BY <2>1, <2>2, QuietMove, Zenon
<1>5. ASSUME NEW p \in Runs,
             \/ \E struct \in BOOLEAN : HandedOff(p, struct)
             \/ FindDemoted(p) \/ FindKind(p) \/ RunReturns(p) \/ MarkStructural(p) \/ ResetFastRuns(p)
             \/ BumpDemotions(p) \/ ObserveSlow(p) \/ ObserveFast(p) \/ ClearFastRuns(p) \/ TestStructural(p)
      PROVE  LiveInv'
  <2>1. UNCHANGED <<demoted, live>> /\ run[p] \in Position
    BY <1>5, Zenon DEF LiveInv, HandedOff, FindDemoted, FindKind, RunReturns, MarkStructural, ResetFastRuns,
             BumpDemotions, ObserveSlow, ObserveFast, ClearFastRuns, TestStructural, route
  <2>2. CASE FindKind(p)
    <3> DEFINE seen == ~structural[run[p].route]
               x == [run[p] EXCEPT !.at = "pool", !.observed = seen]
    <3>1. seen \in BOOLEAN
      BY Zenon
    <3>2. run' = [run EXCEPT ![p] = x] /\ run[p].at = "kind"
      BY <2>1, <2>2, Zenon DEF FindKind, At, LiveInv
    <3> HIDE DEF seen
    <3>3. x \in Position /\ x.at = "pool"
      BY <2>1, <3>1, Zenon DEF Position, Steps
    <3> HIDE DEF x
    <3> QED
      BY <2>1, <3>2, <3>3, QuietMove, Zenon
  <2>3. CASE ~FindKind(p)
    <3>1. PICK at \in Steps : /\ run' = [run EXCEPT ![p].at = at]
                              /\ run[p].at \in {"bump", "count"} <=> at \in {"bump", "count"}
                              /\ run[p].at # "uncount" /\ at # "uncount"
      BY <1>5, <2>3, Zenon DEF HandedOff, FindDemoted, RunReturns, MarkStructural, ResetFastRuns, GoTo, At, Steps,
               BumpDemotions, ObserveSlow, ObserveFast, ClearFastRuns, TestStructural
    <3> DEFINE x == [run[p] EXCEPT !.at = at]
    <3>2. x \in Position /\ x.at = at /\ run' = [run EXCEPT ![p] = x]
      BY <2>1, <3>1, Zenon DEF Position, LiveInv
    <3> HIDE DEF x
    <3> QED
      BY <2>1, <3>1, <3>2, QuietMove, Zenon
  <2> QED
    BY <2>2, <2>3, Zenon
<1> QED
  BY <1>1, <1>2, <1>3, <1>4, <1>5, Zenon DEF Next

\* demoteInline, observeDemoted: inlineDemotedLive is exact for any finite number of routes
\* and of runs, so pickInline's one read is right whenever no run is between its swap
\* and its Add.
THEOREM LiveIsExact == ASSUME Finite PROVE Spec => []LiveCountsDemoted
<1>1. Init => LiveInv
  <2> SUFFICES ASSUME Init PROVE LiveInv
    BY Zenon
  <2>1. demoted \in [Routes -> BOOLEAN] /\ live \in Int /\ run \in [Runs -> Position]
    <3>1. \A q \in [at : {"new"}, route : Routes, observed : {FALSE}] : q \in Position
      BY Zenon DEF Position, Steps
    <3>2. run \in [Runs -> [at : {"new"}, route : Routes, observed : {FALSE}]]
      BY Zenon DEF Init
    <3>3. run \in [Runs -> Position]
      BY <3>1, <3>2, Zenon
    <3> QED
      BY <3>3 DEF Init
  <2>2. Counting = {} /\ Uncounting = {} /\ Marked = {} /\ live = 0
    BY Zenon DEF Init, Counting, Uncounting, Waiting, Marked
  <2>3. live + Cardinality(Counting) = Cardinality(Marked) + Cardinality(Uncounting)
    BY <2>2, FS_EmptySet, Zenon
  <2> QED
    BY <2>1, <2>3, Zenon DEF LiveInv, LiveCountsDemoted, Counting, Uncounting, Marked
<1>2. LiveInv /\ [Next]_vars => LiveInv'
  BY LiveStep, Zenon
<1>3. LiveInv => LiveCountsDemoted
  BY Zenon DEF LiveInv
<1> QED
  BY <1>1, <1>2, <1>3, PTL DEF Spec
================================================================================
