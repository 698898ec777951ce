---------------------------- MODULE AdmissionProofs ----------------------------
(* Proofs about Admission, for any finite set of connections and any limit.      *)
EXTENDS Admission, FiniteSetTheorems, TLAPS

\* The connections that the limit let in, or will: their Add(1) returned a number
\* within it.
Granted == {c \in Conns : st[c] = "admitted" \/ (st[c] = "added" /\ ~OverLimit(added[c]))}

\* The inductive invariant for the counts.
CountInv ==
    /\ TypeOK
    /\ ActiveConnsExact
    /\ MaxConns > 0 => Cardinality(Granted) <= MaxConns

\* The inductive invariant for the drain.
DrainInv ==
    /\ TypeOK
    /\ shutdown # "idle" => shuttingDown
    /\ DrainNotMissed

--------------------------------------------------------------------------------

\* The two sets that are counted are finite.
LEMMA CountedFinite == IsFiniteSet(Counted) /\ IsFiniteSet(Granted) /\ IsFiniteSet(Admitted)
  BY AdmissionAssumption, FS_Subset, Zenon DEF Counted, Granted, Admitted

\* A step that leaves st, added and activeConns alone leaves the counts alone.
LEMMA CountsUnchanged ==
  ASSUME CountInv, TypeOK', UNCHANGED <<st, added, activeConns>>
  PROVE  CountInv'
  BY Zenon DEF CountInv, ActiveConnsExact, Counted, Granted

\* Every step preserves the types.
LEMMA TypeStep == ASSUME CountInv, Next PROVE TypeOK'
<1> USE DEF CountInv, TypeOK, ConnStates
<1>1. ASSUME NEW c \in Conns, Check(c) PROVE TypeOK'
  BY <1>1, Zenon DEF Check
<1>2. ASSUME NEW c \in Conns, Add(c) PROVE TypeOK'
  BY <1>2 DEF Add
<1>3. ASSUME NEW c \in Conns, Admit(c) PROVE TypeOK'
  BY <1>3, Zenon DEF Admit
<1>4. ASSUME NEW c \in Conns, Release(c) PROVE TypeOK'
  <2>1. activeConns # 0
    <3>1. c \in Counted
      BY <1>4, Zenon DEF Release, Counted
    <3>2. Counted # {}
      BY <3>1, Zenon
    <3> QED
      BY <3>2, CountedFinite, FS_EmptySet, Zenon DEF ActiveConnsExact
  <2>2. activeConns - 1 \in Nat
    BY <2>1
  <2> QED
    BY <1>4, <2>2 DEF Release
<1>5. ASSUME NEW c \in Conns, Released(c) PROVE TypeOK'
  <2>1. drainDone' \in BOOLEAN
    BY <1>5, Zenon DEF Released
  <2> QED
    BY <1>5, <2>1, Zenon DEF Released
<1>6. CASE StoreShuttingDown
  BY <1>6, Zenon DEF StoreShuttingDown
<1>7. CASE LoadActive
  BY <1>7, Zenon DEF LoadActive
<1>8. CASE CloseDrain
  BY <1>8, Zenon DEF CloseDrain
<1>9. CASE Return
  BY <1>9, Zenon DEF Return
<1>10. CASE GiveUp
  BY <1>10, Zenon DEF GiveUp
<1> QED
  BY <1>1, <1>2, <1>3, <1>4, <1>5, <1>6, <1>7, <1>8, <1>9, <1>10, Zenon DEF Next

\* Every step preserves the counts.
LEMMA CountStep == CountInv /\ [Next]_vars => CountInv'
<1> SUFFICES ASSUME CountInv, [Next]_vars PROVE CountInv'
  BY Zenon
<1>0. CASE UNCHANGED vars
  BY <1>0, Zenon DEF vars, CountInv, TypeOK, ActiveConnsExact, Counted, Granted
<1> SUFFICES ASSUME Next PROVE CountInv'
  BY <1>0, Zenon
<1>t. TypeOK'
  BY TypeStep, Zenon
<1>a. IsFiniteSet(Counted) /\ IsFiniteSet(Granted)
  BY CountedFinite, Zenon
<1>n. MaxConns \in Nat
  BY AdmissionAssumption, Zenon
<1>1. ASSUME NEW c \in Conns, Check(c) PROVE CountInv'
  <2>1. Counted' = Counted
    BY <1>1, Zenon DEF Check, Counted, CountInv, TypeOK
  <2>2. Granted' = Granted
    BY <1>1, Zenon DEF Check, Granted, CountInv, TypeOK
  <2> QED
    BY <1>1, <1>t, <2>1, <2>2, Zenon DEF Check, CountInv, ActiveConnsExact
<1>2. ASSUME NEW c \in Conns, Add(c) PROVE CountInv'
  <2>1. Counted' = Counted \cup {c} /\ c \notin Counted
    BY <1>2, Zenon DEF Add, Counted, CountInv, TypeOK
  <2>2. Cardinality(Counted') = Cardinality(Counted) + 1 /\ IsFiniteSet(Counted')
    BY <1>a, <2>1, FS_AddElement, Zenon
  <2>3. ActiveConnsExact'
    BY <1>2, <2>2, Zenon DEF Add, CountInv, ActiveConnsExact
  <2>4. CASE OverLimit(activeConns + 1)
    <3>1. Granted' = Granted
      BY <1>2, <2>4, Zenon DEF Add, Granted, CountInv, TypeOK
    <3> QED
      BY <1>t, <2>3, <3>1, Zenon DEF CountInv
  <2>5. CASE ~OverLimit(activeConns + 1)
    <3>1. Granted' \subseteq Counted'
      BY <1>2, Zenon DEF Add, Granted, Counted, CountInv, TypeOK
    <3>2. Cardinality(Granted') <= Cardinality(Counted')
      BY <2>2, <3>1, FS_Subset, Zenon
    <3>3. MaxConns > 0 => Cardinality(Counted') <= MaxConns
      BY <1>n, <2>2, <2>5 DEF OverLimit, CountInv, ActiveConnsExact, TypeOK
    <3>4. Cardinality(Granted') \in Nat /\ Cardinality(Counted') \in Nat
      BY <2>2, <3>1, FS_Subset, FS_CardinalityType, Zenon
    <3>5. MaxConns > 0 => Cardinality(Granted') <= MaxConns
      BY <1>n, <3>2, <3>3, <3>4
    <3> QED
      BY <1>t, <2>3, <3>5, Zenon DEF CountInv
  <2> QED
    BY <2>4, <2>5, Zenon
<1>3. ASSUME NEW c \in Conns, Admit(c) PROVE CountInv'
  <2>1. Counted' = Counted
    BY <1>3, Zenon DEF Admit, Counted, CountInv, TypeOK
  <2>2. Granted' \subseteq Granted
    BY <1>3, Zenon DEF Admit, Granted, CountInv, TypeOK
  <2>3. Cardinality(Granted') <= Cardinality(Granted)
    BY <1>a, <2>2, FS_Subset, Zenon
  <2>4. Cardinality(Granted') \in Nat /\ Cardinality(Granted) \in Nat
    BY <1>a, <2>2, FS_Subset, FS_CardinalityType, Zenon
  <2>5. MaxConns > 0 => Cardinality(Granted') <= MaxConns
    BY <1>n, <2>3, <2>4 DEF CountInv
  <2> QED
    BY <1>3, <1>t, <2>1, <2>5, Zenon DEF Admit, CountInv, ActiveConnsExact
<1>4. ASSUME NEW c \in Conns, Release(c) PROVE CountInv'
  <2>1. Counted' = Counted \ {c} /\ c \in Counted
    BY <1>4, Zenon DEF Release, Counted, CountInv, TypeOK
  <2>2. Cardinality(Counted') = Cardinality(Counted) - 1
    BY <1>a, <2>1, FS_RemoveElement, Zenon
  <2>3. Granted' \subseteq Granted
    BY <1>4, ZenonT(60) DEF Release, Granted, CountInv, TypeOK
  <2>4. Cardinality(Granted') <= Cardinality(Granted)
    BY <1>a, <2>3, FS_Subset, Zenon
  <2>5. Cardinality(Granted') \in Nat /\ Cardinality(Granted) \in Nat
    BY <1>a, <2>3, FS_Subset, FS_CardinalityType, Zenon
  <2>6. MaxConns > 0 => Cardinality(Granted') <= MaxConns
    BY <1>n, <2>4, <2>5 DEF CountInv
  <2> QED
    BY <1>4, <1>t, <2>2, <2>6, Zenon DEF Release, CountInv, ActiveConnsExact
<1>5. ASSUME NEW c \in Conns, Released(c) PROVE CountInv'
  <2>1. Counted' = Counted
    BY <1>5, Zenon DEF Released, Counted, CountInv, TypeOK
  <2>2. Granted' = Granted
    BY <1>5, Zenon DEF Released, Granted, CountInv, TypeOK
  <2> QED
    BY <1>5, <1>t, <2>1, <2>2, Zenon DEF Released, CountInv, ActiveConnsExact
<1>6. CASE StoreShuttingDown
  BY <1>6, <1>t, CountsUnchanged, Zenon DEF StoreShuttingDown
<1>7. CASE LoadActive
  BY <1>7, <1>t, CountsUnchanged, Zenon DEF LoadActive
<1>8. CASE CloseDrain
  BY <1>8, <1>t, CountsUnchanged, Zenon DEF CloseDrain
<1>9. CASE Return
  BY <1>9, <1>t, CountsUnchanged, Zenon DEF Return
<1>10. CASE GiveUp
  BY <1>10, <1>t, CountsUnchanged, Zenon DEF GiveUp
<1> QED
  BY <1>1, <1>2, <1>3, <1>4, <1>5, <1>6, <1>7, <1>8, <1>9, <1>10, Zenon DEF Next

\* The counts hold initially.
LEMMA CountInit == Init => CountInv
<1> SUFFICES ASSUME Init PROVE CountInv
  BY Zenon
<1>1. TypeOK
  BY Zenon DEF Init, TypeOK, ConnStates
<1>2. Counted = {} /\ Granted = {}
  BY Zenon DEF Init, Counted, Granted
<1>3. Cardinality({}) = 0
  BY FS_EmptySet, Zenon
<1> QED
  BY <1>1, <1>2, <1>3, AdmissionAssumption DEF CountInv, ActiveConnsExact, Init

\* tryTrackConn, admitAccepted, releaseTrackedConn: the types hold, and activeConns
\* never goes below zero.
THEOREM TypeCorrect == Spec => []TypeOK
<1>1. CountInv => TypeOK
  BY Zenon DEF CountInv
<1> QED
  BY <1>1, CountInit, CountStep, PTL DEF Spec

\* activeConns is the number of connections between Add(1) and Add(-1).
THEOREM ActiveConnsIsExact == Spec => []ActiveConnsExact
<1>1. CountInv => ActiveConnsExact
  BY Zenon DEF CountInv
<1> QED
  BY <1>1, CountInit, CountStep, PTL DEF Spec

\* tryTrackConn, admitAccepted: no more than MaxConns connections are admitted,
\* whatever the interleaving of their threads.
THEOREM LimitHolds == Spec => []MaxConnsRespected
<1>1. CountInv => MaxConnsRespected
  <2> SUFFICES ASSUME CountInv, MaxConns > 0 PROVE Cardinality(Admitted) <= MaxConns
    BY Zenon DEF MaxConnsRespected
  <2>1. Admitted \subseteq Granted
    BY Zenon DEF Admitted, Granted
  <2>2. Cardinality(Admitted) <= Cardinality(Granted)
    BY <2>1, CountedFinite, FS_Subset, Zenon
  <2>3. Cardinality(Admitted) \in Nat /\ Cardinality(Granted) \in Nat
    BY CountedFinite, FS_CardinalityType, Zenon
  <2> QED
    BY <2>2, <2>3, AdmissionAssumption DEF CountInv
<1> QED
  BY <1>1, CountInit, CountStep, PTL DEF Spec

--------------------------------------------------------------------------------

\* Every step preserves the drain's invariant.  A releaser that saw zero stays one
\* until it closes drainDone; a release that takes activeConns to zero is one.
LEMMA DrainStep == DrainInv /\ TypeOK' /\ [Next]_vars => DrainInv'
<1> SUFFICES ASSUME DrainInv, TypeOK', [Next]_vars PROVE DrainInv'
  BY Zenon
<1> DEFINE Closer(c) == st[c] = "releasing" /\ zero[c]
<1>0. CASE UNCHANGED vars
  BY <1>0, Zenon DEF vars, DrainInv, DrainNotMissed
<1>1. ASSUME NEW c \in Conns, Check(c) PROVE DrainInv'
  <2>1. ASSUME NEW d \in Conns, Closer(d) PROVE Closer(d)'
    BY <1>1, <2>1, Zenon DEF Check, DrainInv, TypeOK
  <2> QED
    BY <1>1, <2>1, Zenon DEF Check, DrainInv, DrainNotMissed
<1>2. ASSUME NEW c \in Conns, Add(c) PROVE DrainInv'
  <2>1. activeConns' > 0
    BY <1>2 DEF Add, DrainInv, TypeOK
  <2> QED
    BY <1>2, <2>1, Zenon DEF Add, DrainInv, DrainNotMissed
<1>3. ASSUME NEW c \in Conns, Admit(c) PROVE DrainInv'
  <2>1. ASSUME NEW d \in Conns, Closer(d) PROVE Closer(d)'
    BY <1>3, <2>1, Zenon DEF Admit, DrainInv, TypeOK
  <2> QED
    BY <1>3, <2>1, Zenon DEF Admit, DrainInv, DrainNotMissed
<1>4. ASSUME NEW c \in Conns, Release(c) PROVE DrainInv'
  <2>1. activeConns' > 0 \/ Closer(c)'
    <3>1. zero'[c] = (activeConns - 1 <= 0) /\ st'[c] = "releasing"
      BY <1>4, Zenon DEF Release, DrainInv, TypeOK
    <3>2. activeConns' > 0 \/ activeConns - 1 <= 0
      BY <1>4 DEF Release, DrainInv, TypeOK
    <3> QED
      BY <3>1, <3>2, Zenon
  <2> QED
    BY <1>4, <2>1, Zenon DEF Release, DrainInv, DrainNotMissed
<1>5. ASSUME NEW c \in Conns, Released(c) PROVE DrainInv'
  <2>1. ASSUME NEW d \in Conns, d # c, Closer(d) PROVE Closer(d)'
    BY <1>5, <2>1, Zenon DEF Released, DrainInv, TypeOK
  <2>2. ASSUME Closer(c), shuttingDown PROVE drainDone'
    BY <1>5, <2>2, Zenon DEF Released
  <2>3. drainDone => drainDone'
    BY <1>5, Zenon DEF Released
  <2> QED
    BY <1>5, <2>1, <2>2, <2>3, Zenon DEF Released, DrainInv, DrainNotMissed
<1>6. CASE StoreShuttingDown
  BY <1>6, Zenon DEF StoreShuttingDown, DrainInv, DrainNotMissed
<1>7. CASE LoadActive
  BY <1>7 DEF LoadActive, DrainInv, DrainNotMissed, TypeOK
<1>8. CASE CloseDrain
  BY <1>8, Zenon DEF CloseDrain, DrainInv, DrainNotMissed
<1>9. CASE Return
  BY <1>9, Zenon DEF Return, DrainInv, DrainNotMissed
<1>10. CASE GiveUp
  BY <1>10, Zenon DEF GiveUp, DrainInv, DrainNotMissed
<1> QED
  BY <1>0, <1>1, <1>2, <1>3, <1>4, <1>5, <1>6, <1>7, <1>8, <1>9, <1>10, Zenon DEF Next

\* Shutdown, releaseTrackedConn: the end of the drain is not missed.
THEOREM DrainIsNotMissed == Spec => []DrainNotMissed
<1>1. Init => DrainInv
  BY CountInit, Zenon DEF Init, CountInv, DrainInv, DrainNotMissed
<1>2. DrainInv => DrainNotMissed
  BY Zenon DEF DrainInv
<1> QED
  BY <1>1, <1>2, DrainStep, TypeCorrect, PTL DEF Spec

================================================================================
