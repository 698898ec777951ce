----------------------------- MODULE CertStoreProofs -----------------------------
(* The default certificate is always one that is registered, and a registered     *)
(* certificate is always being stapled, for any number of callers, names and      *)
(* certificates.                                                                  *)
EXTENDS CertStore, TLAPS

Ops == [pc : {"idle", "made", "added", "onAdd", "removed", "pick"}, e : 0 .. MaxEntries]
RunRecs == [pc : {"none", "check", "fetch", "sleep", "gone"}, until : Nat, retry : Nat, ok : BOOLEAN]
Looks == [pc : {"idle", "default", "found", "sent", "refused"}, got : 0 .. MaxEntries, sent : Nat]

\* The types of every variable; TypeOK says less of the staplers and the handshakes.
TypeInv ==
  /\ certs \in [Domains -> 0 .. MaxEntries] /\ def \in 0 .. MaxEntries
  /\ mu \in Admins \union {0} /\ made \in 0 .. MaxEntries
  /\ dom \in [Entries -> Domains] /\ stapled \subseteq Entries
  /\ admin \in [Admins -> Ops]
  /\ staple \in [Entries -> Nat] /\ run \in [Entries -> RunRecs]
  /\ \A e \in Entries : run[e].retry \in RetryMin .. Larger(RetryMin, RetryMax)
  /\ reader \in [Readers -> Looks]
  /\ now \in Nat /\ done \in BOOLEAN /\ mix \in Mixes

\* The caller in a locked section is the one that holds the mutex.
LockInv ==
  \A a \in Admins : admin[a].pc \in {"added", "removed", "pick"} <=> mu = a

\* A certificate is registered under its own name, and one that a caller is adding is
\* nobody else's.
EntryInv ==
  /\ def <= made
  /\ \A d \in Domains : certs[d] # 0 => certs[d] <= made /\ dom[certs[d]] = d
  /\ \A a \in Admins : /\ admin[a].e <= made
                       /\ admin[a].pc \in {"made", "added", "onAdd"} <=> admin[a].e # 0
  /\ \A a, b \in Admins : admin[a].e = admin[b].e /\ admin[a].e # 0 => a = b

\* The default against the map, at each point where a caller may have stopped.
DefInv ==
  /\ DefaultCurrent
  /\ \A a \in Admins :
       /\ admin[a].pc = "added" =>
            /\ certs[dom[admin[a].e]] = admin[a].e
            /\ def = 0 => Registered \subseteq {dom[admin[a].e]}
            /\ def # 0 /\ dom[def] # dom[admin[a].e] => certs[dom[def]] = def
       /\ admin[a].pc = "pick" => def = 0

StoreInv == LockInv /\ EntryInv /\ DefInv

\* A stapler starts when its certificate has been added, and ends with it.
StapleInv ==
  /\ stapled \subseteq 1 .. made
  /\ \A e \in Entries : e > made => run[e].pc = "none"
  /\ \A e \in Entries, a \in Admins : admin[a].e = e => run[e].pc = "none"
  /\ \A e \in stapled : run[e].pc = "none" => \E a \in Admins : admin[a].e = e
  /\ \A e \in Entries : run[e].pc = "gone" /\ ~done => ~Current(e)
  /\ \A e \in Entries : run[e].pc = "sleep" /\ run[e].ok => run[e].until < staple[e]

\* A staple is sent before it ends, and before that none is.
ReadInv ==
  \A r \in Readers : /\ reader[r].pc # "sent" => reader[r].sent = 0
                     /\ reader[r].sent # 0 => now < reader[r].sent
                     /\ reader[r].pc = "found" => reader[r].got # 0

--------------------------------------------------------------------------------
(* Types.                                                                       *)

\* What the steps write into the goroutines' and the callers' state.
LEMMA RecordTypes ==
  /\ NoOp \in Ops /\ NoOp.pc = "idle" /\ NoOp.e = 0
  /\ NoRun \in RunRecs /\ NoRun.pc = "none" /\ NoRun.ok = FALSE /\ NoRun.retry = RetryMin
  /\ Gone \in RunRecs /\ Gone.pc = "gone" /\ Gone.ok = FALSE /\ Gone.retry = RetryMin
  /\ RetryMin \in RetryMin .. Larger(RetryMin, RetryMax)
  /\ NoLook \in Looks /\ NoLook.pc = "idle" /\ NoLook.sent = 0
<1>1. NoOp \in Ops /\ NoOp.pc = "idle" /\ NoOp.e = 0
  BY CertAssumption DEF NoOp, Ops
<1>2. NoRun \in RunRecs /\ NoRun.pc = "none" /\ NoRun.ok = FALSE /\ NoRun.retry = RetryMin
  BY CertAssumption, Zenon DEF NoRun, RunRecs
<1>3. Gone \in RunRecs /\ Gone.pc = "gone" /\ Gone.ok = FALSE /\ Gone.retry = RetryMin
  BY <1>2, Zenon DEF Gone, RunRecs
<1>4. RetryMin \in RetryMin .. Larger(RetryMin, RetryMax)
  BY CertAssumption DEF Larger
<1>5. NoLook \in Looks /\ NoLook.pc = "idle" /\ NoLook.sent = 0
  BY CertAssumption DEF NoLook, Looks
<1> QED
  BY <1>1, <1>2, <1>3, <1>4, <1>5, Zenon

\* NewCertStore.
LEMMA InitTypes ==
  ASSUME Init
  PROVE  TypeInv
<1>1. (CHOOSE d \in Domains : TRUE) \in Domains
  BY CertAssumption, Zenon
<1>2. 0 \in 0 .. MaxEntries /\ 0 \in Nat
  BY CertAssumption
<1>3. \A e \in Entries : run[e] = NoRun
  BY Zenon DEF Init
<1> QED
  BY <1>1, <1>2, <1>3, RecordTypes, Zenon DEF Init, TypeInv

\* A caller's next step and its certificate.
LEMMA AdminMoves ==
  ASSUME TypeInv, NEW a \in Admins, NEW pc \in {"idle", "made", "added", "onAdd", "removed", "pick"},
         admin' = [admin EXCEPT ![a].pc = pc]
  PROVE  /\ admin' \in [Admins -> Ops]
         /\ admin'[a].pc = pc /\ admin'[a].e = admin[a].e
         /\ \A b \in Admins : b # a => admin'[b] = admin[b]
         /\ \A b \in Admins : admin'[b].e = admin[b].e
<1>1. /\ admin' \in [Admins -> Ops]
      /\ admin'[a].pc = pc /\ admin'[a].e = admin[a].e
      /\ \A b \in Admins : b # a => admin'[b] = admin[b]
  BY Zenon DEF TypeInv, Ops
<1> QED
  BY <1>1, Zenon

\* A caller that is done.
LEMMA AdminEnds ==
  ASSUME TypeInv, NEW a \in Admins, admin' = [admin EXCEPT ![a] = NoOp]
  PROVE  /\ admin' \in [Admins -> Ops]
         /\ admin'[a].pc = "idle" /\ admin'[a].e = 0
         /\ \A b \in Admins : b # a => admin'[b] = admin[b]
BY RecordTypes, Zenon DEF TypeInv

\* A stapler's next state.
LEMMA RunMoves ==
  ASSUME TypeInv, NEW e \in Entries, NEW r \in RunRecs, run' = [run EXCEPT ![e] = r],
         r.retry \in RetryMin .. Larger(RetryMin, RetryMax)
  PROVE  /\ run' \in [Entries -> RunRecs] /\ run'[e] = r
         /\ \A i \in Entries : i # e => run'[i] = run[i]
         /\ \A i \in Entries : run'[i].retry \in RetryMin .. Larger(RetryMin, RetryMax)
<1>1. run' \in [Entries -> RunRecs] /\ run'[e] = r /\ \A i \in Entries : i # e => run'[i] = run[i]
  BY Zenon DEF TypeInv
<1> QED
  BY <1>1, Zenon DEF TypeInv

\* The same when only where it is changes.
LEMMA RunGoes ==
  ASSUME TypeInv, NEW e \in Entries, NEW pc \in {"none", "check", "fetch", "sleep", "gone"}
  PROVE  LET r == [run[e] EXCEPT !.pc = pc]
         IN  /\ r \in RunRecs /\ r.retry \in RetryMin .. Larger(RetryMin, RetryMax)
             /\ r.pc = pc /\ r.ok = run[e].ok /\ r.until = run[e].until
BY ZenonT(60) DEF TypeInv, RunRecs

\* NewEntry, StoreCert, AddDefault, DeleteCert, ClearDefault, PickDefault, SetDefault, and
\* the stapler of Track.
LEMMA AdminTypes ==
  ASSUME TypeInv, NEW a \in Admins, NEW d \in Domains, NEW s \in BOOLEAN,
         \/ NewEntry(a, d, s) \/ DeleteCert(a, d) \/ SetDefault(a, d)
         \/ StoreCert(a) \/ AddDefault(a) \/ Track(a) \/ ClearDefault(a) \/ PickDefault(a)
  PROVE  TypeInv'
<1>1. CASE NewEntry(a, d, s)
  <2>1. made + 1 \in 0 .. MaxEntries /\ made + 1 \in Entries
    BY <1>1, CertAssumption, SMTT(60) DEF NewEntry, TypeInv, Entries
  <2>2. admin' \in [Admins -> Ops]
    <3>1. [pc |-> "made", e |-> made + 1] \in Ops
      BY <2>1, Zenon DEF Ops
    <3> QED
      BY <1>1, <3>1, Zenon DEF NewEntry, TypeInv
  <2> QED
    BY <1>1, <2>1, <2>2, Zenon DEF NewEntry, TypeInv, store, tracking
<1>2. CASE DeleteCert(a, d)
  <2>1. admin' \in [Admins -> Ops]
    BY <1>2, AdminMoves, Zenon DEF DeleteCert, TypeInv
  <2>2. certs' \in [Domains -> 0 .. MaxEntries]
    BY <1>2, CertAssumption DEF DeleteCert, TypeInv
  <2>3. mu' \in Admins \union {0}
    BY <1>2, Zenon DEF DeleteCert, TypeInv
  <2> QED
    BY <1>2, <2>1, <2>2, <2>3, Zenon DEF DeleteCert, TypeInv, tracking
<1>3. CASE SetDefault(a, d)
  BY <1>3, Zenon DEF SetDefault, TypeInv, tracking
<1>4. CASE StoreCert(a)
  <2>1. admin' \in [Admins -> Ops] /\ admin[a].e \in 0 .. MaxEntries
    BY <1>4, AdminMoves, ZenonT(30) DEF StoreCert, TypeInv, Ops
  <2>2. certs' \in [Domains -> 0 .. MaxEntries]
    BY <1>4, <2>1, Zenon DEF StoreCert, TypeInv
  <2> QED
    BY <1>4, <2>1, <2>2, Zenon DEF StoreCert, TypeInv, tracking
<1>5. CASE AddDefault(a)
  <2>1. admin' \in [Admins -> Ops] /\ admin[a].e \in 0 .. MaxEntries
    BY <1>5, AdminMoves, ZenonT(30) DEF AddDefault, TypeInv, Ops
  <2> QED
    BY <1>5, <2>1, ZenonT(30) DEF AddDefault, TypeInv, tracking
<1>6. CASE Track(a)
  <2>1. admin' \in [Admins -> Ops]
    BY <1>6, AdminEnds, Zenon DEF Track
  <2>2. ASSUME admin[a].e \in stapled
        PROVE  /\ run' \in [Entries -> RunRecs]
               /\ \A i \in Entries : run'[i].retry \in RetryMin .. Larger(RetryMin, RetryMax)
    <3> DEFINE e == admin[a].e
               r == [run[e] EXCEPT !.pc = "check"]
    <3>1. e \in Entries /\ run' = [run EXCEPT ![e] = r]
      BY <1>6, <2>2, Zenon DEF Track, TypeInv
    <3>2. r \in RunRecs /\ r.retry \in RetryMin .. Larger(RetryMin, RetryMax)
      BY <3>1, RunGoes, Zenon
    <3> HIDE DEF e, r
    <3> QED
      BY <3>1, <3>2, RunMoves, Zenon
  <2> QED
    BY <1>6, <2>1, <2>2, Zenon DEF Track, TypeInv, store
<1>7. CASE ClearDefault(a)
  <2>1. admin' \in [Admins -> Ops]
    BY <1>7, AdminMoves, Zenon DEF ClearDefault
  <2> QED
    BY <1>7, <2>1, CertAssumption DEF ClearDefault, TypeInv, tracking
<1>8. CASE PickDefault(a)
  <2>1. admin' \in [Admins -> Ops]
    BY <1>8, AdminEnds, Zenon DEF PickDefault
  <2>2. def' \in 0 .. MaxEntries
    BY <1>8 DEF PickDefault, TypeInv, Registered
  <2> QED
    BY <1>8, <2>1, <2>2, Zenon DEF PickDefault, TypeInv, tracking
<1> QED
  BY <1>1, <1>2, <1>3, <1>4, <1>5, <1>6, <1>7, <1>8, Zenon

\* ocspRefreshDelay: the next fetch is before the response ends.
LEMMA RefreshesInTime ==
  ASSUME TypeInv, NEW this \in Nat, NEW next \in Nat, this <= now, now + RetryMin < next
  PROVE  RefreshDelay(this, next) \in Nat /\ now + RefreshDelay(this, next) < next
<1> DEFINE half == (next - this) \div 2
<1>1. RetryMin \in Nat /\ now \in Nat
  BY CertAssumption, Zenon DEF TypeInv
<1>2. half \in Nat /\ this + half < next
  BY <1>1
<1>3. RefreshDelay(this, next) = IF (this + half) - now > RetryMin THEN (this + half) - now ELSE RetryMin
  BY Zenon DEF RefreshDelay, Larger
<1> HIDE DEF half
<1> QED
  BY <1>1, <1>2, <1>3

\* What a stapler's step leaves alone, and what becomes of its record.
LEMMA StaplerEffect ==
  ASSUME TypeInv, NEW e \in Entries,
         \/ CheckCurrent(e) \/ FetchFails(e) \/ Wake(e)
         \/ \E this \in {0, now}, next \in {now + Lifetime} : Fetched(e, this, next)
  PROVE  /\ UNCHANGED <<store, made, dom, stapled, admin, reader, now, done, mix>>
         /\ staple' \in [Entries -> Nat] /\ \A i \in Entries : i # e => staple'[i] = staple[i]
         /\ run' \in [Entries -> RunRecs] /\ \A i \in Entries : i # e => run'[i] = run[i]
         /\ \A i \in Entries : run'[i].retry \in RetryMin .. Larger(RetryMin, RetryMax)
         /\ run[e].pc # "none" /\ run'[e].pc # "none"
         /\ run'[e].pc = "gone" => run[e].pc # "gone" /\ (done \/ ~Current(e))
         /\ run'[e].pc = "sleep" /\ run'[e].ok => run'[e].until < staple'[e]
<1>0. /\ RetryMin \in Nat /\ RetryMax \in Nat /\ RetryMin <= RetryMax
      /\ now \in Nat /\ run[e] \in RunRecs /\ run[e].retry \in RetryMin .. Larger(RetryMin, RetryMax)
      /\ staple \in [Entries -> Nat] /\ Lifetime \in Nat
  BY CertAssumption, Zenon DEF TypeInv
<1>1. CASE CheckCurrent(e)
  <2>1. CASE Current(e)
    <3> DEFINE r == [run[e] EXCEPT !.pc = "fetch"]
    <3>1. run' = [run EXCEPT ![e] = r]
      BY <1>1, <2>1, Zenon DEF CheckCurrent, TypeInv
    <3>2. r \in RunRecs /\ r.retry \in RetryMin .. Larger(RetryMin, RetryMax) /\ r.pc = "fetch"
      BY RunGoes, Zenon
    <3> HIDE DEF r
    <3>3. /\ run' \in [Entries -> RunRecs] /\ run'[e] = r /\ \A i \in Entries : i # e => run'[i] = run[i]
          /\ \A i \in Entries : run'[i].retry \in RetryMin .. Larger(RetryMin, RetryMax)
      BY <3>1, <3>2, RunMoves, Zenon
    <3> QED
      BY <1>0, <1>1, <3>2, <3>3, Zenon DEF CheckCurrent
  <2>2. CASE ~Current(e)
    <3>1. run' = [run EXCEPT ![e] = Gone]
      BY <1>1, <2>2, Zenon DEF CheckCurrent
    <3>2. /\ run' \in [Entries -> RunRecs] /\ run'[e] = Gone /\ \A i \in Entries : i # e => run'[i] = run[i]
          /\ \A i \in Entries : run'[i].retry \in RetryMin .. Larger(RetryMin, RetryMax)
      BY <3>1, RunMoves, RecordTypes, Zenon
    <3> QED
      BY <1>0, <1>1, <2>2, <3>2, RecordTypes, Zenon DEF CheckCurrent
  <2> QED
    BY <2>1, <2>2, Zenon
<1>2. CASE FetchFails(e)
  <2> DEFINE r == [pc |-> "sleep", until |-> now + run[e].retry,
                   retry |-> Smaller(2 * run[e].retry, RetryMax), ok |-> FALSE]
  <2>1. run' = [run EXCEPT ![e] = r]
    BY <1>2, Zenon DEF FetchFails
  <2>2. run[e].retry \in Nat /\ Smaller(2 * run[e].retry, RetryMax) \in RetryMin .. Larger(RetryMin, RetryMax)
    BY <1>0 DEF Smaller, Larger, RunRecs
  <2>3. Smaller(2 * run[e].retry, RetryMax) \in Nat
    BY <1>0, <2>2, SMTT(30) DEF Larger
  <2>4. r \in RunRecs /\ r.retry \in RetryMin .. Larger(RetryMin, RetryMax) /\ r.pc = "sleep" /\ r.ok = FALSE
    BY <1>0, <2>2, <2>3 DEF RunRecs
  <2> HIDE DEF r
  <2>5. /\ run' \in [Entries -> RunRecs] /\ run'[e] = r /\ \A i \in Entries : i # e => run'[i] = run[i]
        /\ \A i \in Entries : run'[i].retry \in RetryMin .. Larger(RetryMin, RetryMax)
    BY <2>1, <2>4, RunMoves, Zenon
  <2> QED
    BY <1>0, <1>2, <2>4, <2>5, Zenon DEF FetchFails
<1>3. CASE Wake(e)
  <2>1. CASE run' = [run EXCEPT ![e].pc = "check"]
    <3> DEFINE r == [run[e] EXCEPT !.pc = "check"]
    <3>1. run' = [run EXCEPT ![e] = r]
      BY <2>1, Zenon
    <3>2. r \in RunRecs /\ r.retry \in RetryMin .. Larger(RetryMin, RetryMax) /\ r.pc = "check"
      BY RunGoes, Zenon
    <3> HIDE DEF r
    <3>3. /\ run' \in [Entries -> RunRecs] /\ run'[e] = r /\ \A i \in Entries : i # e => run'[i] = run[i]
          /\ \A i \in Entries : run'[i].retry \in RetryMin .. Larger(RetryMin, RetryMax)
      BY <3>1, <3>2, RunMoves, Zenon
    <3> QED
      BY <1>0, <1>3, <3>2, <3>3, Zenon DEF Wake
  <2>2. CASE done /\ run' = [run EXCEPT ![e] = Gone]
    <3>2. /\ run' \in [Entries -> RunRecs] /\ run'[e] = Gone /\ \A i \in Entries : i # e => run'[i] = run[i]
          /\ \A i \in Entries : run'[i].retry \in RetryMin .. Larger(RetryMin, RetryMax)
      BY <2>2, RunMoves, RecordTypes, Zenon
    <3> QED
      BY <1>0, <1>3, <2>2, <3>2, RecordTypes, Zenon DEF Wake
  <2> QED
    BY <1>3, <2>1, <2>2, Zenon DEF Wake
<1>4. CASE \E this \in {0, now}, next \in {now + Lifetime} : Fetched(e, this, next)
  <2>1. PICK this \in {0, now}, next \in {now + Lifetime} : Fetched(e, this, next)
    BY <1>4, Zenon
  <2>2. this \in Nat /\ next \in Nat /\ this <= now /\ now + RetryMin < next
    BY <1>0, <2>1 DEF Fetched
  <2> DEFINE until == now + RefreshDelay(this, next)
             r == [pc |-> "sleep", until |-> until, retry |-> RetryMin, ok |-> TRUE]
  <2>3. run' = [run EXCEPT ![e] = r] /\ staple' = [staple EXCEPT ![e] = next]
    BY <2>1, Zenon DEF Fetched
  <2>4. until \in Nat /\ until < next
    BY <1>0, <2>2, RefreshesInTime
  <2> HIDE DEF until
  <2>5. r \in RunRecs /\ r.retry \in RetryMin .. Larger(RetryMin, RetryMax) /\ r.pc = "sleep" /\ r.until = until
    BY <1>0, <2>4, RecordTypes, Zenon DEF RunRecs
  <2> HIDE DEF r
  <2>6. /\ run' \in [Entries -> RunRecs] /\ run'[e] = r /\ \A i \in Entries : i # e => run'[i] = run[i]
        /\ \A i \in Entries : run'[i].retry \in RetryMin .. Larger(RetryMin, RetryMax)
    BY <2>3, <2>5, RunMoves, Zenon
  <2>7. staple' \in [Entries -> Nat] /\ staple'[e] = next /\ \A i \in Entries : i # e => staple'[i] = staple[i]
    BY <1>0, <2>2, <2>3, Zenon
  <2> QED
    BY <2>1, <2>4, <2>5, <2>6, <2>7, Zenon DEF Fetched
<1> QED
  BY <1>1, <1>2, <1>3, <1>4, Zenon

\* One handshake's next state.
LEMMA LookMoves ==
  ASSUME TypeInv, ReadInv, now' = now, NEW r \in Readers, NEW l \in Looks, reader' = [reader EXCEPT ![r] = l],
         l.pc # "sent" => l.sent = 0, l.sent # 0 => now < l.sent, l.pc = "found" => l.got # 0
  PROVE  reader' \in [Readers -> Looks] /\ ReadInv'
<1>1. reader' \in [Readers -> Looks] /\ reader'[r] = l /\ \A i \in Readers : i # r => reader'[i] = reader[i]
  BY Zenon DEF TypeInv
<1> QED
  BY <1>1, Zenon DEF ReadInv

\* Lookup and the staple of the certificate it finds.
LEMMA ReaderEffect ==
  ASSUME TypeInv, ReadInv, NEW r \in Readers, NEW d \in Domains,
         LookupName(r, d) \/ LookupDefault(r) \/ Certificate(r) \/ HandshakeOver(r)
  PROVE  /\ UNCHANGED <<store, made, dom, stapled, admin, tracking, now, done, mix>>
         /\ reader' \in [Readers -> Looks] /\ ReadInv'
<1>0. /\ reader[r] \in Looks /\ def \in 0 .. MaxEntries /\ certs[d] \in 0 .. MaxEntries /\ now \in Nat
      /\ reader \in [Readers -> Looks] /\ MaxEntries \in Nat /\ staple \in [Entries -> Nat]
  BY CertAssumption, Zenon DEF TypeInv
<1>1. CASE LookupName(r, d)
  <2> DEFINE l == [pc |-> IF certs[d] = 0 THEN "default" ELSE "found", got |-> certs[d], sent |-> 0]
  <2>1. l \in Looks /\ l.sent = 0 /\ l.pc # "sent" /\ (l.pc = "found" => l.got # 0)
    BY <1>0, Zenon DEF Looks
  <2>2. reader' = [reader EXCEPT ![r] = l] /\ now' = now
    BY <1>1, Zenon DEF LookupName
  <2> HIDE DEF l
  <2> QED
    BY <1>0, <1>1, <2>1, <2>2, LookMoves, Zenon DEF LookupName
<1>2. CASE LookupDefault(r)
  <2> DEFINE pc == IF def = 0 THEN "refused" ELSE "found"
             l == [pc |-> pc, got |-> def, sent |-> reader[r].sent]
  <2>1. l \in Looks /\ l.sent = 0 /\ l.pc # "sent" /\ (l.pc = "found" => l.got # 0)
    <3>1. reader[r].sent = 0 /\ pc \in {"refused", "found"} /\ (pc = "found" => def # 0)
      BY <1>2, Zenon DEF ReadInv, LookupDefault
    <3> QED
      BY <1>0, <3>1, Zenon DEF Looks
  <2>2. reader' = [reader EXCEPT ![r] = l] /\ now' = now
    BY <1>0, <1>2 DEF LookupDefault, Looks
  <2> HIDE DEF l
  <2> QED
    BY <1>0, <1>2, <2>1, <2>2, LookMoves, Zenon DEF LookupDefault
<1>3. CASE Certificate(r)
  <2> DEFINE sent == LiveStaple(reader[r].got)
             mid == [reader[r] EXCEPT !.pc = "sent"]
             l == [mid EXCEPT !.sent = sent]
  <2>1. sent # 0 => now < sent
    BY Zenon DEF LiveStaple
  <2>2. sent \in Nat
    <3>1. reader[r].got \in Entries
      BY <1>0, <1>3 DEF Certificate, ReadInv, Looks, Entries
    <3> QED
      BY <1>0, <3>1, Zenon DEF LiveStaple
  <2>3. l \in Looks /\ l.sent = sent /\ l.pc = "sent"
    <3>1. mid \in Looks /\ mid.pc = "sent"
      BY <1>0, Zenon DEF Looks
    <3> HIDE DEF mid, sent
    <3> QED
      BY <2>2, <3>1, Zenon DEF Looks
  <2>4. reader' = [reader EXCEPT ![r] = l] /\ now' = now
    BY <1>0, <1>3, Zenon DEF Certificate
  <2> HIDE DEF l, sent
  <2> QED
    BY <1>0, <1>3, <2>1, <2>3, <2>4, LookMoves, Zenon DEF Certificate
<1>4. CASE HandshakeOver(r)
  <2>1. reader' = [reader EXCEPT ![r] = NoLook] /\ now' = now
    BY <1>4, Zenon DEF HandshakeOver
  <2> QED
    BY <1>4, <2>1, RecordTypes, LookMoves, Zenon DEF HandshakeOver
<1> QED
  BY <1>1, <1>2, <1>3, <1>4, Zenon

--------------------------------------------------------------------------------
(* The map and the default.                                                     *)

\* A certificate that is one has a name.
LEMMA Named ==
  ASSUME TypeInv
  PROVE  /\ 0 \notin Admins
         /\ def # 0 => def \in Entries /\ dom[def] \in Domains
         /\ \A d \in Domains : certs[d] # 0 => certs[d] \in Entries
         /\ \A a \in Admins : admin[a].e # 0 => admin[a].e \in Entries /\ dom[admin[a].e] \in Domains
BY CertAssumption, SMTT(60) DEF TypeInv, Entries, Ops

\* NewEntry: a certificate nobody knows of yet.
LEMMA NewEntryKeeps ==
  ASSUME TypeInv, StoreInv, NEW a \in Admins, NEW d \in Domains, NEW s \in BOOLEAN, NewEntry(a, d, s)
  PROVE  StoreInv'
<1> DEFINE n == made + 1
<1>1. made \in Nat /\ n \in Nat /\ n \in Entries /\ n > made /\ n # 0
  BY CertAssumption, SMTT(60) DEF NewEntry, TypeInv, Entries
<1>2. made' = n /\ UNCHANGED <<certs, def, mu>>
  BY Zenon DEF NewEntry, store
<1>3. \A e \in Entries : e # n => dom'[e] = dom[e]
  BY <1>1, Zenon DEF NewEntry, TypeInv
<1>4. /\ admin'[a].pc = "made" /\ admin'[a].e = n /\ \A b \in Admins : b # a => admin'[b] = admin[b]
      /\ admin[a].pc = "idle"
  BY Zenon DEF NewEntry, TypeInv
<1>5. /\ \A b \in Admins : admin[b].e \in Nat /\ admin[b].e <= made
      /\ def \in Nat /\ def <= made
      /\ \A c \in Domains : certs[c] \in Nat /\ certs[c] <= made
  BY <1>1 DEF TypeInv, StoreInv, EntryInv, Ops
<1> HIDE DEF n
<1>6. \A e \in Entries : e <= made => dom'[e] = dom[e]
  BY <1>1, <1>3 DEF Entries
<1>7. LockInv'
  BY <1>2, <1>4, Zenon DEF StoreInv, LockInv
<1>8. EntryInv'
  <2>1. def' <= made' /\ \A b \in Admins : admin'[b].e <= made'
    BY <1>1, <1>2, <1>4, <1>5, SMTT(30)
  <2>2. \A c \in Domains : certs'[c] # 0 => certs'[c] <= made' /\ dom'[certs'[c]] = c
    BY <1>1, <1>2, <1>5, <1>6, Named, SMTT(30) DEF StoreInv, EntryInv
  <2>3. \A b \in Admins : admin'[b].pc \in {"made", "added", "onAdd"} <=> admin'[b].e # 0
    BY <1>1, <1>4, SMTT(30) DEF StoreInv, EntryInv
  <2>4. ASSUME NEW b \in Admins, NEW c \in Admins, admin'[b].e = admin'[c].e, admin'[b].e # 0
        PROVE  b = c
    <3>1. \A k \in Admins : admin[k].e # n
      BY <1>1, <1>5
    <3> QED
      BY <1>4, <2>4, <3>1 DEF StoreInv, EntryInv
  <2> QED
    BY <2>1, <2>2, <2>3, <2>4, Zenon DEF EntryInv
<1>9. DefInv'
  <2>1. def # 0 => dom'[def] = dom[def]
    BY <1>5, <1>6, Named, Zenon
  <2>2. DefaultCurrent'
    BY <1>2, <2>1, Zenon DEF StoreInv, DefInv, DefaultCurrent, Registered
  <2>3. ASSUME NEW b \in Admins
        PROVE  /\ admin'[b].pc = "added" =>
                    /\ certs'[dom'[admin'[b].e]] = admin'[b].e
                    /\ def' = 0 => Registered' \subseteq {dom'[admin'[b].e]}
                    /\ def' # 0 /\ dom'[def'] # dom'[admin'[b].e] => certs'[dom'[def']] = def'
               /\ admin'[b].pc = "pick" => def' = 0
    <3>1. CASE b = a
      BY <1>4, <3>1, Zenon
    <3>2. CASE b # a
      <4>1. admin'[b] = admin[b] /\ (admin[b].pc = "added" => dom'[admin[b].e] = dom[admin[b].e])
        BY <1>4, <1>5, <1>6, <3>2, Named, Zenon DEF StoreInv, EntryInv
      <4> QED
        BY <1>2, <2>1, <4>1, ZenonT(60) DEF StoreInv, DefInv, Registered
    <3> QED
      BY <3>1, <3>2, Zenon
  <2> QED
    BY <2>2, <2>3, Zenon DEF DefInv
<1> QED
  BY <1>7, <1>8, <1>9, Zenon DEF StoreInv

\* StoreCert: the name's entry is replaced.
LEMMA StoreCertKeeps ==
  ASSUME TypeInv, StoreInv, NEW a \in Admins, StoreCert(a)
  PROVE  StoreInv'
<1> DEFINE n == admin[a].e
<1>1. n # 0 /\ n \in Entries /\ dom[n] \in Domains
  BY Named, Zenon DEF StoreCert, StoreInv, EntryInv
<1>2. mu = 0 /\ mu' = a /\ UNCHANGED <<def, made, dom>>
  BY Zenon DEF StoreCert
<1>3. certs'[dom[n]] = n /\ \A c \in Domains : c # dom[n] => certs'[c] = certs[c]
  BY <1>1, Zenon DEF StoreCert, TypeInv
<1>4. /\ admin'[a].pc = "added" /\ admin[a].pc = "made"
      /\ \A b \in Admins : b # a => admin'[b] = admin[b]
      /\ \A b \in Admins : admin'[b].e = admin[b].e
  BY AdminMoves, Zenon DEF StoreCert
<1>5. n <= made /\ \A b \in Admins : admin[b].pc \notin {"added", "removed", "pick"}
  BY <1>2, CertAssumption, ZenonT(30) DEF StoreInv, EntryInv, LockInv
<1>n. admin'[a].e = n
  BY <1>4, Zenon
<1> HIDE DEF n
<1>6. LockInv'
  BY <1>2, <1>4, <1>5, Zenon DEF LockInv
<1>7. EntryInv'
  <2>1. def' <= made' /\ \A b \in Admins : admin'[b].e <= made'
    BY <1>2, <1>4, Zenon DEF StoreInv, EntryInv
  <2>2. \A c \in Domains : certs'[c] # 0 => certs'[c] <= made' /\ dom'[certs'[c]] = c
    BY <1>2, <1>3, <1>5, ZenonT(120) DEF StoreInv, EntryInv
  <2>3. \A b \in Admins : admin'[b].pc \in {"made", "added", "onAdd"} <=> admin'[b].e # 0
    BY <1>4 DEF StoreInv, EntryInv
  <2>4. \A b, c \in Admins : admin'[b].e = admin'[c].e /\ admin'[b].e # 0 => b = c
    BY <1>4 DEF StoreInv, EntryInv
  <2> QED
    BY <2>1, <2>2, <2>3, <2>4, Zenon DEF EntryInv
<1>8. DefInv'
  <2>1. DefaultCurrent'
    BY <1>2, CertAssumption, Zenon DEF DefaultCurrent
  <2>2. /\ def = 0 => Registered' \subseteq {dom[n]}
        /\ def # 0 /\ dom[def] # dom[n] => certs'[dom[def]] = def
    BY <1>2, <1>3, Named, Zenon DEF StoreInv, DefInv, DefaultCurrent, Registered
  <2>3. \A b \in Admins : b # a => admin'[b].pc # "added" /\ admin'[b].pc # "pick"
    BY <1>4, <1>5, Zenon
  <2> QED
    BY <1>2, <1>3, <1>4, <1>n, <2>1, <2>2, <2>3, Zenon DEF DefInv
<1> QED
  BY <1>6, <1>7, <1>8, Zenon DEF StoreInv

\* AddDefault: none, or an earlier certificate of the name, gives way to the new one.
LEMMA AddDefaultKeeps ==
  ASSUME TypeInv, StoreInv, NEW a \in Admins, AddDefault(a)
  PROVE  StoreInv'
<1> DEFINE n == admin[a].e
<1>1. n # 0 /\ n \in Entries /\ dom[n] \in Domains /\ n <= made
  BY Named, Zenon DEF AddDefault, StoreInv, EntryInv
<1>2. mu = a /\ mu' = 0 /\ UNCHANGED <<certs, made, dom>>
  BY Zenon DEF AddDefault, StoreInv, LockInv
<1>3. IF def = 0 \/ dom[def] = dom[n] THEN def' = n ELSE def' = def
  BY Zenon DEF AddDefault, TakesDefault
<1>4. /\ admin'[a].pc = "onAdd" /\ admin[a].pc = "added"
      /\ \A b \in Admins : b # a => admin'[b] = admin[b]
      /\ \A b \in Admins : admin'[b].e = admin[b].e
  BY AdminMoves, Zenon DEF AddDefault
<1>5. \A b \in Admins : b # a => admin[b].pc \notin {"added", "removed", "pick"}
  BY <1>2, Zenon DEF StoreInv, LockInv
<1>6. /\ certs[dom[n]] = n
      /\ def # 0 /\ dom[def] # dom[n] => certs[dom[def]] = def
  BY <1>4, Zenon DEF StoreInv, DefInv
<1>n. admin'[a].e = n
  BY <1>4, Zenon
<1> HIDE DEF n
<1>7. LockInv'
  BY <1>2, <1>4, <1>5, CertAssumption, Zenon DEF LockInv
<1>8. EntryInv'
  <2>1. def' <= made'
    BY <1>1, <1>2, <1>3, Zenon DEF StoreInv, EntryInv
  <2>2. \A b \in Admins : admin'[b].pc \in {"made", "added", "onAdd"} <=> admin'[b].e # 0
    BY <1>4 DEF StoreInv, EntryInv
  <2> QED
    BY <1>2, <1>4, <2>1, <2>2 DEF StoreInv, EntryInv
<1>9. DefInv'
  <2>1. def' # 0 /\ certs[dom[def']] = def' /\ dom[def'] \in Domains
    BY <1>1, <1>3, <1>6, Named, Zenon
  <2>2. DefaultCurrent'
    BY <1>2, <2>1, Zenon DEF DefaultCurrent, Registered
  <2>3. \A b \in Admins : admin'[b].pc # "added" /\ admin'[b].pc # "pick"
    BY <1>4, <1>5, Zenon
  <2> QED
    BY <2>2, <2>3, Zenon DEF DefInv
<1> QED
  BY <1>7, <1>8, <1>9, Zenon DEF StoreInv

\* Track: the caller is done.
LEMMA TrackKeeps ==
  ASSUME TypeInv, StoreInv, NEW a \in Admins, Track(a)
  PROVE  StoreInv'
<1>1. UNCHANGED <<certs, def, mu, made, dom>> /\ admin[a].pc = "onAdd"
  BY Zenon DEF Track, store
<1>2. admin'[a].pc = "idle" /\ admin'[a].e = 0 /\ \A b \in Admins : b # a => admin'[b] = admin[b]
  BY AdminEnds, Zenon DEF Track
<1>3. LockInv'
  BY <1>1, <1>2, Zenon DEF StoreInv, LockInv
<1>4. EntryInv'
  <2>1. made \in Nat
    BY DEF TypeInv
  <2>2. \A b \in Admins : admin'[b].e <= made
    BY <1>2, <2>1 DEF StoreInv, EntryInv
  <2>3. \A b \in Admins : admin'[b].pc \in {"made", "added", "onAdd"} <=> admin'[b].e # 0
    BY <1>2, ZenonT(60) DEF StoreInv, EntryInv
  <2>4. \A b, c \in Admins : admin'[b].e = admin'[c].e /\ admin'[b].e # 0 => b = c
    BY <1>2 DEF StoreInv, EntryInv
  <2> QED
    BY <1>1, <2>2, <2>3, <2>4, Zenon DEF StoreInv, EntryInv
<1>5. DefInv'
  <2>1. DefaultCurrent'
    BY <1>1, Zenon DEF StoreInv, DefInv, DefaultCurrent, Registered
  <2> QED
    BY <1>1, <1>2, <2>1, ZenonT(30) DEF StoreInv, DefInv, Registered
<1> QED
  BY <1>3, <1>4, <1>5, Zenon DEF StoreInv

\* DeleteCert: the mutex stays held when the default has to be replaced.
LEMMA DeleteCertKeeps ==
  ASSUME TypeInv, StoreInv, NEW a \in Admins, NEW d \in Domains, DeleteCert(a, d)
  PROVE  StoreInv'
<1>1. mu = 0 /\ UNCHANGED <<def, made, dom>> /\ admin[a].pc = "idle" /\ certs[d] # 0
  BY Zenon DEF DeleteCert
<1>2. certs'[d] = 0 /\ \A c \in Domains : c # d => certs'[c] = certs[c]
  BY CertAssumption, Zenon DEF DeleteCert, TypeInv
<1>3. \A b \in Admins : admin[b].pc \notin {"added", "removed", "pick"}
  BY <1>1, CertAssumption, Zenon DEF StoreInv, LockInv
<1>4. \A c \in Domains : certs'[c] # 0 => certs'[c] <= made' /\ dom'[certs'[c]] = c
  BY <1>1, <1>2, ZenonT(60) DEF StoreInv, EntryInv
<1>5. CASE def # 0 /\ dom[def] = d
  <2>1. /\ mu' = a /\ admin'[a].pc = "removed"
        /\ \A b \in Admins : b # a => admin'[b] = admin[b]
        /\ \A b \in Admins : admin'[b].e = admin[b].e
    BY <1>5, AdminMoves, Zenon DEF DeleteCert
  <2>2. LockInv'
    BY <1>3, <2>1, Zenon DEF LockInv
  <2>3. EntryInv'
    <3>1. \A b \in Admins : admin'[b].pc \in {"made", "added", "onAdd"} <=> admin'[b].e # 0
      BY <1>1, <2>1 DEF StoreInv, EntryInv
    <3> QED
      BY <1>1, <1>4, <2>1, <3>1 DEF StoreInv, EntryInv
  <2>4. DefInv'
    <3>1. DefaultCurrent'
      BY <2>1, CertAssumption, Zenon DEF DefaultCurrent
    <3>2. \A b \in Admins : admin'[b].pc # "added" /\ admin'[b].pc # "pick"
      BY <1>3, <2>1, Zenon
    <3> QED
      BY <3>1, <3>2, Zenon DEF DefInv
  <2> QED
    BY <2>2, <2>3, <2>4, Zenon DEF StoreInv
<1>6. CASE ~(def # 0 /\ dom[def] = d)
  <2>1. UNCHANGED <<mu, admin>>
    BY <1>6, Zenon DEF DeleteCert
  <2>2. LockInv'
    BY <2>1, Zenon DEF StoreInv, LockInv
  <2>3. EntryInv'
    BY <1>1, <1>4, <2>1, ZenonT(30) DEF StoreInv, EntryInv
  <2>4. DefInv'
    <3>1. def # 0 /\ certs[dom[def]] = def /\ dom[def] \in Domains /\ dom[def] # d
      BY <1>1, <1>6, Named, Zenon DEF StoreInv, DefInv, DefaultCurrent, Registered
    <3>2. DefaultCurrent'
      BY <1>1, <1>2, <3>1, Zenon DEF DefaultCurrent, Registered
    <3> QED
      BY <1>3, <2>1, <3>2, Zenon DEF DefInv
  <2> QED
    BY <2>2, <2>3, <2>4, Zenon DEF StoreInv
<1> QED
  BY <1>5, <1>6, Zenon

\* ClearDefault: the default is nil while the mutex is held.
LEMMA ClearDefaultKeeps ==
  ASSUME TypeInv, StoreInv, NEW a \in Admins, ClearDefault(a)
  PROVE  StoreInv'
<1>1. mu = a /\ def' = 0 /\ UNCHANGED <<certs, mu, made, dom>> /\ admin[a].pc = "removed"
  BY Zenon DEF ClearDefault, StoreInv, LockInv
<1>2. /\ admin'[a].pc = "pick"
      /\ \A b \in Admins : b # a => admin'[b] = admin[b]
      /\ \A b \in Admins : admin'[b].e = admin[b].e
  BY AdminMoves, Zenon DEF ClearDefault
<1>3. LockInv'
  BY <1>1, <1>2, Zenon DEF StoreInv, LockInv
<1>4. EntryInv'
  <2>1. made \in Nat /\ def' <= made
    BY <1>1 DEF TypeInv
  <2>2. \A b \in Admins : admin'[b].pc \in {"made", "added", "onAdd"} <=> admin'[b].e # 0
    BY <1>1, <1>2, ZenonT(120) DEF StoreInv, EntryInv
  <2> QED
    BY <1>1, <1>2, <2>1, <2>2, SMTT(30) DEF StoreInv, EntryInv
<1>5. DefInv'
  <2>1. DefaultCurrent'
    BY <1>1, CertAssumption, Zenon DEF DefaultCurrent
  <2>2. \A b \in Admins : admin'[b].pc # "added"
    BY <1>1, <1>2, Zenon DEF StoreInv, LockInv
  <2> QED
    BY <1>1, <2>1, <2>2, Zenon DEF DefInv
<1> QED
  BY <1>3, <1>4, <1>5, Zenon DEF StoreInv

\* PickDefault: whatever is left is registered under its own name.
LEMMA PickDefaultKeeps ==
  ASSUME TypeInv, StoreInv, NEW a \in Admins, PickDefault(a)
  PROVE  StoreInv'
<1>1. mu = a /\ mu' = 0 /\ UNCHANGED <<certs, made, dom>> /\ admin[a].pc = "pick" /\ def = 0
  BY Zenon DEF PickDefault, StoreInv, LockInv, DefInv
<1>2. \/ Registered = {} /\ def' = 0
      \/ \E d \in Registered : def' = certs[d]
  BY <1>1, Zenon DEF PickDefault
<1>3. admin'[a].pc = "idle" /\ admin'[a].e = 0 /\ \A b \in Admins : b # a => admin'[b] = admin[b]
  BY AdminEnds, Zenon DEF PickDefault
<1>4. \A b \in Admins : admin'[b].pc \notin {"added", "removed", "pick"}
  BY <1>1, <1>3, Zenon DEF StoreInv, LockInv
<1>5. LockInv'
  BY <1>1, <1>4, CertAssumption, Zenon DEF LockInv
<1>6. EntryInv'
  <2>1. made \in Nat /\ def' <= made
    BY <1>2 DEF TypeInv, StoreInv, EntryInv, Registered
  <2>2. \A b \in Admins : admin'[b].e <= made
    BY <1>3, <2>1 DEF StoreInv, EntryInv
  <2>3. \A b \in Admins : admin'[b].pc \in {"made", "added", "onAdd"} <=> admin'[b].e # 0
    BY <1>3, Zenon DEF StoreInv, EntryInv
  <2>4. \A b, c \in Admins : admin'[b].e = admin'[c].e /\ admin'[b].e # 0 => b = c
    BY <1>3 DEF StoreInv, EntryInv
  <2> QED
    BY <1>1, <2>1, <2>2, <2>3, <2>4, Zenon DEF StoreInv, EntryInv
<1>7. DefInv'
  <2>1. DefaultCurrent'
    BY <1>1, <1>2, ZenonT(60) DEF StoreInv, EntryInv, DefaultCurrent, Registered
  <2> QED
    BY <1>4, <2>1, Zenon DEF DefInv
<1> QED
  BY <1>5, <1>6, <1>7, Zenon DEF StoreInv

\* SetDefault takes a registered certificate.
LEMMA SetDefaultKeeps ==
  ASSUME TypeInv, StoreInv, NEW a \in Admins, NEW d \in Domains, SetDefault(a, d)
  PROVE  StoreInv'
<1>1. mu = 0 /\ certs[d] # 0 /\ def' = certs[d] /\ UNCHANGED <<certs, mu, made, dom, admin>>
  BY Zenon DEF SetDefault
<1>2. LockInv' /\ EntryInv'
  BY <1>1, ZenonT(60) DEF StoreInv, LockInv, EntryInv
<1>3. \A b \in Admins : admin[b].pc \notin {"added", "removed", "pick"}
  BY <1>1, CertAssumption, Zenon DEF StoreInv, LockInv
<1>4. DefaultCurrent'
  BY <1>1, SMTT(30) DEF StoreInv, EntryInv, DefaultCurrent, Registered
<1> QED
  BY <1>1, <1>2, <1>3, <1>4, Zenon DEF StoreInv, DefInv

\* Handshakes, staplers, the clock and the shutdown leave the store alone.
LEMMA UntouchedKeeps ==
  ASSUME StoreInv, UNCHANGED <<store, made, dom, admin>>
  PROVE  StoreInv'
BY ZenonT(60) DEF store, StoreInv, LockInv, EntryInv, DefInv, DefaultCurrent, Registered

--------------------------------------------------------------------------------
(* The staplers.                                                                *)

\* The tick of the clock and the shutdown.
LEMMA ClockEffect ==
  ASSUME TypeInv, ReadInv, Tick \/ Shutdown
  PROVE  TypeInv' /\ ReadInv' /\ (done => done') /\ UNCHANGED <<store, made, dom, stapled, admin, tracking>>
<1>1. CASE Tick
  <2>1. reader' \in [Readers -> Looks]
    BY <1>1, RecordTypes, Zenon DEF Tick, TypeInv
  <2>2. now \in Nat /\ now' = now + 1
    BY <1>1, Zenon DEF Tick, TypeInv
  <2>3. TypeInv'
    BY <1>1, <2>1, <2>2 DEF Tick, TypeInv, store, tracking
  <2>4. ASSUME NEW r \in Readers
        PROVE  /\ reader'[r].sent = 0 /\ reader'[r].pc # "sent"
               /\ reader'[r].pc = "found" => reader'[r].got # 0
    <3>1. CASE reader[r].pc = "sent"
      BY <1>1, <3>1, RecordTypes, ZenonT(30) DEF Tick
    <3>2. CASE reader[r].pc # "sent"
      BY <1>1, <3>2, ZenonT(30) DEF Tick, ReadInv
    <3> QED
      BY <3>1, <3>2, Zenon
  <2> QED
    BY <1>1, <2>3, <2>4, Zenon DEF Tick, ReadInv
<1>2. CASE Shutdown
  BY <1>2, Zenon DEF Shutdown, TypeInv, ReadInv, store, tracking
<1> QED
  BY <1>1, <1>2, Zenon

\* Steps that change neither the map nor a stapler.
LEMMA SameStaplers ==
  ASSUME StapleInv, UNCHANGED <<certs, made, dom, stapled, tracking>>, done => done',
         \A b \in Admins : admin'[b].e = admin[b].e
  PROVE  StapleInv'
<1>1. \A e : Current(e)' <=> Current(e)
  BY Zenon DEF Current
<1>2. run' = run /\ staple' = staple
  BY Zenon DEF tracking
<1> QED
  BY <1>1, <1>2, ZenonT(120) DEF StapleInv

\* NewEntry: the new certificate is being added, and nothing staples it yet.
LEMMA NewEntryStaples ==
  ASSUME TypeInv, StoreInv, StapleInv, NEW a \in Admins, NEW d \in Domains, NEW s \in BOOLEAN, NewEntry(a, d, s)
  PROVE  StapleInv'
<1> DEFINE n == made + 1
<1>1. made \in Nat /\ n \in Nat /\ n \in Entries /\ n > made /\ n # 0 /\ made' = n
  BY CertAssumption, SMTT(30) DEF NewEntry, TypeInv, Entries
<1>2. run' = run /\ staple' = staple /\ certs' = certs /\ done' = done
  BY Zenon DEF NewEntry, store, tracking
<1>3. \A e \in Entries : e # n => dom'[e] = dom[e]
  BY <1>1, ZenonT(30) DEF NewEntry, TypeInv
<1>4. /\ admin'[a].e = n /\ \A b \in Admins : b # a => admin'[b] = admin[b]
      /\ admin[a].e = 0
  BY ZenonT(60) DEF NewEntry, TypeInv, StoreInv, EntryInv
<1>5. stapled' \subseteq stapled \union {n}
  BY ZenonT(30) DEF NewEntry
<1> HIDE DEF n
<1>6. stapled' \subseteq 1 .. made' /\ run[n].pc = "none"
  BY <1>1, <1>5, SMTT(30) DEF StapleInv
<1>7. \A e \in Entries : e > made' => run'[e].pc = "none"
  BY <1>1, <1>2, SMTT(30) DEF StapleInv, Entries
<1>8. \A e \in Entries, b \in Admins : admin'[b].e = e => run'[e].pc = "none"
  BY <1>2, <1>4, <1>6 DEF StapleInv
<1>9. \A e \in stapled' : run'[e].pc = "none" => \E b \in Admins : admin'[b].e = e
  <2>1. ASSUME NEW e \in stapled', run[e].pc = "none", e # n
        PROVE  \E b \in Admins : admin'[b].e = e
    <3>1. e \in stapled /\ e # 0
      BY <1>5, <2>1 DEF TypeInv, Entries
    <3>2. PICK b \in Admins : admin[b].e = e
      BY <2>1, <3>1, Zenon DEF StapleInv
    <3> QED
      BY <1>4, <3>1, <3>2, Zenon
  <2> QED
    BY <1>2, <1>4, <2>1, Zenon
<1>10. \A e \in Entries : run'[e].pc = "gone" /\ ~done' => ~Current(e)'
  BY <1>2, <1>3, <1>6, Zenon DEF StapleInv, Current
<1> QED
  BY <1>2, <1>6, <1>7, <1>8, <1>9, <1>10, Zenon DEF StapleInv

\* StoreCert: the certificate that becomes current has no stapler that has ended.
LEMMA StoreCertStaples ==
  ASSUME TypeInv, StoreInv, StapleInv, NEW a \in Admins, StoreCert(a)
  PROVE  StapleInv'
<1> DEFINE n == admin[a].e
<1>1. n \in Entries /\ dom[n] \in Domains
  BY Named, Zenon DEF StoreCert, StoreInv, EntryInv
<1>2. UNCHANGED <<made, dom, stapled, run, staple, done>>
  BY Zenon DEF StoreCert, tracking
<1>3. certs'[dom[n]] = n /\ \A c \in Domains : c # dom[n] => certs'[c] = certs[c]
  BY <1>1, Zenon DEF StoreCert, TypeInv
<1>4. \A b \in Admins : admin'[b].e = admin[b].e
  BY AdminMoves, Zenon DEF StoreCert
<1>5. run[n].pc = "none"
  BY <1>1, Zenon DEF StapleInv
<1>6. \A e \in Entries : e # n /\ Current(e)' => Current(e)
  BY <1>2, <1>3, Zenon DEF Current, TypeInv
<1> HIDE DEF n
<1>7. \A e \in Entries : run[e].pc = "gone" /\ ~done => ~Current(e)'
  BY <1>5, <1>6, Zenon DEF StapleInv
<1> QED
  BY <1>2, <1>4, <1>7, ZenonT(120) DEF StapleInv

\* DeleteCert: no certificate becomes current.
LEMMA DeleteCertStaples ==
  ASSUME TypeInv, StoreInv, StapleInv, NEW a \in Admins, NEW d \in Domains, DeleteCert(a, d)
  PROVE  StapleInv'
<1>1. UNCHANGED <<made, dom, stapled, run, staple, done>>
  BY Zenon DEF DeleteCert, tracking
<1>2. certs'[d] = 0 /\ \A c \in Domains : c # d => certs'[c] = certs[c]
  BY CertAssumption, Zenon DEF DeleteCert, TypeInv
<1>3. \A b \in Admins : admin'[b].e = admin[b].e
  BY AdminMoves, Zenon DEF DeleteCert
<1>4. \A e \in Entries : Current(e)' => Current(e)
  BY <1>1, <1>2, SMTT(30) DEF Current, TypeInv, Entries
<1> QED
  BY <1>1, <1>3, <1>4, ZenonT(120) DEF StapleInv

\* Track: the caller hands the certificate to its stapler.
LEMMA TrackStaples ==
  ASSUME TypeInv, StoreInv, StapleInv, NEW a \in Admins, Track(a)
  PROVE  StapleInv'
<1> DEFINE n == admin[a].e
<1>1. UNCHANGED <<certs, made, dom, stapled, staple, done>> /\ n # 0 /\ n \in Entries /\ n <= made
  BY Named, Zenon DEF Track, store, StoreInv, EntryInv
<1>2. admin'[a].e = 0 /\ \A b \in Admins : b # a => admin'[b] = admin[b]
  BY AdminEnds, ZenonT(30) DEF Track
<1>3. \A b \in Admins : b # a => admin[b].e # n
  BY <1>1, Zenon DEF StoreInv, EntryInv
<1>4. /\ n \in stapled => run'[n].pc = "check"
      /\ \A e \in Entries : e # n \/ n \notin stapled => run'[e] = run[e]
  <2>1. run' = IF n \in stapled THEN [run EXCEPT ![n].pc = "check"] ELSE run
    BY Zenon DEF Track
  <2>2. run \in [Entries -> RunRecs]
    BY ZenonT(30) DEF TypeInv
  <2> QED
    BY <1>1, <2>1, <2>2, Zenon DEF RunRecs
<1> HIDE DEF n
<1>5. \A e \in Entries : e > made => run'[e].pc = "none"
  <2>1. made \in Nat /\ \A e \in Entries : e > made => e # n
    BY <1>1, SMTT(30) DEF TypeInv, Entries
  <2> QED
    BY <1>4, <2>1, Zenon DEF StapleInv
<1>6. \A e \in Entries, b \in Admins : admin'[b].e = e => run'[e].pc = "none"
  <2>1. \A e \in Entries : e # 0
    BY DEF Entries
  <2> QED
    BY <1>2, <1>3, <1>4, <2>1, SMTT(30) DEF StapleInv
<1>7. \A e \in stapled : run'[e].pc = "none" => \E b \in Admins : admin'[b].e = e
  <2>1. ASSUME NEW e \in stapled, run'[e].pc = "none"
        PROVE  \E b \in Admins : admin'[b].e = e
    <3>1. e # n /\ run[e].pc = "none"
      BY <1>4, <2>1, Zenon DEF TypeInv
    <3>2. PICK b \in Admins : admin[b].e = e
      BY <3>1, ZenonT(30) DEF StapleInv
    <3>3. b # a
      BY <3>1, <3>2, Zenon DEF n
    <3> QED
      BY <1>2, <3>2, <3>3, Zenon
  <2> QED
    BY <2>1, Zenon
<1>8. \A e \in Entries : run'[e].pc = "gone" /\ ~done => ~Current(e)'
  <2>1. \A e \in Entries : run'[e].pc = "gone" => run[e].pc = "gone"
    BY <1>4, Zenon
  <2> QED
    BY <1>1, <2>1, Zenon DEF StapleInv, Current
<1>9. \A e \in Entries : run'[e].pc = "sleep" /\ run'[e].ok => run'[e].until < staple[e]
  BY <1>4, ZenonT(30) DEF StapleInv
<1> QED
  BY <1>1, <1>5, <1>6, <1>7, <1>8, <1>9, Zenon DEF StapleInv

\* A stapler's own step.
LEMMA StaplerKeeps ==
  ASSUME TypeInv, StapleInv, NEW e \in Entries,
         \/ CheckCurrent(e) \/ FetchFails(e) \/ Wake(e)
         \/ \E this \in {0, now}, next \in {now + Lifetime} : Fetched(e, this, next)
  PROVE  TypeInv' /\ StapleInv'
<1>1. /\ UNCHANGED <<certs, def, mu, made, dom, stapled, admin, reader, now, done, mix>>
      /\ staple' \in [Entries -> Nat] /\ \A i \in Entries : i # e => staple'[i] = staple[i]
      /\ run' \in [Entries -> RunRecs] /\ \A i \in Entries : i # e => run'[i] = run[i]
      /\ \A i \in Entries : run'[i].retry \in RetryMin .. Larger(RetryMin, RetryMax)
      /\ run[e].pc # "none" /\ run'[e].pc # "none"
      /\ run'[e].pc = "gone" => done \/ ~Current(e)
      /\ run'[e].pc = "sleep" /\ run'[e].ok => run'[e].until < staple'[e]
  BY StaplerEffect, ZenonT(30) DEF store
<1>2. TypeInv'
  BY <1>1, Zenon DEF TypeInv
<1>3. \A i : Current(i)' <=> Current(i)
  BY <1>1, ZenonT(30) DEF Current
<1>4. \A i \in Entries : /\ i > made => run'[i].pc = "none"
                         /\ \A a \in Admins : admin[a].e = i => run'[i].pc = "none"
  BY <1>1, ZenonT(60) DEF StapleInv
<1>5. \A i \in Entries : /\ run'[i].pc = "gone" /\ ~done => ~Current(i)
                         /\ run'[i].pc = "sleep" /\ run'[i].ok => run'[i].until < staple'[i]
  BY <1>1, ZenonT(30) DEF StapleInv
<1>6. \A i \in stapled : run'[i].pc = "none" => \E a \in Admins : admin[a].e = i
  BY <1>1, Zenon DEF StapleInv, TypeInv
<1> QED
  BY <1>1, <1>2, <1>3, <1>4, <1>5, <1>6, ZenonT(30) DEF StapleInv

--------------------------------------------------------------------------------
(* The theorems.                                                                *)

CertsInv == TypeInv /\ StoreInv /\ StapleInv /\ ReadInv

\* What NewCertStore and newOCSPStapler leave satisfies the invariant.
LEMMA InitHolds ==
  ASSUME Init
  PROVE  CertsInv
<1>1. TypeInv
  BY InitTypes, Zenon
<1>2. /\ \A a \in Admins : admin[a].pc = "idle" /\ admin[a].e = 0
      /\ \A d \in Domains : certs[d] = 0
      /\ \A e \in Entries : run[e].pc = "none"
      /\ \A r \in Readers : reader[r].pc = "idle" /\ reader[r].sent = 0
  BY RecordTypes, Zenon DEF Init
<1>3. def = 0 /\ mu = 0 /\ made = 0 /\ stapled = {}
  BY ZenonT(60) DEF Init
<1>4. StoreInv
  BY <1>2, <1>3, CertAssumption, SMTT(30) DEF StoreInv, LockInv, EntryInv, DefInv, DefaultCurrent, Registered
<1>5. StapleInv
  BY <1>2, <1>3, Zenon DEF StapleInv
<1>6. ReadInv
  BY <1>2, Zenon DEF ReadInv
<1> QED
  BY <1>1, <1>4, <1>5, <1>6, Zenon DEF CertsInv

\* The invariant of the store and its staplers is inductive: every store to the map and
\* to the default (cert_store.go), every Lookup and every step of ocspStapler.run keeps it.
THEOREM CertsInductive == Spec => []CertsInv
<1>1. Init => CertsInv
  BY InitHolds, Zenon
<1>2. CertsInv /\ [Next]_vars => CertsInv'
  <2> SUFFICES ASSUME CertsInv, [Next]_vars PROVE CertsInv'
    BY Zenon
  <2> USE DEF CertsInv
  <2>1. ASSUME NEW a \in Admins, NEW d \in Domains, NEW s \in BOOLEAN, NewEntry(a, d, s) PROVE CertsInv'
    <3>1. TypeInv' /\ StoreInv' /\ StapleInv'
      BY <2>1, AdminTypes, NewEntryKeeps, NewEntryStaples, Zenon
    <3>2. ReadInv'
      BY <2>1, Zenon DEF NewEntry, ReadInv
    <3> QED
      BY <3>1, <3>2, Zenon
  <2>2. ASSUME NEW a \in Admins, NEW d \in Domains, DeleteCert(a, d) PROVE CertsInv'
    <3>1. TypeInv' /\ StoreInv' /\ StapleInv'
      BY <2>2, AdminTypes, DeleteCertKeeps, DeleteCertStaples, Zenon
    <3>2. ReadInv'
      BY <2>2, Zenon DEF DeleteCert, ReadInv
    <3> QED
      BY <3>1, <3>2, Zenon
  <2>3. ASSUME NEW a \in Admins, NEW d \in Domains, SetDefault(a, d) PROVE CertsInv'
    <3>1. TypeInv' /\ StoreInv'
      BY <2>3, AdminTypes, SetDefaultKeeps, Zenon
    <3>2. StapleInv' /\ ReadInv'
      BY <2>3, SameStaplers, Zenon DEF SetDefault, ReadInv
    <3> QED
      BY <3>1, <3>2, Zenon
  <2>4. ASSUME NEW a \in Admins, StoreCert(a) PROVE CertsInv'
    <3>1. TypeInv' /\ StoreInv' /\ StapleInv'
      BY <2>4, AdminTypes, StoreCertKeeps, StoreCertStaples, CertAssumption, Zenon
    <3>2. ReadInv'
      BY <2>4, Zenon DEF StoreCert, ReadInv
    <3> QED
      BY <3>1, <3>2, Zenon
  <2>5. ASSUME NEW a \in Admins, AddDefault(a) PROVE CertsInv'
    <3>1. TypeInv' /\ StoreInv'
      BY <2>5, AdminTypes, AddDefaultKeeps, CertAssumption, Zenon
    <3>2. \A b \in Admins : admin'[b].e = admin[b].e
      BY <2>5, AdminMoves, Zenon DEF AddDefault
    <3>3. StapleInv' /\ ReadInv'
      BY <2>5, <3>2, SameStaplers, Zenon DEF AddDefault, ReadInv
    <3> QED
      BY <3>1, <3>3, Zenon
  <2>6. ASSUME NEW a \in Admins, Track(a) PROVE CertsInv'
    <3>1. TypeInv' /\ StoreInv' /\ StapleInv'
      BY <2>6, AdminTypes, TrackKeeps, TrackStaples, CertAssumption, Zenon
    <3>2. ReadInv'
      BY <2>6, Zenon DEF Track, ReadInv
    <3> QED
      BY <3>1, <3>2, Zenon
  <2>7. ASSUME NEW a \in Admins, ClearDefault(a) PROVE CertsInv'
    <3>1. TypeInv' /\ StoreInv'
      BY <2>7, AdminTypes, ClearDefaultKeeps, CertAssumption, Zenon
    <3>2. \A b \in Admins : admin'[b].e = admin[b].e
      BY <2>7, AdminMoves, Zenon DEF ClearDefault
    <3>3. StapleInv' /\ ReadInv'
      BY <2>7, <3>2, SameStaplers, Zenon DEF ClearDefault, ReadInv
    <3> QED
      BY <3>1, <3>3, Zenon
  <2>8. ASSUME NEW a \in Admins, PickDefault(a) PROVE CertsInv'
    <3>1. TypeInv' /\ StoreInv'
      BY <2>8, AdminTypes, PickDefaultKeeps, CertAssumption, Zenon
    <3>2. \A b \in Admins : admin'[b].e = admin[b].e
      BY <2>8, AdminEnds, ZenonT(30) DEF PickDefault, StoreInv, EntryInv
    <3>3. StapleInv' /\ ReadInv'
      BY <2>8, <3>2, SameStaplers, Zenon DEF PickDefault, ReadInv
    <3> QED
      BY <3>1, <3>3, Zenon
  <2>9. ASSUME NEW r \in Readers, NEW d \in Domains,
               LookupName(r, d) \/ LookupDefault(r) \/ Certificate(r) \/ HandshakeOver(r)
        PROVE  CertsInv'
    <3>1. /\ UNCHANGED <<store, made, dom, stapled, admin, tracking, now, done, mix>>
          /\ reader' \in [Readers -> Looks] /\ ReadInv'
      BY <2>9, ReaderEffect, Zenon
    <3>2. TypeInv'
      BY <3>1, Zenon DEF TypeInv, store, tracking
    <3>3. StoreInv' /\ StapleInv'
      BY <3>1, UntouchedKeeps, SameStaplers, Zenon DEF store
    <3> QED
      BY <3>1, <3>2, <3>3, Zenon
  <2>10. ASSUME NEW e \in Entries,
                \/ CheckCurrent(e) \/ FetchFails(e) \/ Wake(e)
                \/ \E this \in {0, now}, next \in {now + Lifetime} : Fetched(e, this, next)
         PROVE  CertsInv'
    <3>1. UNCHANGED <<store, made, dom, admin, reader, now>>
      BY <2>10, StaplerEffect, Zenon
    <3>2. StoreInv' /\ ReadInv'
      BY <3>1, UntouchedKeeps, Zenon DEF ReadInv
    <3> QED
      BY <2>10, <3>2, StaplerKeeps, Zenon
  <2>11. ASSUME Tick \/ Shutdown PROVE CertsInv'
    <3>1. TypeInv' /\ ReadInv' /\ (done => done') /\ UNCHANGED <<store, made, dom, stapled, admin, tracking>>
      BY <2>11, ClockEffect, Zenon
    <3> QED
      BY <3>1, UntouchedKeeps, SameStaplers, Zenon DEF store
  <2>12. CASE UNCHANGED vars
    <3>1. UNCHANGED <<store, made, dom, stapled, admin, tracking, now, done, mix, reader>>
      BY <2>12, Zenon DEF vars, store, tracking
    <3>2. TypeInv' /\ ReadInv'
      BY <3>1, Zenon DEF TypeInv, ReadInv, store, tracking
    <3> QED
      BY <3>1, <3>2, UntouchedKeeps, SameStaplers, Zenon DEF store
  <2> QED
    BY <2>1, <2>2, <2>3, <2>4, <2>5, <2>6, <2>7, <2>8, <2>9, <2>10, <2>11, <2>12, CertAssumption, ZenonT(60) DEF Next
<1> QED
  BY <1>1, <1>2, PTL DEF Spec

\* The map, the default and the actors keep their types.
THEOREM TypeCorrect == Spec => []TypeOK
<1>1. CertsInv => TypeOK
  BY Zenon DEF CertsInv, TypeInv, TypeOK, Ops, RunRecs
<1> QED
  BY <1>1, CertsInductive, PTL

\* Whenever AddCert, RemoveCert and SetDefault are not in a locked section, the default is
\* nil only when nothing is registered and otherwise the certificate registered now for
\* its own name: never one that was replaced or removed, however the calls interleave.
THEOREM DefaultIsCurrent == Spec => []DefaultCurrent
<1>1. CertsInv => DefaultCurrent
  BY ZenonT(30) DEF CertsInv, StoreInv, DefInv
<1> QED
  BY <1>1, CertsInductive, PTL

\* A registered certificate with a responder is being stapled (ocspStapler.run) from its
\* onAdd on, whatever fails, until the server shuts down or the certificate is replaced.
THEOREM StaplersLive == Spec => []RegisteredIsStapled
<1>1. CertsInv => RegisteredIsStapled
  <2> SUFFICES ASSUME CertsInv, NEW e \in stapled, Current(e), ~done, \A a \in Admins : admin[a].e # e
               PROVE  run[e].pc \in {"check", "fetch", "sleep"}
    BY Zenon DEF RegisteredIsStapled
  <2>1. e \in Entries /\ run[e] \in RunRecs
    BY Zenon DEF CertsInv, TypeInv
  <2>2. run[e].pc # "none" /\ run[e].pc # "gone"
    BY <2>1, Zenon DEF CertsInv, StapleInv
  <2> QED
    BY <2>1, <2>2, ZenonT(30) DEF RunRecs
<1> QED
  BY <1>1, CertsInductive, PTL

\* ocspRefreshDelay renews a staple before it ends, and liveStaple sends none that has.
THEOREM StaplesAreFresh == Spec => []StaplesFresh
<1>1. CertsInv => StaplesFresh
  BY Zenon DEF CertsInv, StapleInv, ReadInv, StaplesFresh
<1> QED
  BY <1>1, CertsInductive, PTL
================================================================================
