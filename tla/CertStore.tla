----------------------------- MODULE CertStore -----------------------------
(***************************************************************************)
(* The registry of certificates a handshake is answered from               *)
(* (cert_store.go) and the background fetch of their OCSP staples          *)
(* (ocsp_stapler.go).  Additions and removals hold the store's mutex, but  *)
(* Lookup and the staplers read the map and the default without it, so     *)
(* every store to either is a step of its own.  A certificate is a number; *)
(* its bytes, its key and the cached handshake messages are left out.      *)
(***************************************************************************)
EXTENDS Naturals, FiniteSets

CONSTANTS Domains,     \* the names certificates are registered for
          Admins,      \* callers of AddCert, RemoveCert and SetDefault
          Readers,     \* handshakes
          MaxEntries,  \* bound on the certificates ever made
          Mixes,       \* the callers, the names, how many certificates, and whether they name a responder
          RetryMin, RetryMax,  \* ocspRetryMin, ocspRetryMax
          Lifetime, MaxTime    \* how long a response is good for, and a bound on the clock

ASSUME CertAssumption == /\ {RetryMin, RetryMax, Lifetime, MaxEntries, MaxTime} \subseteq Nat
                         /\ RetryMin <= RetryMax /\ 0 \notin Admins /\ Domains # {}
                         /\ \A m \in Mixes : m.entries \in 0 .. MaxEntries /\ m.staples \in BOOLEAN

VARIABLES certs,    \* cs.certs: for each name the certificate registered, 0 for none
          def,      \* cs.defEntry, 0 for nil
          mu,       \* who holds cs.mu, 0 for nobody
          made,     \* the certificates made so far are 1 .. made
          dom,      \* CertEntry.Domain
          stapled,  \* certificates whose leaf names a responder
          admin,    \* what each caller is doing
          staple,   \* entry.staple: its nextUpdate, 0 for none
          run,      \* the stapler goroutine of each certificate
          reader,   \* what each handshake is doing
          now, done, \* the clock, and whether s.done is closed
          mix       \* the mix of this behaviour

store == <<certs, def, mu>>
tracking == <<staple, run>>
vars == <<certs, def, mu, made, dom, stapled, admin, staple, run, reader, now, done, mix>>

Entries == 1 .. MaxEntries
Registered == {d \in Domains : certs[d] # 0}
Smaller(a, b) == IF a < b THEN a ELSE b
Larger(a, b) == IF a > b THEN a ELSE b

NoOp == [pc |-> "idle", e |-> 0]
NoRun == [pc |-> "none", until |-> 0, retry |-> RetryMin, ok |-> FALSE]
Gone == [NoRun EXCEPT !.pc = "gone"]
NoLook == [pc |-> "idle", got |-> 0, sent |-> 0]

Init == /\ certs = [d \in Domains |-> 0] /\ def = 0 /\ mu = 0 /\ made = 0
        /\ dom = [e \in Entries |-> CHOOSE d \in Domains : TRUE] /\ stapled = {}
        /\ admin = [a \in Admins |-> NoOp]
        /\ staple = [e \in Entries |-> 0] /\ run = [e \in Entries |-> NoRun]
        /\ reader = [r \in Readers |-> NoLook] /\ now = 0 /\ done = FALSE
        /\ mix \in Mixes

---------------------------------------------------------------------------
(* AddCert: the name's entry is replaced, then the default if there is none  *)
(* or it is an earlier certificate of the name, and after the unlock onAdd.  *)

(* Server.AddCert and its kin make the entry before they lock anything; one  *)
(* whose key does not match changes nothing and is not modelled further.     *)
NewEntry(a, d, s) ==
  /\ admin[a].pc = "idle" /\ made < mix.entries /\ s = mix.staples
  /\ a \in mix.admins /\ d \in mix.domains
  /\ made' = made + 1 /\ dom' = [dom EXCEPT ![made + 1] = d]
  /\ stapled' = IF s THEN stapled \union {made + 1} ELSE stapled
  /\ admin' = [admin EXCEPT ![a] = [pc |-> "made", e |-> made + 1]]
  /\ UNCHANGED <<store, tracking, reader, now, done, mix>>

StoreCert(a) ==
  /\ admin[a].pc = "made" /\ mu = 0
  /\ mu' = a /\ certs' = [certs EXCEPT ![dom[admin[a].e]] = admin[a].e]
  /\ admin' = [admin EXCEPT ![a].pc = "added"]
  /\ UNCHANGED <<def, made, dom, stapled, tracking, reader, now, done, mix>>

TakesDefaultIfNone(e) == def = 0
TakesDefault(e) == def = 0 \/ dom[def] = dom[e]

AddDefault(a) ==
  /\ admin[a].pc = "added"
  /\ def' = IF TakesDefault(admin[a].e) THEN admin[a].e ELSE def
  /\ mu' = 0
  /\ admin' = [admin EXCEPT ![a].pc = "onAdd"]
  /\ UNCHANGED <<certs, made, dom, stapled, tracking, reader, now, done, mix>>

(* track: a goroutine for a certificate with a responder and an issuer. *)
Track(a) ==
  /\ admin[a].pc = "onAdd"
  /\ run' = IF admin[a].e \in stapled THEN [run EXCEPT ![admin[a].e].pc = "check"] ELSE run
  /\ admin' = [admin EXCEPT ![a] = NoOp]
  /\ UNCHANGED <<store, made, dom, stapled, staple, reader, now, done, mix>>

(* RemoveCert: when the default goes, any certificate left takes its place. *)
DeleteCert(a, d) ==
  /\ admin[a].pc = "idle" /\ mu = 0 /\ certs[d] # 0 /\ a \in mix.admins
  /\ certs' = [certs EXCEPT ![d] = 0]
  /\ IF def # 0 /\ dom[def] = d
     THEN mu' = a /\ admin' = [admin EXCEPT ![a].pc = "removed"]
     ELSE UNCHANGED <<mu, admin>>
  /\ UNCHANGED <<def, made, dom, stapled, tracking, reader, now, done, mix>>

ClearDefault(a) ==
  /\ admin[a].pc = "removed"
  /\ def' = 0 /\ admin' = [admin EXCEPT ![a].pc = "pick"]
  /\ UNCHANGED <<certs, mu, made, dom, stapled, tracking, reader, now, done, mix>>

PickNothing(a) ==
  /\ admin[a].pc = "pick" /\ mu' = 0 /\ admin' = [admin EXCEPT ![a] = NoOp]
  /\ UNCHANGED <<certs, def, made, dom, stapled, tracking, reader, now, done, mix>>

PickDefault(a) ==
  /\ admin[a].pc = "pick"
  /\ IF Registered = {} THEN UNCHANGED def ELSE \E d \in Registered : def' = certs[d]
  /\ mu' = 0 /\ admin' = [admin EXCEPT ![a] = NoOp]
  /\ UNCHANGED <<certs, made, dom, stapled, tracking, reader, now, done, mix>>

SetDefault(a, d) ==
  /\ admin[a].pc = "idle" /\ mu = 0 /\ certs[d] # 0 /\ a \in mix.admins
  /\ def' = certs[d]
  /\ UNCHANGED <<certs, mu, made, dom, stapled, admin, tracking, reader, now, done, mix>>

---------------------------------------------------------------------------
(* Lookup: the map, then the default, without the mutex; the handshake then  *)
(* takes the certificate's staple if it has not expired.                     *)

LookupName(r, d) ==
  /\ reader[r].pc = "idle"
  /\ reader' = [reader EXCEPT ![r] = [pc |-> IF certs[d] = 0 THEN "default" ELSE "found",
                                      got |-> certs[d], sent |-> 0]]
  /\ UNCHANGED <<store, made, dom, stapled, admin, tracking, now, done, mix>>

LookupDefault(r) ==
  /\ reader[r].pc = "default"
  /\ reader' = [reader EXCEPT ![r].got = def, ![r].pc = IF def = 0 THEN "refused" ELSE "found"]
  /\ UNCHANGED <<store, made, dom, stapled, admin, tracking, now, done, mix>>

AnyStaple(e) == staple[e]

LiveStaple(e) == IF now < staple[e] THEN staple[e] ELSE 0
Certificate(r) ==
  /\ reader[r].pc = "found"
  /\ reader' = [reader EXCEPT ![r].pc = "sent", ![r].sent = LiveStaple(reader[r].got)]
  /\ UNCHANGED <<store, made, dom, stapled, admin, tracking, now, done, mix>>

HandshakeOver(r) ==
  /\ reader[r].pc \in {"sent", "refused"}
  /\ reader' = [reader EXCEPT ![r] = NoLook]
  /\ UNCHANGED <<store, made, dom, stapled, admin, tracking, now, done, mix>>

---------------------------------------------------------------------------
(* ocspStapler.run, one goroutine for each certificate tracked. *)

Current(e) == certs[dom[e]] = e

CheckCurrent(e) ==
  /\ run[e].pc = "check"
  /\ run' = [run EXCEPT ![e] = IF Current(e) THEN [@ EXCEPT !.pc = "fetch"] ELSE Gone]
  /\ UNCHANGED <<store, made, dom, stapled, admin, staple, reader, now, done, mix>>

(* ocspRefreshDelay, from the instant the response was made to its end. *)
RefreshAtEnd(this, next) == Larger(next - now, RetryMin)

RefreshDelay(this, next) == Larger((this + (next - this) \div 2) - now, RetryMin)
(* validateOCSPStaple: a response is used only while it is in force. *)
Fetched(e, this, next) ==
  /\ run[e].pc = "fetch" /\ this <= now /\ now + RetryMin < next
  /\ staple' = [staple EXCEPT ![e] = next]
  /\ run' = [run EXCEPT ![e] = [pc |-> "sleep", until |-> now + RefreshDelay(this, next),
                                retry |-> RetryMin, ok |-> TRUE]]
  /\ UNCHANGED <<store, made, dom, stapled, admin, reader, now, done, mix>>

FetchFailsForGood(e) ==
  /\ run[e].pc = "fetch" /\ run' = [run EXCEPT ![e] = Gone]
  /\ UNCHANGED <<store, made, dom, stapled, admin, staple, reader, now, done, mix>>

FetchFails(e) ==
  /\ run[e].pc = "fetch"
  /\ run' = [run EXCEPT ![e] = [pc |-> "sleep", until |-> now + run[e].retry,
                                retry |-> Smaller(2 * run[e].retry, RetryMax), ok |-> FALSE]]
  /\ UNCHANGED <<store, made, dom, stapled, admin, staple, reader, now, done, mix>>

Wake(e) ==
  /\ run[e].pc = "sleep"
  /\ \/ now >= run[e].until /\ run' = [run EXCEPT ![e].pc = "check"]
     \/ done /\ run' = [run EXCEPT ![e] = Gone]
  /\ UNCHANGED <<store, made, dom, stapled, admin, staple, reader, now, done, mix>>

(* The clock; a timer that has fired is served before it moves on. *)
Tick == /\ mix.staples /\ now < MaxTime /\ \A e \in Entries : ~(run[e].pc = "sleep" /\ run[e].until <= now)
        /\ now' = now + 1
        /\ reader' = [r \in Readers |-> IF reader[r].pc = "sent" THEN NoLook ELSE reader[r]]
        /\ UNCHANGED <<store, made, dom, stapled, admin, tracking, done, mix>>

Shutdown == /\ mix.staples /\ ~done /\ done' = TRUE
            /\ UNCHANGED <<store, made, dom, stapled, admin, tracking, reader, now, mix>>

Next == \/ \E a \in Admins, d \in Domains, s \in BOOLEAN : NewEntry(a, d, s)
        \/ \E a \in Admins, d \in Domains : DeleteCert(a, d) \/ SetDefault(a, d)
        \/ \E a \in Admins : StoreCert(a) \/ AddDefault(a) \/ Track(a) \/ ClearDefault(a) \/ PickDefault(a)
        \/ \E r \in Readers, d \in Domains : LookupName(r, d)
        \/ \E r \in Readers : LookupDefault(r) \/ Certificate(r) \/ HandshakeOver(r)
        \/ \E e \in Entries : CheckCurrent(e) \/ FetchFails(e) \/ Wake(e)
        \/ \E e \in Entries, this \in {0, now}, next \in {now + Lifetime} : Fetched(e, this, next)
        \/ Tick \/ Shutdown

Spec == Init /\ [][Next]_vars

---------------------------------------------------------------------------
(* Every variable has its type: the map, the default and the actors. *)
TypeOK == /\ certs \in [Domains -> 0 .. MaxEntries] /\ def \in 0 .. MaxEntries
          /\ mu \in Admins \union {0} /\ made \in 0 .. MaxEntries
          /\ dom \in [Entries -> Domains] /\ stapled \subseteq Entries
          /\ admin \in [Admins -> [pc : {"idle", "made", "added", "onAdd", "removed", "pick"}, e : 0 .. MaxEntries]]
          /\ \A e \in Entries : /\ run[e].pc \in {"none", "check", "fetch", "sleep", "gone"}
                                /\ run[e].retry \in RetryMin .. Larger(RetryMin, RetryMax)

(* The default certificate is never a stale one: outside the locked steps of *)
(* AddCert and RemoveCert (cert_store.go:192-223) it is nil exactly when     *)
(* nothing is registered, and otherwise it is the certificate registered     *)
(* now for its own name, never one that was replaced or removed.             *)
DefaultCurrent ==
  mu = 0 => /\ def = 0 <=> Registered = {}
            /\ def # 0 => certs[dom[def]] = def

(* A certificate that is registered and names a responder is being stapled:  *)
(* from its onAdd on, whatever fails, its goroutine (ocspStapler.run) is     *)
(* alive until the server shuts down or the certificate is replaced.         *)
RegisteredIsStapled ==
  \A e \in stapled : Current(e) /\ ~done /\ (\A a \in Admins : admin[a].e # e)
                       => run[e].pc \in {"check", "fetch", "sleep"}

(* What ocspRefreshDelay waits after a good response ends before the staple  *)
(* does, so an obedient responder never leaves a certificate without one;    *)
(* and no handshake sends a staple past its nextUpdate (liveStaple).         *)
StaplesFresh ==
  /\ \A e \in Entries : run[e].pc = "sleep" /\ run[e].ok => run[e].until < staple[e]
  /\ \A r \in Readers : reader[r].pc = "sent" /\ reader[r].sent # 0 => now < reader[r].sent
=============================================================================
