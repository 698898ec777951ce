---------------------------- MODULE AcmeRenewal ----------------------------
(***************************************************************************)
(* When an ACME certificate is renewed (acme.go: runLoop, renewAll,        *)
(* renewalTime; acme_schedule.go).  One goroutine passes over the          *)
(* certificates, asks the authority for each one's renewal window (ARI),   *)
(* renews what is due, backs off what fails, and sleeps until the earliest *)
(* thing due.  The clock is in units long enough for a whole pass; the     *)
(* jitter of a delay and the text of the answers are left out.             *)
(***************************************************************************)
EXTENDS Naturals, FiniteSets, FiniteSetsExt

CONSTANTS Domains,
          Identified,    \* names whose certificate has an ARI identifier (ariCertID)
          Life,          \* how long a certificate is good for
          RenewBefore, CheckEvery, MinWake,       \* acmeRenewBefore, acmeRenewCheckEvery, acmeMinWake
          DefaultPoll, TimeoutRetry,              \* ariDefaultPoll, acmeARITimeoutRetry
          BackoffBase, BackoffMax,                \* acmeBackoffBase, acmeBackoffMax
          Cached,        \* how much of its life a certificate loaded from disk may have left
          MaxTime        \* bound on the clock

VARIABLES now,
          cert,    \* the certificate registered for each name: its number (0 for none), its
                   \* end, and whether an order to replace it has failed
          state,   \* acmeRenewalState of each name; an instant 0 is the zero time
          dir,     \* whether the authority's directory has been read, and offers ARI
          loop,    \* the goroutine: names left in this pass, the shortest wait found, or its sleep
          allowed  \* for each name the instant before which the last failure forbids an order

vars == <<now, cert, state, dir, loop, allowed>>

Least(a, b) == IF a < b THEN a ELSE b
Most(a, b) == IF a > b THEN a ELSE b
NewState(id) == [id |-> id, renewAt |-> 0, nextPoll |-> 0, failures |-> 0, retryAt |-> 0]

Init == /\ now = 1
        /\ cert \in [Domains -> {[id |-> 0, end |-> 0, failed |-> FALSE]}
                                 \union {[id |-> 1, end |-> 1 + r, failed |-> FALSE] : r \in Cached}]
        /\ state = [d \in Domains |-> NewState(0)]
        /\ dir = "unread" /\ allowed = [d \in Domains |-> 0]
        /\ loop = [todo |-> {d \in Domains : cert[d].id # 0}, wake |-> CheckEvery, until |-> 0]

(* acmeRetryDelay without its jitter: the authority's Retry-After, or the    *)
(* base doubled for every failure before this one, each up to the maximum.   *)
RetryDelay(failures, after) ==
  IF after > 0 THEN Least(after, BackoffMax) ELSE Least(BackoffBase * 2 ^ (failures - 1), BackoffMax)

(* latestRenewal *)
Latest(c) == c.end - Least(RenewBefore, Life \div 3)

(* renewalTime once the window is known: the picked instant, no later than   *)
(* the certificate's last third, or a fixed time before its end; and never   *)
(* before a failed order may be tried again.                                 *)
DueUncapped(c, s) == Most(IF s.renewAt = 0 THEN c.end - RenewBefore ELSE s.renewAt, s.retryAt)
DueAtOnce(c, s) == IF s.renewAt = 0 THEN c.end - RenewBefore ELSE Least(s.renewAt, Latest(c))
Due(c, s) == Most(IF s.renewAt = 0 THEN c.end - RenewBefore ELSE Least(s.renewAt, Latest(c)), s.retryAt)

PollDue(d, s) == dir = "ari" /\ d \in Identified /\ now >= s.nextPoll

(* What fetchRenewalWindow can say, what ariPollInterval makes of its        *)
(* Retry-After, and the instants a window is taken to offer.                 *)
Answers == {"error", "timeout", "window", "same"}
PollInterval == {MinWake}
Picks == {now, now + Life}

(* fetchRenewalWindow's answer: a window that still holds the instant picked *)
(* before keeps it, another has a new one picked.                            *)
Polled(s, answer, pick, poll) ==
  CASE answer = "none"    -> s
    [] answer = "error"   -> [s EXCEPT !.nextPoll = now + DefaultPoll]
    [] answer = "timeout" -> [s EXCEPT !.nextPoll = now + TimeoutRetry]
    [] answer = "window"  -> [s EXCEPT !.renewAt = pick, !.nextPoll = now + poll]
    [] answer = "same"    -> [s EXCEPT !.nextPoll = now + poll]

(* The state of the name, forgotten when its certificate is another one. *)
StateOf(d) == IF state[d].id # cert[d].id THEN NewState(cert[d].id) ELSE state[d]

WaitOnly(wake, wait) == wait
Shorten(wake, wait) == Least(wake, wait)

(* recordFailure and recordSuccess, with the certificate an order brings. *)
Ordered(d, s, wake, ok, after) ==
  LET n == s.failures + 1
      delay == RetryDelay(n, after)
  IN IF ok
     THEN /\ cert' = [cert EXCEPT ![d] = [id |-> (@.id % 2) + 1, end |-> now + Life, failed |-> FALSE]]
          /\ state' = [state EXCEPT ![d] = [s EXCEPT !.failures = 0, !.retryAt = 0]]
          /\ allowed' = [allowed EXCEPT ![d] = 0]
          /\ loop' = [loop EXCEPT !.todo = @ \ {d}, !.wake = wake]
     ELSE /\ cert' = [cert EXCEPT ![d].failed = TRUE]
          /\ state' = [state EXCEPT ![d] = [s EXCEPT !.failures = n, !.retryAt = now + delay]]
          /\ allowed' = [allowed EXCEPT ![d] = now + delay]
          /\ loop' = [loop EXCEPT !.todo = @ \ {d}, !.wake = Shorten(wake, delay)]

(* One certificate of renewAll's pass. *)
CheckDomain(d, answer, pick, poll, ok, after) ==
  LET s == Polled(StateOf(d), answer, pick, poll)
      wake == IF s.nextPoll = 0 THEN loop.wake
              ELSE Shorten(loop.wake, IF s.nextPoll > now THEN s.nextPoll - now ELSE 0)
      due == Due(cert[d], s)
  IN /\ d \in loop.todo
     /\ answer = "none" <=> ~PollDue(d, StateOf(d))
     /\ answer = "same" => StateOf(d).renewAt # 0
     /\ IF due > now
        THEN /\ ok /\ after = 0
             /\ state' = [state EXCEPT ![d] = s]
             /\ loop' = [loop EXCEPT !.todo = @ \ {d}, !.wake = Shorten(wake, due - now)]
             /\ UNCHANGED <<cert, allowed>>
        ELSE Ordered(d, s, wake, ok, after)
     /\ UNCHANGED <<now, dir>>

(* renewalInfoEndpoint: the directory is read once; a failure is tried again. *)
ReadDirectory(offers) ==
  /\ dir = "unread" /\ loop.todo # {} /\ dir' = IF offers THEN "ari" ELSE "none"
  /\ UNCHANGED <<now, cert, state, loop, allowed>>

EndPass ==
  /\ loop.todo = {} /\ loop.until = 0
  /\ loop' = [todo |-> {}, wake |-> 0, until |-> now + Most(loop.wake, MinWake)]
  /\ UNCHANGED <<now, cert, state, dir, allowed>>

BeginPass ==
  /\ loop.until # 0 /\ now >= loop.until
  /\ loop' = [todo |-> {d \in Domains : cert[d].id # 0}, wake |-> CheckEvery, until |-> 0]
  /\ UNCHANGED <<now, cert, state, dir, allowed>>

(* tryLoadCached for a name added while the loop sleeps, or the end of       *)
(* obtainWithRetry: the certificate is registered and nobody is woken.       *)
Register(d, left) ==
  /\ loop.until # 0 /\ cert[d].id = 0
  /\ cert' = [cert EXCEPT ![d] = [id |-> 1, end |-> now + left, failed |-> FALSE]]
  /\ UNCHANGED <<now, state, dir, loop, allowed>>

Tick == /\ loop.until > now /\ now < MaxTime /\ now' = now + 1
        /\ UNCHANGED <<cert, state, dir, loop, allowed>>

Next == \/ \E d \in Domains, ok \in BOOLEAN, after \in {0, BackoffMax} :
             \/ CheckDomain(d, "none", 0, 0, ok, after)
             \/ \E answer \in Answers, pick \in Picks, poll \in PollInterval :
                  CheckDomain(d, answer, pick, poll, ok, after)
        \/ \E offers \in BOOLEAN : ReadDirectory(offers)
        \/ EndPass \/ BeginPass \/ Tick
        \/ \E d \in Domains, left \in Cached : Register(d, left)

Spec == Init /\ [][Next]_vars

---------------------------------------------------------------------------
(* The types of the clock, the certificates and their schedule. *)
TypeOK == /\ now \in 1 .. MaxTime /\ dir \in {"unread", "none", "ari"}
          /\ loop.todo \subseteq Domains
          /\ \A d \in Domains : /\ state[d].failures \in Nat /\ state[d].retryAt <= now + BackoffMax
                                /\ cert[d].end <= now + Life

(* A certificate is replaced before it ends unless an order for it failed:   *)
(* whatever windows the authority suggests, one past the certificate's end   *)
(* included, and whichever of its answers are missing, renewAll finds the    *)
(* certificate due and is awake in time (acme.go:947-979, 999-1042).        *)
RenewedInTime == \A d \in Domains : cert[d].id # 0 => now < cert[d].end \/ cert[d].failed

(* "A failed renewal follows the same backoff rather than retrying at every  *)
(* check" (CHANGELOG.md:98): no order is made for a name before the delay    *)
(* its last failure set has passed, although the loop wakes for the windows  *)
(* and the other names meanwhile.                                            *)
AfterBackoff == \A d \in Domains : (cert'[d].failed /\ allowed'[d] # allowed[d]) \/ cert'[d].end # cert[d].end
                                     => now >= allowed[d]
BackoffHeld == [][AfterBackoff]_vars

(* "The renewal loop now wakes when the next renewal or ARI check is due     *)
(* instead of only every 6 hours" (CHANGELOG.md:72).                         *)
WakesWhenDue == loop.until > now => \A d \in Domains : cert[d].id # 0 => now <= Due(cert[d], StateOf(d))
=============================================================================
