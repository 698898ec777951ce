----------------------------- MODULE TokenBucket -----------------------------
(***************************************************************************)
(* The bandwidth limiter of ratelimit.go: a token bucket that goroutines   *)
(* refill and spend without a lock.  Every atomic operation is a step.     *)
(* The bucket of a connection and that of the server are two instances; a  *)
(* direction without a rate has no bucket, and a bucket without a rate     *)
(* lets everything pass.                                                   *)
(***************************************************************************)
EXTENDS Integers, FiniteSets, FiniteSetsExt

CONSTANTS Users,          \* goroutines that move bytes
          Rate, Unit,     \* Rate tokens in Unit steps of the clock
          MaxTime, Mixes

VARIABLES bucket, user, now, mix

vars == <<bucket, user, now, mix>>

(* NewTokenBucket: full, and empty for ever when there is no rate. *)
Burst == IF mix.rate <= 0 THEN 0 ELSE IF mix.burst <= 0 THEN mix.rate ELSE mix.burst

NewUser == [at |-> "idle", left |-> 0, then |-> "spend", last |-> 0, now |-> 0,
            add |-> 0, cur |-> 0, spent |-> 0, over |-> FALSE]

Set(u, w) == user' = [user EXCEPT ![u] = w] /\ UNCHANGED <<now, mix>>
Quietly(u, w) == Set(u, w) /\ UNCHANGED bucket

(* Wait and WaitWithDeadline spend what exceeds the burst piece by piece. *)
Piece(w) == IF w.left > Burst THEN Burst ELSE w.left

Done(w) == [NewUser EXCEPT !.at = "done", !.spent = w.spent, !.over = w.over]

(* Allow, Wait, WaitWithDeadline: what needs no tokens is over at once, and *)
(* Allow refuses more than the bucket can hold.                            *)
Call(u) ==
    LET c == mix.calls[u]
        w == [NewUser EXCEPT !.left = c.n]
    IN  /\ u \in DOMAIN mix.calls
        /\ user[u].at = "idle"
        /\ Quietly(u, IF Burst <= 0 \/ c.n <= 0 THEN Done([w EXCEPT !.spent = c.n])
                      ELSE IF c.op = "allow" /\ c.n > Burst THEN Done(w)
                      ELSE [w EXCEPT !.at = "refill"])

(* refill: the clock and the time of the last refill. *)
Refill(u) ==
    LET w == user[u]
        add == Min({((now - bucket.last) * Rate) \div Unit, Burst})
    IN  /\ w.at = "refill"
        /\ Quietly(u, IF add <= 0 THEN [w EXCEPT !.at = w.then]
                      ELSE [w EXCEPT !.at = "claim", !.add = add,
                                     !.last = bucket.last, !.now = now])

ClaimAnyway(u) ==
    LET w == user[u]
    IN  /\ w.at = "claim"
        /\ bucket' = [bucket EXCEPT !.last = w.now]
        /\ Set(u, [w EXCEPT !.at = "add", !.last = 0, !.now = 0])

(* One goroutine claims the time that has passed, ... *)
Claim(u) ==
    LET w == user[u]
        won == bucket.last = w.last
        clean == [w EXCEPT !.last = 0, !.now = 0]
    IN  /\ w.at = "claim"
        /\ bucket' = IF won THEN [bucket EXCEPT !.last = w.now] ELSE bucket
        /\ Set(u, IF won THEN [clean EXCEPT !.at = "add"]
                  ELSE [clean EXCEPT !.at = w.then, !.add = 0])

LoadToAdd(u) ==
    /\ user[u].at = "add"
    /\ Quietly(u, [user[u] EXCEPT !.at = "added", !.cur = bucket.tokens])

(* ... and adds its tokens, up to the burst. *)
Add(u) ==
    LET w == user[u]
        full == IF w.add < Burst - w.cur THEN w.cur + w.add ELSE Burst
        won == bucket.tokens = w.cur
        clean == [w EXCEPT !.cur = 0]
    IN  /\ w.at = "added"
        /\ bucket' = IF won THEN [bucket EXCEPT !.tokens = full] ELSE bucket
        /\ Set(u, IF won THEN [clean EXCEPT !.at = w.then, !.add = 0]
                  ELSE [clean EXCEPT !.at = "add"])

(* Allow's own loop; the waits sleep and try again. *)
LoadToSpend(u) ==
    LET w == user[u]
    IN  /\ w.at = "spend"
        /\ Quietly(u, IF bucket.tokens >= Piece(w)
                      THEN [w EXCEPT !.at = "swap", !.cur = bucket.tokens]
                      ELSE IF mix.calls[u].op = "allow" THEN Done(w)
                      ELSE IF mix.calls[u].op = "until" THEN [w EXCEPT !.at = "late?"]
                      ELSE [w EXCEPT !.at = "refill", !.then = "sleep"])

SpendStale(u) ==
    LET w == user[u]
    IN  /\ w.at = "swap"
        /\ bucket' = [bucket EXCEPT !.tokens = w.cur - Piece(w)]
        /\ Set(u, Done([w EXCEPT !.spent = @ + Piece(w)]))

Spend(u) ==
    LET w == user[u]
        left == w.left - Piece(w)
        paid == [w EXCEPT !.cur = 0, !.left = left, !.spent = @ + Piece(w)]
    IN  /\ w.at = "swap"
        /\ IF bucket.tokens = w.cur
           THEN /\ bucket' = [bucket EXCEPT !.tokens = @ - Piece(w)]
                /\ Set(u, IF left = 0 THEN Done(paid) ELSE [paid EXCEPT !.at = "refill"])
           ELSE Quietly(u, [w EXCEPT !.at = "spend", !.cur = 0])

(* WaitWithDeadline looks at the clock before it sleeps. *)
Late(u) ==
    LET w == user[u]
    IN  /\ w.at = "late?"
        /\ Quietly(u, IF now > mix.calls[u].deadline THEN Done([w EXCEPT !.over = TRUE])
                      ELSE [w EXCEPT !.at = "refill", !.then = "sleep"])

(* sleepForDeficit sleeps a while, however many tokens it saw. *)
Wake(u) ==
    /\ user[u].at = "sleep"
    /\ Quietly(u, [user[u] EXCEPT !.at = "refill", !.then = "spend"])

Tick ==
    /\ now < MaxTime
    /\ now' = now + 1
    /\ UNCHANGED <<bucket, user, mix>>

Init ==
    /\ mix \in Mixes
    /\ bucket = [tokens |-> Burst, last |-> 0]
    /\ user = [u \in Users |-> NewUser]
    /\ now = 0

Next ==
    \/ \E u \in Users : \/ Call(u)
                        \/ Refill(u)
                        \/ Claim(u)
                        \/ LoadToAdd(u)
                        \/ Add(u)
                        \/ LoadToSpend(u)
                        \/ Spend(u)
                        \/ Late(u)
                        \/ Wake(u)
    \/ Tick

Spec == Init /\ [][Next]_vars

-----------------------------------------------------------------------------
(* The shape of the state; the bucket never holds more than its burst, nor *)
(* less than nothing.                                                      *)
TypeOK ==
    /\ bucket.tokens \in 0 .. Burst /\ bucket.last \in 0 .. now
    /\ \A u \in Users : user[u].left >= 0 /\ user[u].add \in 0 .. Burst

Total(f(_)) == MapThenSumSet(f, Users)

(* refill, Allow: however the goroutines interleave, no more is spent than *)
(* the burst and what the rate yields in the time that has passed.         *)
RateHolds ==
    Burst > 0 =>
        (LET spent(u) == user[u].spent
             pending(u) == IF user[u].at \in {"add", "added"} THEN user[u].add ELSE 0
         IN  Total(spent) + bucket.tokens + Total(pending) <= Burst + (Rate * bucket.last) \div Unit)

(* Wait, WaitWithDeadline: a call that is over has spent all it asked for, *)
(* unless it was refused or its deadline passed; one that gave up did so   *)
(* after its deadline.                                                     *)
AllOrNothing ==
    \A u \in DOMAIN mix.calls :
        user[u].at = "done" =>
            LET c == mix.calls[u]
            IN  /\ c.op = "wait" => user[u].spent = c.n
                /\ c.op = "allow" => user[u].spent \in {0, c.n}
                /\ c.op = "until" => (user[u].spent = c.n \/ (user[u].over /\ now > c.deadline))
=============================================================================
