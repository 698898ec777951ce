------------------------------ MODULE RateLimit ------------------------------
(***************************************************************************)
(* The request limiter: rlCounter with its one word of state, the map of   *)
(* clients, the goroutine that retires idle entries, the rules             *)
(* (ratelimit_engine.go), the route middleware that shares the counter     *)
(* (ratelimit_middleware.go), and the two places that charge a request:    *)
(* the loop, for a proxied one, and the handler (server.go,                *)
(* epoll_proxy_exchange).  Every load, store and compare-and-swap is a     *)
(* step.                                                                   *)
(***************************************************************************)
EXTENDS Integers, FiniteSets, FiniteSetsExt, Sequences, SequencesExt

CONSTANTS Reqs,        \* requests
          Admins,      \* concurrent callers of AddRule and RemoveRule
          Rules,       \* rule identities; a rule is known by its path
          Specificity, \* [Rules -> Nat]
          Covers,      \* [Rules -> SUBSET paths]: what the pattern matches
          Entries,     \* 1 .. n, allocated in order
          Window, Grace, EpochMod, MaxTime,
          Mixes

VARIABLES t, mix

vars == <<t, mix>>

None == 0
Become(u) == t' = u /\ UNCHANGED mix

(* rlCounter.state: a window's count, the end of a block, or retired. *)
Count(e, n) == [kind |-> "count", e |-> e, n |-> n]
BlockedTill(u) == [kind |-> "blocked", e |-> u, n |-> 0]
Retired == [kind |-> "retired", e |-> 0, n |-> 0]

EpochOf(now) == (now \div Window) % EpochMod

NewEntry(reset) == [state |-> Count(0, 0), reset |-> reset]

NewRequest == [at |-> "idle", now |-> 0, rule |-> None, entry |-> None,
               cur |-> Retired, charges |-> 0, answers |-> 0, carried |-> FALSE]

(* KeyFunc, or the client's address: an IPv6 client is known by its /64. *)
KeyOf(r) == mix.client[r]
Block == IF mix.block <= 0 THEN Window ELSE mix.block

-----------------------------------------------------------------------------
(* Rules. *)

Matching(rules, path) == {i \in DOMAIN rules : path \in Covers[rules[i]]}

(* matchRule: the most specific of the matching rules, the first of equals. *)
MatchRule(rules, path) ==
    LET m == Matching(rules, path)
        best == {i \in m : \A j \in m : Specificity[rules[j]] <= Specificity[rules[i]]}
    IN  IF m = {} THEN None ELSE rules[Min(best)]

Without(rules, x) == SelectSeq(rules, LAMBDA y : y # x)

(* AddRule, RemoveRule: the rules are loaded, ... *)
LoadRules(a) ==
    /\ a \in DOMAIN mix.calls
    /\ t.admin[a].at = "idle"
    /\ Become([t EXCEPT !.admin[a] = [at |-> "store", old |-> t.rules]])

(* ... copied with the change, and stored. *)
StoreRules(a) ==
    LET c == mix.calls[a]
        kept == Without(t.admin[a].old, c.rule)
    IN  /\ t.admin[a].at = "store"
        /\ Become([t EXCEPT !.rules = IF c.op = "add" THEN Append(kept, c.rule) ELSE kept,
                            !.admin[a].at = "done"])

-----------------------------------------------------------------------------
(* Check. *)

(* The clock is read before the entry is looked up. *)
Check(u, r) ==
    LET rule == IF mix.engine THEN MatchRule(u.rules, mix.path[r]) ELSE Min(Rules)
    IN  IF rule = None THEN [u EXCEPT !.req[r].at = "admitted"]
        ELSE [u EXCEPT !.req[r].at = "load", !.req[r].rule = rule, !.req[r].now = u.now]

(* A proxied request is charged on the loop unless request hooks are set;  *)
(* any other by its handler.  Requests are numbered in the order they come. *)
Begin(r) ==
    /\ r \in DOMAIN mix.client
    /\ t.req[r].at = "idle"
    /\ \A s \in DOMAIN mix.client : s < r => t.req[s].at # "idle"
    /\ Become(Check(t, r))

Key(u, r) == <<KeyOf(r), u.req[r].rule>>
Mapped(u, k) == IF k \in DOMAIN u.map THEN u.map[k] ELSE None
Bind(u, k, e) == [u EXCEPT !.map = [x \in DOMAIN u.map \union {k} |->
                                        IF x = k THEN e ELSE u.map[x]]]
Unbind(u, k, e) ==
    IF Mapped(u, k) # e THEN u
    ELSE [u EXCEPT !.map = [x \in DOMAIN u.map \ {k} |-> u.map[x]]]

(* clients.Load *)
LoadClient(r) ==
    LET e == Mapped(t, Key(t, r))
    IN  /\ t.req[r].at = "load"
        /\ Become([t EXCEPT !.req[r].entry = e,
                            !.req[r].at = IF e = None THEN "store" ELSE "admit"])

(* storeClient: LoadOrStore of a new entry; the middleware's starts with   *)
(* no reset time.                                                          *)
StoreClient(r) ==
    LET e == Mapped(t, Key(t, r))
        n == t.made + 1
        reset == IF mix.engine THEN t.req[r].now + Window ELSE 0
    IN  /\ t.req[r].at = "store"
        /\ \/ e # None /\ Become([t EXCEPT !.req[r].entry = e, !.req[r].at = "admit"])
           \/ /\ e = None /\ n \in Entries
              /\ Become([Bind(t, Key(t, r), n) EXCEPT
                            !.made = n, !.ent[n] = NewEntry(reset),
                            !.req[r].entry = n, !.req[r].at = "admit"])

Counted(cur, epoch) == IF cur.kind = "count" /\ cur.e = epoch THEN cur.n + 1 ELSE 1

BlockingPastEnd(cur, now) == cur.kind = "blocked" /\ now < cur.e - 1

Blocking(cur, now) == cur.kind = "blocked" /\ now < cur.e

Leave(u, r) == [u EXCEPT !.req[r].entry = None, !.req[r].cur = Retired]

(* A refused request is answered; one refused on the loop whose rule has a *)
(* hook is carried to a handler, which runs the hook.                      *)
Refuse(u, r) ==
    LET v == Leave(u, r)
    IN  IF r \in mix.loop /\ mix.hook
        THEN [v EXCEPT !.req[r].at = "dispatched", !.req[r].carried = TRUE]
        ELSE [v EXCEPT !.req[r].at = "refused", !.req[r].answers = @ + 1]

(* admit: the word is loaded and judged. *)
Admit(r) ==
    LET q == t.req[r]
        cur == t.ent[q.entry].state
        n == Counted(cur, EpochOf(q.now))
    IN  /\ q.at = "admit"
        /\ Become(CASE cur = Retired -> [t EXCEPT !.req[r].at = "retired"]
                    [] Blocking(cur, q.now) -> Refuse(t, r)
                    [] cur # Retired /\ ~Blocking(cur, q.now) ->
                        [t EXCEPT !.req[r].cur = cur,
                                  !.req[r].at = IF n > mix.max THEN "block"
                                                ELSE IF n = 1 THEN "reset" ELSE "count"])

StoreReset(r) ==
    LET q == t.req[r]
    IN  /\ q.at = "reset"
        /\ Become([t EXCEPT !.ent[q.entry].reset = q.now + Window, !.req[r].at = "count"])

SwapBlindly(u, r, new, won) == [won EXCEPT !.ent[u.req[r].entry].state = new]

(* A failed compare-and-swap goes round again. *)
Swap(u, r, new, won) ==
    LET q == u.req[r]
    IN  IF u.ent[q.entry].state = q.cur THEN [won EXCEPT !.ent[q.entry].state = new]
        ELSE [u EXCEPT !.req[r].at = "admit", !.req[r].cur = Retired]

BlockClient(r) ==
    LET q == t.req[r]
        u == Refuse(t, r)
        until == q.now + Block
    IN  /\ q.at = "block"
        /\ Become(Swap(t, r, BlockedTill(until),
                       [u EXCEPT !.blocks = @ \union {<<Key(t, r), until>>},
                                 !.req[r].charges = @ + 1]))

CountRequest(r) ==
    LET q == t.req[r]
        n == Counted(q.cur, EpochOf(q.now))
    IN  /\ q.at = "count"
        /\ Become(Swap(t, r, Count(EpochOf(q.now), n),
                       [Leave(t, r) EXCEPT !.req[r].at = "admitted", !.req[r].charges = @ + 1,
                                 !.late = IF q.now \div Window # t.now \div Window
                                          THEN @ + 1 ELSE @]))

(* A retired entry is unlinked, if it is still the one in the map. *)
DropRetired(r) ==
    /\ t.req[r].at = "retired"
    /\ Become([Unbind(t, Key(t, r), t.req[r].entry) EXCEPT !.req[r].at = "store"])

AnswerAfresh(u, r) == Check([u EXCEPT !.req[r].carried = FALSE], r)

(* The handler of a request the loop refused: takeLoopRateLimitRefusal. *)
Answer(u, r) ==
    IF u.req[r].carried
    THEN [u EXCEPT !.req[r].carried = FALSE, !.req[r].at = "refused", !.req[r].answers = @ + 1]
    ELSE Check(u, r)

HandleDispatched(r) == t.req[r].at = "dispatched" /\ Become(Answer(t, r))

-----------------------------------------------------------------------------
(* retireIdleRateLimitEntries: the clock is read once for the walk, and the *)
(* ticker's period is longer than the clock's step.                        *)

CleanStart ==
    /\ "clean" \in mix.may
    /\ t.clean.at = "idle"
    /\ DOMAIN t.map # {} /\ t.clean.now < t.now
    /\ Become([t EXCEPT !.clean = [at |-> "load", now |-> t.now, cur |-> Retired,
                                   todo |-> SetToSeq(DOMAIN t.map), entry |-> None]])

NextKey(u) ==
    [u EXCEPT !.clean.todo = Tail(@), !.clean.cur = Retired, !.clean.entry = None,
              !.clean.at = IF Len(u.clean.todo) = 1 THEN "idle" ELSE "load"]

(* retireIfIdle: load the word, ... *)
CleanLoad ==
    LET k == Head(t.clean.todo)
        e == Mapped(t, k)
        cur == t.ent[e].state
    IN  /\ t.clean.at = "load"
        /\ Become(IF e = None THEN NextKey(t)
                  ELSE IF cur = Retired
                  THEN [t EXCEPT !.clean.at = "unlink", !.clean.entry = e]
                  ELSE IF cur.kind = "blocked" /\ t.clean.now <= cur.e THEN NextKey(t)
                  ELSE [t EXCEPT !.clean.at = "idle?", !.clean.entry = e, !.clean.cur = cur])

IdleAlways(u, e) == TRUE

(* ... the reset time, ... *)
IdleLongEnough(u, e) ==
    u.clean.now > u.ent[e].reset + (IF mix.engine THEN Grace ELSE 0)

(* ... and swap. *)
CleanRetire ==
    LET c == t.clean
    IN  /\ c.at = "idle?"
        /\ Become(IF IdleLongEnough(t, c.entry)
                  THEN [t EXCEPT !.clean.at = "swap"] ELSE NextKey(t))

RetireBlindly(u, c) == [u EXCEPT !.ent[c.entry].state = Retired, !.clean.at = "unlink"]

SwapRetired(u, c) ==
    IF u.ent[c.entry].state = c.cur
    THEN [u EXCEPT !.ent[c.entry].state = Retired, !.clean.at = "unlink"] ELSE NextKey(u)

CleanSwap == t.clean.at = "swap" /\ Become(SwapRetired(t, t.clean))

CleanUnlink ==
    /\ t.clean.at = "unlink"
    /\ Become(NextKey(Unbind(t, Head(t.clean.todo), t.clean.entry)))

Tick ==
    /\ t.now < mix.end
    /\ Become([t EXCEPT !.now = @ + 1])

Init ==
    /\ mix \in Mixes
    /\ t = [now |-> mix.start, rules |-> mix.rules, map |-> <<>>, made |-> 0,
            ent |-> [e \in Entries \union {None} |-> NewEntry(0)],
            req |-> [r \in Reqs |-> NewRequest],
            admin |-> [a \in Admins |-> [at |-> "idle", old |-> <<>>]],
            clean |-> [at |-> "idle", now |-> 0, cur |-> Retired, todo |-> <<>>, entry |-> None],
            blocks |-> {}, late |-> 0]

Next ==
    \/ \E r \in Reqs : \/ Begin(r)
                       \/ LoadClient(r)
                       \/ StoreClient(r)
                       \/ Admit(r)
                       \/ StoreReset(r)
                       \/ BlockClient(r)
                       \/ CountRequest(r)
                       \/ DropRetired(r)
                       \/ HandleDispatched(r)
    \/ \E a \in Admins : LoadRules(a) \/ StoreRules(a)
    \/ CleanStart
    \/ CleanLoad
    \/ CleanRetire
    \/ CleanSwap
    \/ CleanUnlink
    \/ Tick

Spec == Init /\ [][Next]_vars

-----------------------------------------------------------------------------
(* The shape of the limiter's state; an entry counts what its rule allows  *)
(* and no more.                                                            *)
TypeOK ==
    /\ t.now \in 0 .. MaxTime
    /\ \A e \in Entries : t.ent[e].state.n <= mix.max
    /\ \A k \in DOMAIN t.map : t.map[k] \in 1 .. t.made

Admitted(k, w) ==
    Cardinality({r \in DOMAIN mix.client :
        /\ t.req[r].at = "admitted" /\ t.req[r].rule # None
        /\ Key(t, r) = k /\ t.req[r].now \div Window = w})

Keys == {Key(t, r) : r \in DOMAIN mix.client}

(* rlCounter.admit, retireIfIdle: whatever interleaves, a client gets      *)
(* MaxReqs requests per window, again after each of its blocks that ended  *)
(* inside the window, and again for each request that read the clock in    *)
(* one window and was counted in the next.                                 *)
QuotaHolds ==
    \A k \in Keys, w \in 0 .. MaxTime \div Window :
        LET ended == {b \in t.blocks : b[1] = k /\ b[2] \div Window = w}
        IN  Admitted(k, w) <= mix.max * (1 + Cardinality(ended) + t.late)

(* RateLimitRule.MaxReqs: a client that is blocked for a window or longer  *)
(* gets no more than MaxReqs requests in one.                              *)
MaxReqsPerWindow ==
    Block >= Window => \A k \in Keys, w \in 0 .. MaxTime \div Window : Admitted(k, w) <= mix.max

(* admit: a block stands until its end, although the sweep and requests    *)
(* with an older clock work on the same entry.                             *)
StandsUntilItsEnd ==
    \A r \in Reqs :
        t.req[r].at = "count" /\ t'.req[r].at = "admitted" =>
            \A b \in t.blocks : b[1] = Key(t, r) => t.now >= b[2]
BlockStands == [][StandsUntilItsEnd]_vars

(* takeLoopRateLimitRefusal: a request is charged to a counter at most     *)
(* once and a refused one answered once, although loop and handler both    *)
(* check.                                                                  *)
ChargedOnce ==
    \A r \in Reqs :
        /\ t.req[r].charges <= 1 /\ t.req[r].answers <= 1
        /\ t.req[r].at = "refused" => t.req[r].answers = 1

(* AddRule: a rule that was added, and that nobody removed, is in force.   *)
AddedRuleInForce ==
    \A a \in DOMAIN mix.calls :
        t.admin[a].at = "done" /\ mix.calls[a].op = "add"
            /\ (\A c \in DOMAIN mix.calls : mix.calls[c].op = "remove" =>
                    mix.calls[c].rule # mix.calls[a].rule)
          => mix.calls[a].rule \in Range(t.rules)
=============================================================================
