------------------------------- MODULE TlsServer -------------------------------
(* The TLS server of the epoll backend: runTLSPhases and the phases it loops     *)
(* over, for TLS 1.2 and 1.3, with HelloRetryRequest, session tickets, client     *)
(* certificates, key updates and alerts.  One client connects several times,      *)
(* keeps the tickets it is given and may send any record at any time; it cannot   *)
(* sign for a certificate whose key it does not have.                             *)
(*                                                                               *)
(* A handshake message is two units long, so that a record may end inside one.    *)
EXTENDS Integers, Sequences, SequencesExt

CONSTANTS
    PolicyOf,       \* clientAuthFor: the mode and the roots of each host
    Trusts,         \* the chains that each set of roots verifies
    Owned,          \* the chains whose key the client has
    Chains,         \* the chains it may present; "empty" is an empty Certificate
    MaxUseless,     \* tlsMaxUselessRecords
    MaxParts,       \* tlsMaxClientHelloRecords
    KeyLimit,       \* tls13RecordsPerKeyLimit
    MaxOut,         \* a bound on the records the server writes on a connection
    MaxConns,       \* a bound on the connections the client makes
    Mixes           \* what the client does in a behaviour

VARIABLES
    s,      \* the connection, and the tickets issued so far
    mix

vars == <<s, mix>>

Hosts == DOMAIN PolicyOf
May(event) == event \in mix.may

\* A fresh connection; expired holds the chains whose leaf is past NotAfter.
Fresh(tickets, conns, expired) ==
    [phase |-> "hello", host |-> "", ver |-> 0, retry |-> FALSE, parts |-> 0, alpn |-> "",
     ems |-> FALSE, stage |-> "", pending |-> <<>>, chain |-> "empty", issue |-> FALSE, resumed |-> FALSE,
     reader |-> FALSE, expectCert |-> FALSE, expectCV |-> FALSE, gotCCS |-> FALSE, ccsSent |-> FALSE,
     peer |-> "empty", useless |-> 0, g |-> 0, n |-> 0, alert |-> FALSE, end |-> "open",
     got |-> FALSE, app |-> FALSE, left |-> <<>>, peerClosed |-> FALSE,
     served |-> {}, said |-> <<>>, out |-> <<>>,
     tickets |-> tickets, conns |-> conns, expired |-> expired]

Init == mix \in Mixes /\ s = Fresh({}, 1, {})

Become(t) == s' = t /\ UNCHANGED mix

--------------------------------------------------------------------------------
(* clientAuthPolicy.                                                            *)

Requests(p) == p.mode # "none"
Requires(p) == p.mode \in {"requireAny", "requireVerify"}
Verifies(p) == p.mode \in {"verifyIfGiven", "requireVerify"}

\* Mutant: a chain is only verified by the modes that require one.
CheckRequired(t, p, chain) ==
    IF chain = "empty" THEN ~Requires(p)
    ELSE chain # "garbled" /\ (p.mode = "requireVerify" => chain \in Trusts[p.roots] \ t.expired)

\* checkChain: an empty chain unless one is required; Verify against the roots.
CheckChain(t, p, chain) ==
    IF chain = "empty" THEN ~Requires(p)
    ELSE chain # "garbled" /\ (Verifies(p) => chain \in Trusts[p.roots] \ t.expired)

\* Mutant: the identity of a ticket is taken as it is.
IdentityUnchecked(t, p, chain) == TRUE

\* resumedIdentity: the chain a ticket holds, under the policy of now.
ResumedIdentity(t, p, chain) ==
    IF chain = "empty" THEN ~Requires(p)
    ELSE Requests(p) /\ CheckChain(t, p, chain) /\ chain \notin t.expired

--------------------------------------------------------------------------------
(* Writing.  A record is what it holds, and the key and number it is sealed with. *)

Plain(t, what) == [t EXCEPT !.out = Append(@, [what |-> what, key |-> "plain", g |-> 0, n |-> 0])]

\* appWriter, or tls12.writer: the next number of the key.
Seal(t, what) ==
    [t EXCEPT !.out = Append(@, [what |-> what, key |-> IF t.ver = 12 THEN "write12" ELSE "app",
                                 g |-> t.g, n |-> t.n]),
              !.n = @ + 1]

\* Mutant: the next key is installed before the record that announces it.
KeyUpdateLate(t) == Seal([t EXCEPT !.g = @ + 1, !.n = 0], "keyUpdate")

\* appendKeyUpdateRecord: sealed with the old key, then the next generation.
KeyUpdate(t) == [Seal(t, "keyUpdate") EXCEPT !.g = @ + 1, !.n = 0]

\* Mutant: no key wears out.
SealForever(t) == Seal(t, "data")

\* sealTLSAppData: a worn TLS 1.3 key is renewed first.
SealAppData(t) == Seal(IF t.ver = 13 /\ t.n >= KeyLimit THEN KeyUpdate(t) ELSE t, "data")

\* Mutant: plaintext as long as the handshake lasts.
PlaintextThroughout(t) == t.phase \in {"hello", "finished", "finish12"}

\* serverWritesPlaintext.
WritesPlaintext(t) == t.phase = "hello" \/ (t.phase = "finish12" /\ ~t.ccsSent)

\* failTLS: a fatal alert, and the connection closes after the flush.
Fail(t) == [(IF WritesPlaintext(t) THEN Plain(t, "alert") ELSE Seal(t, "alert"))
                EXCEPT !.alert = TRUE, !.end = "failed"]

\* epollActionCloseAfterFlush without an alert.
Quiet(t) == [t EXCEPT !.end = "closed"]

\* Mutant: the count is not compared.
SkipAny(t) == [t EXCEPT !.useless = @ + 1]

\* skipUselessRecord.
SkipUseless(t) == IF t.useless = MaxUseless THEN Fail(t) ELSE [t EXCEPT !.useless = @ + 1]

\* appendSessionTicketMessage, tls12NewSessionTicket: the ticket and its identity.
Issue(t) ==
    [t EXCEPT !.tickets = @ \cup {[ver |-> t.ver, host |-> t.host, chain |-> t.chain, ems |-> t.ems]},
              !.issue = FALSE]

\* sendSessionTicket.
SendTicket(t) == IF t.issue THEN Seal(Issue(t), "ticket") ELSE t

\* Mutant: Finished before ChangeCipherSpec.
FinishFirst12(t) ==
    LET told == IF t.issue THEN Issue(Plain(t, "ticket")) ELSE t
    IN  [Plain(Seal(told, "finished"), "ccs") EXCEPT !.ccsSent = TRUE]

\* appendTLS12ServerFinish: the ticket in plaintext, ChangeCipherSpec, Finished.
ServerFinish12(t) ==
    LET told == IF t.issue THEN Issue(Plain(t, "ticket")) ELSE t
    IN  Seal([Plain(told, "ccs") EXCEPT !.ccsSent = TRUE], "finished")

--------------------------------------------------------------------------------
(* ClientHello.  h: the version, host and ALPN it leads to; bad: it does not      *)
(* parse, or shares no version, protocol, certificate, suite or group with the    *)
(* server; share: whether its key shares suffice, now or after a retry; same: a    *)
(* second hello repeats the first; dhe: psk_dhe_ke, or the session_ticket          *)
(* extension, is offered; ems; psk: the tickets it offers; binder: it is right.    *)

\* sendHelloRetry.
HelloRetry(t) == Plain(Plain([t EXCEPT !.retry = TRUE, !.parts = 0], "retry"), "ccs")

\* tickets.open: a ticket of this version and for this name.
Opens(h, ver) == {k \in h.psk : k.ver = ver /\ k.host = h.host}

\* What the hello settles, and the identity of the ticket it resumes, if it does.
Settled(t, h, resumed) ==
    LET chain == IF resumed = {} THEN "empty" ELSE (CHOOSE k \in resumed : TRUE).chain
    IN  [t EXCEPT !.ver = h.ver, !.host = h.host, !.alpn = h.alpn, !.ems = h.ems, !.issue = h.dhe,
                  !.resumed = resumed # {}, !.chain = chain, !.retry = FALSE, !.parts = 0]

\* The flight of epollTLSClientHello, and a ticket at once unless a client
\* certificate is asked for.
Flight13(t, h, resumed) ==
    LET ask == Requests(PolicyOf[h.host]) /\ resumed = {}
        hello == Plain(Settled(t, h, resumed), "hello13")
        flight == Append((IF t.retry THEN hello ELSE Plain(hello, "ccs")).out,
                         [what |-> "flight", key |-> "handshake", g |-> 0, n |-> 0])
        set == [hello EXCEPT !.out = flight, !.phase = "finished", !.peer = hello.chain,
                             !.stage = IF ask THEN "certificate" ELSE ""]
    IN  IF ask THEN set ELSE SendTicket(set)

\* negotiateTLS13, acceptResumption.
Hello13(t, h) ==
    LET resumed == {k \in Opens(h, 13) : h.dhe /\ ResumedIdentity(t, PolicyOf[h.host], k.chain)}
    IN  CASE t.retry /\ ~(h.share = "asked" /\ h.same) -> Fail(t)
          [] ~t.retry /\ h.share = "later" -> HelloRetry(t)
          [] resumed # {} /\ ~h.binder -> Fail(t)
          [] OTHER -> Flight13(t, h, resumed)

\* epollTLS12ClientHello: a full flight, ServerHello to ServerHelloDone, or
\* epollTLS12Resume, in which the server finishes first.
Hello12(t, h) ==
    LET opens == Opens(h, 12)
        resumed == {k \in opens : k.ems = h.ems /\ ResumedIdentity(t, PolicyOf[h.host], k.chain)}
        set == [Plain(Settled(t, h, resumed), "hello12") EXCEPT
                    !.phase = "finish12", !.reader = resumed # {},
                    !.expectCert = Requests(PolicyOf[h.host]) /\ resumed = {}]
    IN  CASE \E k \in opens : k.ems /\ ~h.ems -> Fail(t)
          [] resumed # {} -> ServerFinish12(set)
          [] OTHER -> set

\* epollTLSClientHello.
ClientHello(t, h) ==
    CASE h.bad \/ (h.ver = 12 /\ t.retry) -> Fail(t)
      [] h.ver = 12 -> Hello12(t, h)
      [] OTHER -> Hello13(t, h)

--------------------------------------------------------------------------------
(* The client's flight.  A message: its type, and of: the chain of a Certificate,  *)
(* the chain whose key made a signature, or whether a key or verify_data is good.  *)

\* Mutant: no signature is asked of a chain.
CertificateSuffices(t, chain) == [t EXCEPT !.chain = chain, !.stage = "finished"]

\* The Certificate of a TLS 1.3 client: CertificateVerify, unless it is empty.
TakeChain13(t, chain) ==
    [t EXCEPT !.chain = chain, !.stage = IF chain = "empty" THEN "finished" ELSE "verify"]

\* A message the flight does not allow here.
Refuse(t) == [Fail(t) EXCEPT !.end = "refused"]

\* tls13ClientAuth.handleMessage; nothing may follow Finished.
HandleMessage13(u, m) ==
    LET t == [u EXCEPT !.said = Append(@, m)]
        p == PolicyOf[t.host]
    IN  CASE u.end # "open" -> u
          [] t.stage = "certificate" /\ m.type = "certificate" /\ CheckChain(t, p, m.of) ->
                TakeChain13(t, m.of)
          [] t.stage = "verify" /\ m.type = "verify" /\ m.of = t.chain -> [t EXCEPT !.stage = "finished"]
          [] t.stage = "finished" /\ m.type = "finished" /\ m.of = "good" -> [t EXCEPT !.stage = "done"]
          [] OTHER -> Refuse(t)

\* Mutant: the signature is forgotten once the keys are derived.
HandleMessage12Unsigned(u, m) ==
    LET t == [u EXCEPT !.said = Append(@, m)]
    IN  CASE u.end # "open" -> u
          [] t.expectCert /\ m.type = "certificate" /\ CheckChain(t, PolicyOf[t.host], m.of) ->
                [t EXCEPT !.chain = m.of, !.expectCert = FALSE]
          [] ~t.expectCert /\ m.type = "keyExchange" /\ ~t.reader /\ m.of = "good" ->
                [t EXCEPT !.reader = TRUE]
          [] OTHER -> Refuse(t)

\* tls12State.handleClientMessage.
HandleMessage12(u, m) ==
    LET t == [u EXCEPT !.said = Append(@, m)]
    IN  CASE u.end # "open" -> u
          [] t.expectCert /\ m.type = "certificate" /\ CheckChain(t, PolicyOf[t.host], m.of) ->
                [t EXCEPT !.chain = m.of, !.expectCert = FALSE]
          [] ~t.expectCert /\ m.type = "keyExchange" /\ ~t.reader /\ m.of = "good" ->
                [t EXCEPT !.reader = TRUE, !.expectCV = t.chain # "empty"]
          [] ~t.expectCert /\ m.type = "verify" /\ t.expectCV /\ m.of = t.chain -> [t EXCEPT !.expectCV = FALSE]
          [] OTHER -> Refuse(t)

\* nextHandshakeMessage: the whole messages of some units, and what is left.
Messages(units) == [i \in 1..(Len(units) \div 2) |-> units[2 * i]]
Leftover(units) == SubSeq(units, 2 * (Len(units) \div 2) + 1, Len(units))

\* feed, handleClientFlight: messages run on from record to record.
HandleUnits(Handle(_, _), t, units) ==
    LET buf == t.pending \o units
    IN  [FoldLeft(Handle, t, Messages(buf)) EXCEPT !.pending = Leftover(buf)]

\* completeTLS13Handshake, and the end of epollTLS12ClientFinish.
Complete(t) ==
    LET told == IF t.ver = 13 THEN SendTicket(t) ELSE IF t.resumed THEN t ELSE ServerFinish12(t)
        done == [told EXCEPT !.peer = t.chain, !.stage = "",
                             !.phase = IF t.alpn = "h2" THEN "h2" ELSE "app"]
    IN  IF t.alpn = "h2" THEN Seal(done, "data") ELSE done

\* checkFinishedMessage: the record holds one message, the right Finished.
CheckFinished(t, units) ==
    IF Len(units) # 2 THEN Fail(t)
    ELSE LET m == units[2]
             u == [t EXCEPT !.said = Append(@, m)]
         IN  IF m.type = "finished" /\ m.of = "good" THEN Complete(u) ELSE Refuse(u)

\* clientAuth.feed as epollTLSClientFinished uses it.
Feed(t, units) ==
    LET u == HandleUnits(HandleMessage13, t, units)
    IN  CASE u.end # "open" \/ u.stage # "done" -> u
          [] u.pending # <<>> -> Refuse(u)
          [] OTHER -> Complete(u)

\* Mutant: ChangeCipherSpec needs only the keys.
FlightKeyed(t) == t.reader

\* clientFlightComplete.
FlightComplete(t) == t.reader /\ ~t.expectCert /\ ~t.expectCV /\ t.pending = <<>>

--------------------------------------------------------------------------------
(* Application records.  A kind says what the record holds; of the kinds sent    *)
(* under another record type, TLS 1.2 has key updates (they are handshake        *)
(* records) and alerts.                                                          *)

Kinds == {"data", "empty", "update", "updateAsk", "alert", "plainAlert", "bad", "other", "big"}

IsAppData(t, r) ==
    r \in {"data", "empty", "bad"} \cup (IF t.ver = 13 THEN {"update", "updateAsk", "alert"} ELSE {})

\* One turn of the loop of epollTLSDecryptToApp, with openTLS13AppRecord or
\* openTLS12AppRecord.  After data, a record of another type waits in left.
Decrypt(t, r) ==
    CASE t.end # "open" \/ t.peerClosed -> t
      [] t.left # <<>> -> [t EXCEPT !.left = Append(@, r)]
      [] r = "big" -> Fail(t)
      [] t.got /\ ~IsAppData(t, r) -> [t EXCEPT !.left = <<r>>]
      [] r = "data" -> [t EXCEPT !.got = TRUE, !.useless = 0]
      [] r = "empty" -> SkipUseless(t)
      [] r \in {"alert", "plainAlert"} -> IF t.got THEN [t EXCEPT !.peerClosed = TRUE] ELSE Quiet(t)
      [] r = "update" /\ t.ver = 13 -> SkipUseless(t)
      [] r = "updateAsk" /\ t.ver = 13 -> SkipUseless(KeyUpdate(t))
      [] OTHER -> Fail(t)

DecryptToApp(t, recs) ==
    IF t.peerClosed THEN Quiet(t) ELSE FoldLeft(Decrypt, [t EXCEPT !.left = <<>>, !.got = FALSE], recs)

\* epollTLSApplication: a request is dispatched, or the connection waits or ends.
Application(t, recs) ==
    LET d == DecryptToApp(t, recs)
    IN  [d EXCEPT !.app = d.got /\ d.end = "open", !.got = FALSE]

\* Mutant: the replies of the frames are sealed with the key of before.
DrainBefore(d, reply, t) ==
    IF d.got /\ reply THEN [SealAppData([d EXCEPT !.g = t.g, !.n = t.n]) EXCEPT !.got = FALSE]
    ELSE [d EXCEPT !.got = FALSE]

\* epollTLSH2Drain: what the frames answered at once, sealed after the rest.
Drain(d, reply, t) == [(IF d.got /\ reply THEN SealAppData(d) ELSE d) EXCEPT !.got = FALSE]

\* epollTLSApplicationH2: frames are drained whatever ended the loop, then the
\* records left over are read.
ApplicationH2(t, recs, reply) ==
    LET d == DecryptToApp(t, recs)
        e == Drain(d, reply, t)
    IN  IF e.end # "open" \/ (e.left = <<>> /\ ~e.peerClosed) THEN e
        ELSE DecryptToApp(e, e.left)

--------------------------------------------------------------------------------
(* The client's records.                                                        *)

Msgs ==
    [type : {"certificate"}, of : Chains] \cup [type : {"verify"}, of : Owned \cup {"garbled"}]
    \cup [type : {"keyExchange", "finished"}, of : {"good", "bad"}] \cup [type : {"other"}, of : {"good"}]

\* Units the client may put in a record: the end of the message it has begun, whole
\* messages, the start of another.
Units(t) ==
    LET whole == {<<m, m>> : m \in mix.msgs}
        two == {a \o b : a, b \in whole}
        cut == {a \o <<m>> : a \in whole \cup {<<>>}, m \in mix.msgs}
        any == IF May("split") THEN whole \cup two \cup cut ELSE whole
    IN  {t.pending \o u : u \in any \cup (IF t.pending = <<>> THEN {} ELSE {<<>>})}

Hellos(t) ==
    [ver : mix.vers, host : mix.hosts, alpn : mix.alpns, bad : IF May("bad") THEN BOOLEAN ELSE {FALSE},
     share : IF t.retry THEN {"asked", "other"} ELSE IF May("retry") THEN {"good", "later"} ELSE {"good"},
     same : IF t.retry THEN BOOLEAN ELSE {TRUE}, dhe : IF May("resume") THEN {TRUE} ELSE BOOLEAN,
     ems : IF 12 \in mix.vers THEN mix.ems ELSE {FALSE},
     psk : {{}} \cup (IF May("resume") THEN {{k} : k \in t.tickets} ELSE {}),
     binder : IF May("resume") THEN BOOLEAN ELSE {TRUE}]

Open == s.end = "open"

\* nextClientHelloRecord, reassembleClientHello: a hello whole, or its last record.
RecvHello == Open /\ s.phase = "hello" /\ \E h \in Hellos(s) : Become(ClientHello(s, h))

\* A handshake record that does not end the hello; those read stay in the buffer.
RecvHelloPart ==
    /\ Open /\ s.phase = "hello" /\ May("bad")
    /\ Become(IF s.parts + 1 = MaxParts THEN Fail(s) ELSE [s EXCEPT !.parts = @ + 1])

\* Any other first record closes without an alert; inside a hello, or too large, it
\* is an error; after a retry ChangeCipherSpec is skipped.
RecvNoHello ==
    /\ Open /\ s.phase = "hello" /\ May("bad")
    /\ \E r \in {"ccs", "badCcs", "other", "big"} :
          Become(CASE s.parts > 0 -> Fail(s)
                   [] r = "other" \/ (~s.retry /\ r # "big") -> Quiet(s)
                   [] r = "ccs" -> SkipUseless(s)
                   [] OTHER -> Fail(s))

\* epollTLSClientFinished: a handshake record under the handshake key.
RecvFinished13 ==
    /\ Open /\ s.phase = "finished"
    /\ \E units \in Units(s) :
          Become(IF s.stage # "" THEN Feed(s, units) ELSE CheckFinished(s, units))

\* The other records of that phase.
RecvOther13 ==
    /\ Open /\ s.phase = "finished" /\ May("bad")
    /\ \E r \in {"ccs", "alert", "bad"} :
          Become(CASE r = "ccs" -> SkipUseless(s) [] r = "alert" -> Quiet(s) [] OTHER -> Fail(s))

\* epollTLS12ClientFinish: a handshake record.
RecvFlight12 ==
    /\ Open /\ s.phase = "finish12"
    /\ \E units \in Units(s) :
          Become(IF s.gotCCS THEN CheckFinished(s, units) ELSE HandleUnits(HandleMessage12, s, units))

ChangeCipherSpec == [type |-> "ccs", of |-> "good"]

RecvCCS12 ==
    /\ Open /\ s.phase = "finish12"
    /\ LET t == [s EXCEPT !.said = Append(@, ChangeCipherSpec)]
       IN  Become(IF ~s.gotCCS /\ FlightComplete(s) THEN [t EXCEPT !.gotCCS = TRUE] ELSE Refuse(t))

RecvOther12 ==
    /\ Open /\ s.phase = "finish12" /\ May("bad")
    /\ \E r \in {"alert", "bad"} : Become(IF r = "alert" THEN Quiet(s) ELSE Fail(s))

\* Records read together: at most two.
Batches == {<<r>> : r \in mix.recs} \cup (mix.recs \X mix.recs)

RecvApp ==
    /\ Open /\ Len(s.out) < MaxOut
    /\ \E recs \in Batches :
          \/ s.phase = "app" /\ ~s.app /\ Become(Application(s, recs))
          \/ s.phase = "h2" /\ \E reply \in BOOLEAN : Become(ApplicationH2(s, recs, reply))

--------------------------------------------------------------------------------
(* The server's own steps.                                                      *)

\* Mutant: only hosts without a policy of their own are compared.
MisdirectsNone(t, host) == FALSE

\* misdirectsClientAuth.
Misdirects(t, host) == Requests(PolicyOf[host]) /\ PolicyOf[host] # PolicyOf[t.host]

\* A response: to the request of an HTTP/1 connection, which then reads on, or of
\* an HTTP/2 stream; 421 if the host's policy is another one, which ends HTTP/1.
Respond ==
    /\ Open /\ Len(s.out) < MaxOut
    /\ s.phase = "h2" \/ s.app
    /\ \E host \in mix.hosts :
          LET told == [SealAppData(s) EXCEPT !.app = FALSE, !.served = IF Misdirects(s, host) THEN {} ELSE {host}]
          IN  Become(CASE s.phase = "h2" -> told
                       [] Misdirects(s, host) -> Quiet(told)
                       [] OTHER -> Application(told, told.left))

\* Mutant: close_notify follows an alert.
NotifyAgain(t) == [Seal(t, "alert") EXCEPT !.alert = TRUE, !.end = "closed"]

\* sendCloseNotify, coalesceCloseNotify.
CloseNotify(t) == IF t.alert THEN t ELSE [Seal(t, "alert") EXCEPT !.alert = TRUE, !.end = "closed"]

\* closeAfterResponse: a connection with nothing in flight is told.
Close ==
    /\ s.phase \in {"app", "h2"} /\ ~s.app
    /\ May("close") \/ ~Open
    /\ Become(CloseNotify(s))

\* The client comes back, perhaps after its certificate expired or its tickets did.
Reconnect ==
    /\ ~Open /\ s.conns < MaxConns
    /\ \E expired \in {s.expired} \cup (IF May("expire") THEN {Owned} ELSE {}) :
          Become(Fresh(s.tickets, s.conns + 1, expired))

Next ==
    \/ RecvHello \/ RecvHelloPart \/ RecvNoHello \/ RecvFinished13 \/ RecvOther13
    \/ RecvFlight12 \/ RecvCCS12 \/ RecvOther12 \/ RecvApp \/ Respond \/ Close \/ Reconnect

Spec == Init /\ [][Next]_vars

--------------------------------------------------------------------------------
(* Properties.                                                                  *)

\* The types; the records skipped in a row are bounded (tlsMaxUselessRecords).
TypeOK ==
    /\ s.phase \in {"hello", "finished", "finish12", "app", "h2"}
    /\ s.host \in Hosts \cup {""} /\ s.ver \in {0, 12, 13} /\ s.parts \in 0..(MaxParts - 1)
    /\ s.pending \in {<<>>} \cup {<<m>> : m \in Msgs}
    /\ s.stage \in {"", "certificate", "verify", "finished", "done"}
    /\ {s.chain, s.peer} \subseteq Chains \cup {"empty"}
    /\ s.useless \in 0..MaxUseless /\ s.end \in {"open", "failed", "refused", "closed"}
    /\ s.n \in Nat /\ s.g \in Nat /\ s.served \subseteq Hosts /\ s.left \in Seq(Kinds)

\* What a client that read every record so far expects of the next one.
Expect(e, r) ==
    CASE ~e.ok \/ ~(r.key = "plain" \/ (r.key = e.key /\ r.g = e.g /\ r.n = e.n)) -> [e EXCEPT !.ok = FALSE]
      [] r.what = "ccs" /\ e.ver = 13 -> [e EXCEPT !.ok = e.key # "app"]
      [] r.key = "plain" /\ e.key # "plain" -> [e EXCEPT !.ok = FALSE]
      [] r.what = "hello13" -> [e EXCEPT !.key = "handshake", !.ver = 13]
      [] r.what = "flight" -> [e EXCEPT !.key = "app", !.n = 0]
      [] r.what = "ccs" /\ e.ver = 12 -> [e EXCEPT !.key = "write12", !.n = 0]
      [] r.what = "hello12" -> [e EXCEPT !.ver = 12]
      [] r.what = "keyUpdate" -> [e EXCEPT !.g = @ + 1, !.n = 0]
      [] OTHER -> [e EXCEPT !.n = IF r.key = "plain" THEN @ ELSE @ + 1]

\* failTLS, sealTLSAppData, acceptKeyUpdate, sendSessionTicket: whatever the order of
\* flights, tickets, key updates, responses and alerts, every record is sealed with
\* the key and the number the client expects next.
RecordsReadable ==
    FoldLeft(Expect, [key |-> "plain", g |-> 0, n |-> 0, ver |-> 0, ok |-> TRUE], s.out).ok

\* keyWornOut: data is not sealed with a key that has sealed KeyLimit records.
KeysRenewed == \A i \in DOMAIN s.out : s.out[i].what = "data" /\ s.out[i].key = "app" => s.out[i].n < KeyLimit

\* sendCloseNotify, failTLS (tlsAlertSent): one alert at most, and the last record;
\* only an HTTP/2 connection still answers the frames read before the bad record.
AlertIsLast ==
    \A i \in DOMAIN s.out : s.out[i].what = "alert" =>
        \A j \in (i + 1)..Len(s.out) : s.phase = "h2" /\ s.end = "failed" /\ s.out[j].what # "alert"

\* A chain that satisfies a policy.
Satisfies(chain, p) ==
    /\ Requires(p) => chain # "empty"
    /\ Verifies(p) /\ chain # "empty" => chain \in Trusts[p.roots] \ s.expired

\* TLSPeerCertificates, misdirectsClientAuth, resumedIdentity: the identity handlers
\* see is one whose key the client has, and a request is only served for a host
\* whose policy that identity satisfies, also after a resumption.
IdentityProven ==
    /\ s.phase \in {"app", "h2"} =>
          s.peer \in Owned \cup {"empty"} /\ Satisfies(s.peer, PolicyOf[s.host])
    /\ \A k \in s.tickets : k.chain \in Owned \cup {"empty"}
    /\ \A host \in s.served : Requests(PolicyOf[host]) => Satisfies(s.peer, PolicyOf[host])

\* The flights a client may answer with, by version, policy and resumption.
Flights(t) ==
    LET fin == (IF t.ver = 12 THEN <<ChangeCipherSpec>> ELSE <<>>) \o <<[type |-> "finished", of |-> "good"]>>
        cke == IF t.ver = 12 /\ ~t.resumed THEN <<[type |-> "keyExchange", of |-> "good"]>> ELSE <<>>
        cert(c) == [type |-> "certificate", of |-> c]
        sig(c) == IF c = "empty" THEN <<>> ELSE <<[type |-> "verify", of |-> c]>>
        p == PolicyOf[t.host]
    IN  IF Requests(p) /\ ~t.resumed
        THEN {<<cert(c)>> \o cke \o sig(c) \o fin :
                c \in {x \in Chains : x # "garbled" /\ Satisfies(x, p)}}
        ELSE {cke \o fin}

\* feed, handleClientFlight, clientFlightComplete: however messages are split over
\* records, a handshake completes only with a flight that may answer the server's,
\* and a client is only refused for a message that no such flight has there.
FlightDecides ==
    /\ s.phase \in {"app", "h2"} => s.said \in Flights(s)
    /\ s.end = "refused" /\ s.pending = <<>> => ~\E f \in Flights(s) : IsPrefix(s.said, f) /\ s.stage # "done"
    /\ s.phase \in {"finished", "finish12"} /\ Open => \E f \in Flights(s) : IsStrictPrefix(s.said, f)

================================================================================
