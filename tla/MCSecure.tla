------------------------------- MODULE MCSecure -------------------------------
(* Certificates, TLS and the framing of HTTP/2 and HTTP/3, for TLC: the store    *)
(* handshakes are answered from, the orders and the schedule that renew it, the  *)
(* handshakes themselves, and the streams that come after them.  They meet only  *)
(* through what each models of the others, so one behaviour runs one of them,    *)
(* which part names; all but the store keep their state in x.                    *)
EXTENDS CertStore, Integers, Sequences

VARIABLES part, x1, x2, x3, x4, x5, x6, x7, x8, x9, x10, x11, x12, x13

-------------------------------------------------------------------------------
(* The store: two callers with three certificates for two names, and one caller  *)
(* whose certificates are stapled.                                               *)

CertMixes ==
    {[entries |-> 3, staples |-> FALSE, admins |-> {1, 2}, domains |-> {"a", "b"}],
     [entries |-> 2, staples |-> TRUE, admins |-> {1}, domains |-> {"a"}]}

-------------------------------------------------------------------------------
(* ACME.                                                                         *)

OrderMixes == {{"replace", "renew"}, {"add", "io"}, {"crash", "renew"}, {"crash", "io"}, {"replace", "crash"}}
Orders == INSTANCE AcmeOrders
    WITH Workers <- {1, 2}, Mixes <- OrderMixes, MaxOrders <- 3,
         ai <- x1, cur <- x2, worker <- x3, mem <- x4, tokens <- x5, arch <- x6, live <- x7, held <- x8,
         orders <- x9, clean <- x10, saved <- x11, mix <- x12

Renewal == INSTANCE AcmeRenewal
    WITH Domains <- {1, 2}, Identified <- {1}, Life <- 5, RenewBefore <- 1, CheckEvery <- 3, MinWake <- 1,
         DefaultPoll <- 2, TimeoutRetry <- 1, BackoffBase <- 1, BackoffMax <- 3, Cached <- {5}, MaxTime <- 7,
         now <- x1, cert <- x2, state <- x3, dir <- x4, loop <- x5, allowed <- x6

-------------------------------------------------------------------------------
(* TLS: hosts with each client certificate policy, and clients that send, split, *)
(* withhold or garble what the flight needs, resume, rekey and close.            *)

Policy(m, r) == [mode |-> m, roots |-> r]
TlsPolicyOf == [h \in {"a", "b", "c", "d"} |->
    CASE h = "a" -> Policy("none", "R") [] h = "b" -> Policy("requireVerify", "R")
      [] h = "c" -> Policy("verifyIfGiven", "Q") [] h = "d" -> Policy("requireAny", "Q")]
TlsTrusts == [r \in {"R", "Q"} |-> IF r = "R" THEN {"mine", "lent"} ELSE {"alien"}]
TlsChains == {"empty", "mine", "lent", "alien", "garbled"}
TlsOwned == {"mine", "alien"}

TlsMix(vers, hosts, alpns, ems, msgs, recs, may) ==
    [vers |-> vers, hosts |-> hosts, alpns |-> alpns, ems |-> ems, msgs |-> msgs, recs |-> recs, may |-> may]
TlsGood ==
    [type : {"certificate"}, of : TlsChains] \cup [type : {"verify"}, of : TlsOwned \cup {"garbled"}]
    \cup [type : {"keyExchange", "finished"}, of : {"good"}]
TlsAny == TlsGood \cup [type : {"keyExchange", "finished"}, of : {"bad"}] \cup [type : {"other"}, of : {"good"}]
TlsRecords == {"data", "empty", "update", "updateAsk", "alert", "plainAlert", "bad", "other", "big"}
TlsMixes ==
    {TlsMix({13}, {"a", "b"}, {"h1"}, {FALSE}, TlsAny, {"data"}, {"split", "bad", "retry"}),
     TlsMix({12}, {"a", "b"}, {"h1"}, {FALSE}, TlsAny, {"data"}, {"split", "bad"}),
     TlsMix({12, 13}, {"a", "b", "c", "d"}, {"h1"}, {FALSE}, TlsGood, {"data"}, {"resume", "expire", "close"}),
     TlsMix({12}, {"b"}, {"h2"}, BOOLEAN, TlsGood, {"data"}, {"resume", "close"}),
     TlsMix({12, 13}, {"a"}, {"h1", "h2"}, {FALSE}, TlsGood, TlsRecords, {"close"})}
Tls == INSTANCE TlsServer
    WITH PolicyOf <- TlsPolicyOf, Trusts <- TlsTrusts, Owned <- TlsOwned, Chains <- TlsChains, MaxUseless <- 2,
         MaxParts <- 2, KeyLimit <- 2, MaxOut <- 8, MaxConns <- 2, Mixes <- TlsMixes, s <- x1, mix <- x2

-------------------------------------------------------------------------------
(* HTTP/3 streams: what the peer sends on its control, encoder and unknown       *)
(* streams, and requests that are well formed, cut short or out of order.        *)

Far == -1
Frame(type, wide, payload) == [type |-> type, wide |-> wide, payload |-> payload]
Stream(type, wide, frames, raw, ends) ==
    [type |-> type, wide |-> wide, frames |-> frames, raw |-> raw, ends |-> ends]
Quiet == Stream(3, FALSE, <<>>, <<>>, "open")
Settings == Frame(4, FALSE, <<6, 9>>)
ControlOf(frames) == Stream(0, FALSE, frames, <<>>, "fin")
H3Scripts ==
    {<<ControlOf(<<Settings, Frame(33, TRUE, <<0, 1, 7>>), Frame(7, FALSE, <<Far, 8>>)>>), Quiet>>,
     <<ControlOf(<<Settings, Frame(33, FALSE, <<4, 0>>), Settings>>), Stream(0, FALSE, <<Settings>>, <<>>, "open")>>,
     <<ControlOf(<<Frame(33, FALSE, <<>>)>>), Stream(2, TRUE, <<>>, <<32, 32>>, "fin")>>,
     <<ControlOf(<<Frame(4, TRUE, <<6, 0, 6, 0>>)>>), Stream(2, FALSE, <<>>, <<32, 1>>, "open")>>,
     <<ControlOf(<<Frame(4, TRUE, <<6, 0, 6>>)>>), Stream(40, TRUE, <<>>, <<32, 1>>, "fin")>>,
     <<ControlOf(<<Frame(4, TRUE, <<0, 0, 0, 0, 0>>)>>), Stream(1, FALSE, <<>>, <<>>, "open")>>,
     <<ControlOf(<<Settings, Frame(13, FALSE, <<1, 1>>)>>), Stream(40, TRUE, <<>>, <<32, 1>>, "reset")>>,
     <<ControlOf(<<Settings, Frame(13, FALSE, <<1, 1, 1>>)>>), Stream(2, FALSE, <<>>, <<32>>, "reset")>>,
     <<ControlOf(<<Frame(4, FALSE, <<>>), Frame(0, FALSE, <<1>>)>>), Stream(3, TRUE, <<>>, <<32>>, "fin")>>}

Section(size, valid, declared) ==
    [size |-> size, valid |-> valid, trailer |-> FALSE, path |-> TRUE, declared |-> declared]
Trailer == [Section(1, FALSE, -1) EXCEPT !.trailer = TRUE]
Part(type, section, length) == [type |-> type, section |-> section, length |-> length]
Headers(section) == Part(1, section, 0)
Data(length) == Part(0, Trailer, length)
Other(type) == Part(type, Trailer, 0)
H3Request(frames, cut) == [frames |-> frames, cut |-> cut]
H3Requests ==
    {H3Request(<<Headers(Section(2, TRUE, -1)), Data(1)>>, FALSE),
     H3Request(<<Headers(Section(2, TRUE, 2)), Data(1), Other(33), Data(1), Headers(Trailer)>>, FALSE),
     H3Request(<<Headers(Section(1, TRUE, 2)), Data(1)>>, FALSE), H3Request(<<Data(1)>>, FALSE),
     H3Request(<<Headers(Section(1, TRUE, -1)), Headers(Section(1, TRUE, -1)), Data(1)>>, FALSE),
     H3Request(<<Headers(Section(1, TRUE, -1)), Headers(Trailer), Headers(Trailer)>>, FALSE),
     H3Request(<<Headers(Section(1, TRUE, -1)), Headers(Trailer), Data(1)>>, FALSE),
     H3Request(<<Headers([Section(1, TRUE, -1) EXCEPT !.path = FALSE])>>, FALSE),
     H3Request(<<Other(33)>>, FALSE), H3Request(<<Headers(Section(1, TRUE, 0))>>, TRUE),
     H3Request(<<Headers(Section(1, TRUE, -1)), Data(1), Data(2)>>, FALSE), H3Request(<<>>, TRUE),
     H3Request(<<Headers(Section(1, FALSE, -1))>>, TRUE), H3Request(<<Other(4)>>, FALSE)}
H3 == INSTANCE H3Streams
    WITH Streams <- {1, 2}, Scripts <- H3Scripts, Requests <- H3Requests, Limits <- {1, 2}, Pieces <- {0, 1, 2, 4},
         MaxControlFramePayload <- 4, MaxPushIDFramePayload <- 2, MaxBody <- 2,
         asks <- x1, script <- x2, got <- x3, read <- x4, end <- x5, peer <- x6, seen <- x7, cur <- x8,
         started <- x9, verdict <- x10, expected <- x11, sections <- x12, answer <- x13

H2 == INSTANCE H2Conn WITH N <- 2, MaxStreams <- 1, MaxTasks <- 1,
                           h2 <- x1, str <- x2, tasks <- x3, done <- x4, loop <- x5

-------------------------------------------------------------------------------
From7 == x7 = 0 /\ x8 = 0 /\ x9 = 0 /\ x10 = 0 /\ x11 = 0 /\ x12 = 0 /\ x13 = 0
From3 == x3 = 0 /\ x4 = 0 /\ x5 = 0 /\ x6 = 0 /\ From7

PartsInit ==
    /\ Init
    /\ \/ part = "certs" /\ x1 = 0 /\ x2 = 0 /\ From3
       \/ /\ mix.staples
          /\ \/ part = "orders" /\ Orders!Init /\ x13 = 0
             \/ part = "renewal" /\ Renewal!Init /\ From7
             \/ part = "tls" /\ Tls!Init /\ From3
             \/ part = "h3" /\ H3!Init
             \/ part = "h2" /\ H2!Init /\ x6 = 0 /\ From7

xFrom7 == <<x7, x8, x9, x10, x11, x12, x13>>
xFrom3 == <<x3, x4, x5, x6, xFrom7>>
x == <<x1, x2, xFrom3>>

PartsNext ==
    \/ part = "certs" /\ Next /\ UNCHANGED <<part, x>>
    \/ part = "orders" /\ Orders!Next /\ UNCHANGED <<part, vars, x13>>
    \/ part = "renewal" /\ Renewal!Next /\ UNCHANGED <<part, vars, xFrom7>>
    \/ part = "tls" /\ Tls!Next /\ UNCHANGED <<part, vars, xFrom3>>
    \/ part = "h3" /\ H3!Next /\ UNCHANGED <<part, vars>>
    \/ part = "h2" /\ H2!Next /\ UNCHANGED <<part, vars, x6, xFrom7>>

PartsSpec == PartsInit /\ [][PartsNext]_<<part, vars, x>>

-------------------------------------------------------------------------------
(* Properties.                                                                 *)

\* A registered certificate that names a responder is being stapled whatever fails, no
\* stale response is sent with it, an ACME certificate is always a pair with its key,
\* its challenge is answered while the order waits, and what was written loads after a
\* crash (ocspStapler.run, obtain, saveCertbotLineage, tryLoadCached).
CertsSound ==
    /\ part = "certs" => TypeOK /\ RegisteredIsStapled /\ StaplesFresh
    /\ part = "orders" => /\ Orders!TypeOK /\ Orders!HeldIsAPair /\ Orders!ChallengeServed
                          /\ Orders!LineageLoads /\ Orders!ObtainDriven

\* Certificates are renewed in time, and no order is made before the delay that the
\* last failure set has passed (runLoop, renewAll, recordFailure).
RenewalSound ==
    /\ [](part = "renewal" => Renewal!TypeOK /\ Renewal!RenewedInTime)
    /\ [][part = "renewal" => Renewal!AfterBackoff]_x

\* The TLS server: the client can read every record, keys are renewed before their
\* limit, an alert is the last thing sent, a request is served only under an identity
\* the client proved and its host's policy accepts, and only a complete flight decides
\* (runTLSPhases, checkChain, resumedIdentity, failTLS).
TlsSound ==
    part = "tls" => /\ Tls!TypeOK /\ Tls!RecordsReadable /\ Tls!KeysRenewed /\ Tls!AlertIsLast
                    /\ Tls!IdentityProven /\ Tls!FlightDecides

\* HTTP/3: however the bytes of the peer's streams are cut up, they are judged as the
\* whole would be, and so is every request (consumePeerStream, handleRequestStream).
H3Sound == part = "h3" => H3!TypeOK /\ H3!JudgedAsWhole /\ H3!RequestsJudged

\* An HTTP/2 connection's counts are what its streams owe, and no task, reader, writer
\* or refused stream is left over when a stream ends (abandonH2Stream, h2PumpTask,
\* refuseH2StreamGoingAway).
H2Sound ==
    part = "h2" => /\ H2!TypeOK /\ H2!CountsExact /\ H2!NoStaleTask /\ H2!NoReaderStranded
                   /\ H2!NoWriterStranded /\ H2!GoAwayIsHonest

===============================================================================
