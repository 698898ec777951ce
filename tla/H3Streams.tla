----------------------------- MODULE H3Streams -----------------------------
(***************************************************************************)
(* HTTP/3 above the QUIC streams (h3_peer_streams.go, h3_conn.go,          *)
(* h3_frame.go, h3_request.go): the peer's unidirectional streams, typed   *)
(* by their first bytes and read as their bytes come, and the frames of a  *)
(* request, read once it is complete.  A byte is a number; a variable-     *)
(* length integer is its value, or Wide and then its value, so that it can *)
(* be cut in two.  The code's reading, which keeps what is pending and     *)
(* what is to be skipped between two pieces, is compared with a reference  *)
(* that looks at the whole stream.                                         *)
(***************************************************************************)
EXTENDS Integers, Sequences, FiniteSets, FiniteSetsExt, SequencesExt

CONSTANTS Streams,     \* unidirectional streams of the peer
          Scripts,     \* what a peer may send: for each stream its type, frames and bytes
          Requests,    \* request streams: a sequence of frames each, and whether the last is cut
          Limits,      \* field section limits of the servers that share the decoded sections
          Pieces,      \* sizes of the pieces a stream is cut into
          MaxControlFramePayload, MaxPushIDFramePayload, MaxBody

VARIABLES script,    \* the script of this behaviour
          got,       \* bytes of each stream that have arrived
          read,      \* bytes of each stream taken by readPeerStream
          end,       \* "open", "fin" or "reset"
          peer,      \* h3PeerStream: kind, pending, skip, settingsSeen
          seen,      \* kinds of critical stream seen on this connection
          cur,       \* the piece being read: its stream and the bytes left
          started,   \* H3Conn.start has read what came before it
          verdict,   \* the error the connection is closed with, "ok" while it is open
          expected,  \* what the reference says of the pieces taken so far
          sections,  \* qpackDecodedBlocks
          asks,      \* this peer makes requests, or else sends on its own streams: the two share nothing
          answer     \* how the last request was answered, and what the reference says of it

vars == <<asks, script, got, read, end, peer, seen, cur, started, verdict, expected, sections, answer>>

Wide == -1
Control == 0
Push == 1
Encoder == 2
Decoder == 3
Settings == 4
DataType == 0
HeadersType == 1
PushIDTypes == {3, 7, 13}                       \* CANCEL_PUSH, GOAWAY, MAX_PUSH_ID
ReservedTypes == {2, 6, 8, 9}                   \* h3FrameTypeReservedFromHTTP2
NotOnControl == {DataType, HeadersType, 5} \union ReservedTypes
ReservedSettings == 2 .. 5                      \* h3SettingReservedFromHTTP2
CapacityZero == 32

Varint(v, wide) == IF wide THEN <<Wide, v>> ELSE <<v>>
Bytes(f) == Varint(f.type, f.wide) \o <<Len(f.payload)>> \o f.payload
Stream(s) == Varint(script[s].type, script[s].wide) \o FlattenSeq([i \in DOMAIN script[s].frames |-> Bytes(script[s].frames[i])]) \o script[s].raw

Idle == [s |-> 0, buf |-> <<>>]
NewPeer == [kind |-> "untyped", pending |-> <<>>, skip |-> 0, settingsSeen |-> FALSE]
Critical(k) == k \in {"control", "encoder", "decoder"}

Init == /\ script \in Scripts
        /\ got = [s \in Streams |-> 0] /\ read = [s \in Streams |-> 0] /\ end = [s \in Streams |-> "open"]
        /\ peer = [s \in Streams |-> NewPeer] /\ seen = {} /\ cur = Idle /\ started = FALSE
        /\ verdict = "ok" /\ expected = "ok" /\ sections = {} /\ asks \in BOOLEAN /\ answer = <<"", "">>

---------------------------------------------------------------------------
(* The reference: what is wrong with a stream, seen whole, and from which    *)
(* byte on.  Kinds taken by other streams are those in ks.                   *)

SettingsFault(p) ==
  LET ids == {i \in DOMAIN p : i % 2 = 1}
      bad == {i \in ids : i = Len(p) \/ p[i] \in ReservedSettings \/ \E j \in ids : j < i /\ p[j] = p[i]}
  IN IF bad = {} THEN "ok" ELSE IF Min(bad) = Len(p) THEN "frame" ELSE "settings"

Start(s, i) == Len(Varint(script[s].type, script[s].wide))
                 + FoldLeft(LAMBDA n, f : n + Len(Bytes(f)), 0, SubSeq(script[s].frames, 1, i - 1))
HeaderEnd(s, i) == Start(s, i) + Len(Bytes(script[s].frames[i])) - Len(script[s].frames[i].payload)
FrameEnd(s, i) == Start(s, i) + Len(Bytes(script[s].frames[i]))

FrameFault(i, f, n, header, whole) ==
  CASE i = 1 /\ f.type # Settings -> IF n >= header THEN "missing" ELSE "ok"
    [] f.type = Settings -> IF i > 1 THEN IF n >= header THEN "unexpected" ELSE "ok"
                            ELSE IF Len(f.payload) > MaxControlFramePayload
                                 THEN IF n >= header THEN "load" ELSE "ok"
                            ELSE IF n >= whole THEN SettingsFault(f.payload) ELSE "ok"
    [] i > 1 /\ f.type \in NotOnControl -> IF n >= header THEN "unexpected" ELSE "ok"
    [] i > 1 /\ f.type \in PushIDTypes ->
         IF Len(f.payload) > MaxPushIDFramePayload THEN IF n >= header THEN "frame" ELSE "ok"
         ELSE IF n >= whole /\ ~(Len(f.payload) = 1 \/ (Len(f.payload) = 2 /\ f.payload[1] = Wide)) THEN "frame" ELSE "ok"
    [] OTHER -> "ok"

ControlFault(s, n) ==
  LET fs == script[s].frames
      bad == {i \in DOMAIN fs : FrameFault(i, fs[i], n, HeaderEnd(s, i), FrameEnd(s, i)) # "ok"}
  IN IF bad = {} THEN "ok"
     ELSE LET i == Min(bad) IN FrameFault(i, fs[i], n, HeaderEnd(s, i), FrameEnd(s, i))

KindOf(type) == CASE type = Control -> "control" [] type = Encoder -> "encoder"
                  [] type = Decoder -> "decoder" [] OTHER -> "ignored"

StreamFault(s, n, fin, ks) ==
  LET typed == Len(Varint(script[s].type, script[s].wide))
      kind == KindOf(script[s].type)
      inside == CASE kind = "control" -> ControlFault(s, n)
                  [] kind = "encoder" -> IF \E i \in typed + 1 .. n : Stream(s)[i] # CapacityZero THEN "encoder" ELSE "ok"
                  [] OTHER -> "ok"
  IN CASE n < typed -> "ok"
       [] script[s].type = Push \/ (Critical(kind) /\ kind \in ks) -> "creation"
       [] inside # "ok" -> inside
       [] fin /\ Critical(kind) -> "critical"
       [] OTHER -> "ok"

---------------------------------------------------------------------------
(* The code. *)

(* quicParseVarint: the value and the bytes it took, 0 when it is cut. *)
ParseVarint(b, i) ==
  CASE i > Len(b) -> <<0, 0>>
    [] b[i] # Wide -> <<b[i], 1>>
    [] i < Len(b) -> <<b[i + 1], 2>>
    [] OTHER -> <<0, 0>>

Close(code) == verdict' = IF verdict = "ok" THEN code ELSE verdict

(* assignPeerStreamType *)
Assigned(type) ==
  CASE type = Push \/ (Critical(KindOf(type)) /\ KindOf(type) \in seen) -> "creation"
    [] OTHER -> KindOf(type)

(* A stream's frame or reset arrives; the handshake may still be going on. *)
Arrive(s, n, fin) ==
  /\ ~asks /\ verdict = "ok" /\ cur = Idle /\ end[s] = "open"
  /\ got[s] + n <= Len(Stream(s)) /\ n + (IF fin THEN 1 ELSE 0) > 0
  /\ fin => script[s].ends = "fin" /\ got[s] + n = Len(Stream(s))
  /\ started => \A t \in Streams : read[t] = got[t] \/ end[t] = "reset"
  /\ got' = [got EXCEPT ![s] = @ + n] /\ end' = [end EXCEPT ![s] = IF fin THEN "fin" ELSE "open"]
  /\ UNCHANGED <<asks, script, read, peer, seen, cur, started, verdict, expected, sections, answer>>

(* peerStreamReset *)
PeerStreamReset(s) ==
  /\ ~asks /\ verdict = "ok" /\ cur = Idle /\ end[s] = "open" /\ script[s].ends = "reset"
  /\ end' = [end EXCEPT ![s] = "reset"]
  /\ IF started /\ Critical(peer[s].kind)
     THEN Close("critical") /\ expected' = "critical" /\ UNCHANGED peer
     ELSE peer' = [peer EXCEPT ![s] = NewPeer] /\ UNCHANGED <<verdict, expected>>
  /\ UNCHANGED <<asks, script, got, read, seen, cur, started, sections, answer>>

Unread(s) == got[s] > read[s] \/ end[s] = "fin"

(* start: what the streams hold so far is read, in the order of a Go map. *)
StartConn ==
  /\ ~asks /\ ~started /\ cur = Idle /\ started' = TRUE
  /\ UNCHANGED <<asks, script, got, read, end, peer, seen, cur, verdict, expected, sections, answer>>

(* readPeerStream takes what has arrived and, on an untyped stream, the type *)
(* once all of it is there.                                                  *)
Take(s) ==
  LET p == peer[s]
      data == p.pending \o SubSeq(Stream(s), read[s] + 1, got[s])
      type == ParseVarint(data, 1)
      kind == Assigned(type[1])
      known == p.kind # "untyped"
  IN /\ started /\ verdict = "ok" /\ cur = Idle /\ end[s] # "reset" /\ end[s] # "read" /\ Unread(s)
     /\ read' = [read EXCEPT ![s] = got[s]]
     /\ expected' = StreamFault(s, got[s], end[s] = "fin", seen \ {p.kind})
     /\ IF known THEN /\ cur' = [s |-> s, buf |-> SubSeq(Stream(s), read[s] + 1, got[s])]
                      /\ UNCHANGED <<peer, seen, verdict>>
        ELSE IF type[2] = 0 THEN /\ peer' = [peer EXCEPT ![s].pending = data] /\ cur' = [s |-> s, buf |-> <<>>]
                                 /\ UNCHANGED <<seen, verdict>>
        ELSE IF kind = "creation" THEN Close("creation") /\ UNCHANGED <<peer, seen, cur>>
        ELSE /\ peer' = [peer EXCEPT ![s].kind = kind, ![s].pending = <<>>]
             /\ seen' = IF Critical(kind) THEN seen \union {kind} ELSE seen
             /\ cur' = [s |-> s, buf |-> SubSeq(data, type[2] + 1, Len(data))] /\ UNCHANGED verdict
     /\ UNCHANGED <<asks, script, got, end, started, sections, answer>>

(* What follows the piece: a critical stream must not end. *)
Finish(p) ==
  /\ peer' = [peer EXCEPT ![cur.s] = p] /\ cur' = Idle
  /\ IF end[cur.s] # "fin" THEN UNCHANGED <<verdict, end>>
     ELSE IF Critical(p.kind) THEN Close("critical") /\ UNCHANGED end
     ELSE end' = [end EXCEPT ![cur.s] = "read"] /\ UNCHANGED verdict

Reading(kinds) == cur.s # 0 /\ peer[cur.s].kind \in kinds
Elsewhere == UNCHANGED <<asks, script, got, read, seen, started, expected, sections, answer>>

ConsumeOther ==
  /\ Reading({"untyped", "decoder", "ignored"}) /\ Finish(peer[cur.s]) /\ Elsewhere

ConsumeEncoder ==
  /\ Reading({"encoder"}) /\ Elsewhere
  /\ IF \E i \in DOMAIN cur.buf : cur.buf[i] # CapacityZero
     THEN Close("encoder") /\ cur' = Idle /\ UNCHANGED <<peer, end>>
     ELSE Finish(peer[cur.s])

(* consumeControlStream: first what an unknown frame still has to skip, then *)
(* the bytes kept from the piece before.                                     *)
SkipAll(p, data) == [p EXCEPT !.skip = 0]
Skip(p, data) == [p EXCEPT !.skip = IF Len(data) <= @ THEN @ - Len(data) ELSE 0]

ConsumeSkipped ==
  LET p == peer[cur.s]
  IN /\ Reading({"control"}) /\ p.skip > 0 /\ Elsewhere
     /\ IF Len(cur.buf) <= p.skip THEN Finish(Skip(p, cur.buf))
        ELSE /\ peer' = [peer EXCEPT ![cur.s] = Skip(p, cur.buf)]
             /\ cur' = [cur EXCEPT !.buf = SubSeq(@, p.skip + 1, Len(@))] /\ UNCHANGED <<verdict, end>>

ConsumePending ==
  LET p == peer[cur.s]
  IN /\ Reading({"control"}) /\ p.skip = 0 /\ p.pending # <<>> /\ Elsewhere
     /\ cur' = [cur EXCEPT !.buf = p.pending \o @] /\ peer' = [peer EXCEPT ![cur.s].pending = <<>>]
     /\ UNCHANGED <<verdict, end>>

(* What the header of a frame is refused for, before its payload is there. *)
HeaderFault(p, type, length) ==
  CASE ~p.settingsSeen /\ type # Settings -> "missing"
    [] type = Settings /\ p.settingsSeen -> "unexpected"
    [] type = Settings /\ length > MaxControlFramePayload -> "load"
    [] type \in PushIDTypes /\ length > MaxPushIDFramePayload -> "frame"
    [] type \in NotOnControl -> "unexpected"
    [] OTHER -> "ok"

PayloadFault(type, payload) ==
  IF type = Settings THEN SettingsFault(payload)
  ELSE LET v == ParseVarint(payload, 1) IN IF v[2] = 0 \/ v[2] # Len(payload) THEN "frame" ELSE "ok"

KeepNothing(p, buf) == [p EXCEPT !.pending = <<>>]
KeepPending(p, buf) == [p EXCEPT !.pending = buf]

(* One turn of the loop over the frames. *)
ConsumeFrame ==
  LET p == peer[cur.s]
      type == ParseVarint(cur.buf, 1)
      length == ParseVarint(cur.buf, 1 + type[2])
      header == type[2] + length[2]
      fault == HeaderFault(p, type[1], length[1])
      there == Len(cur.buf) - header
      payload == SubSeq(cur.buf, header + 1, header + length[1])
      rest == [cur EXCEPT !.buf = SubSeq(@, header + length[1] + 1, Len(@))]
  IN /\ Reading({"control"}) /\ p.skip = 0 /\ p.pending = <<>> /\ Elsewhere
     /\ IF type[2] = 0 \/ length[2] = 0 THEN Finish(KeepPending(p, cur.buf))
        ELSE IF fault # "ok" THEN Close(fault) /\ cur' = Idle /\ UNCHANGED <<peer, end>>
        ELSE IF type[1] \notin PushIDTypes \union {Settings}
             THEN IF there < length[1] THEN Finish([p EXCEPT !.skip = length[1] - there])
                  ELSE cur' = rest /\ UNCHANGED <<peer, verdict, end>>
        ELSE IF there < length[1] THEN Finish(KeepPending(p, cur.buf))
        ELSE IF PayloadFault(type[1], payload) # "ok"
             THEN Close(PayloadFault(type[1], payload)) /\ cur' = Idle /\ UNCHANGED <<peer, end>>
        ELSE /\ cur' = rest /\ peer' = [peer EXCEPT ![cur.s].settingsSeen = @ \/ type[1] = Settings]
             /\ UNCHANGED <<verdict, end>>

---------------------------------------------------------------------------
(* handleRequestStream over a complete request: HEADERS, DATA, trailers.     *)

(* decodeRequestSection: a section decoded before is not decoded again, and  *)
(* its size is checked against this server's limit all the same.             *)
SectionUnchecked(b, limit) == IF b \in sections \/ (b.valid /\ b.size <= limit) THEN "ok" ELSE "400"
RequestSection(b, limit) ==
  CASE b.size > limit -> "431" [] b \in sections \/ b.valid -> "ok" [] OTHER -> "400"

TrailerSection(b, limit) == CASE b.size > limit -> "431" [] b.trailer -> "ok" [] OTHER -> "400"

NotOnRequest == {Settings, 5} \union PushIDTypes \union ReservedTypes

Headers(a, b, limit) ==
  LET v == IF a.headers THEN TrailerSection(b, limit) ELSE RequestSection(b, limit)
  IN [a EXCEPT !.trailers = a.headers, !.headers = TRUE, !.out = IF v = "ok" THEN "open" ELSE v,
               !.put = IF v = "ok" /\ ~a.headers THEN {b} ELSE @]

FrameOf(a, f, limit) ==
  CASE a.out # "open" -> a
    [] f.type = HeadersType -> IF a.trailers THEN [a EXCEPT !.out = "close"] ELSE Headers(a, f.section, limit)
    [] f.type = DataType ->
         IF ~a.headers \/ a.trailers THEN [a EXCEPT !.out = "close"]
         ELSE [a EXCEPT !.body = @ + f.length, !.out = IF a.body + f.length > MaxBody THEN "413" ELSE "open"]
    [] f.type \in NotOnRequest -> [a EXCEPT !.out = "close"]
    [] OTHER -> a

HandleRequestStream(r, limit) ==
  LET start == [headers |-> FALSE, trailers |-> FALSE, body |-> 0, out |-> "open", put |-> {}]
      a == FoldLeft(LAMBDA x, f : FrameOf(x, f, limit), start, r.frames)
      answered == CASE a.out # "open" -> a.out
                    [] r.cut -> "close"
                    [] ~a.headers -> "400"
                    [] \E b \in a.put : ~b.path \/ b.declared \notin {-1, a.body} -> "400"
                    [] OTHER -> "served"
  IN [put |-> a.put, out |-> answered]

(* The reference: the first frame that is out of place decides. *)
RequestFault(r, limit) ==
  LET fs == r.frames
      heads(i) == {j \in DOMAIN fs : j <= i /\ fs[j].type = HeadersType}
      body(i) == FoldLeft(LAMBDA n, f : IF f.type = DataType THEN n + f.length ELSE n, 0, SubSeq(fs, 1, i))
      fault(i) == CASE fs[i].type = HeadersType ->
                         IF Cardinality(heads(i)) > 2 THEN "close"
                         ELSE IF fs[i].section.size > limit THEN "431"
                         ELSE IF IF i = Min(heads(i)) THEN fs[i].section.valid ELSE fs[i].section.trailer THEN "ok" ELSE "400"
                    [] fs[i].type = DataType -> IF Cardinality(heads(i)) # 1 THEN "close"
                                                ELSE IF body(i) > MaxBody THEN "413" ELSE "ok"
                    [] fs[i].type \in NotOnRequest -> "close"
                    [] OTHER -> "ok"
      bad == {i \in DOMAIN fs : fault(i) # "ok"}
      head == Min(heads(Len(fs)))
  IN CASE bad # {} -> fault(Min(bad))
       [] r.cut -> "close"
       [] heads(Len(fs)) = {} \/ ~fs[head].section.path -> "400"
       [] fs[head].section.declared \notin {-1, body(Len(fs))} -> "400"
       [] OTHER -> "served"

Serve(r, limit) ==
  LET h == HandleRequestStream(r, limit)
  IN /\ asks /\ answer' = <<h.out, RequestFault(r, limit)>> /\ sections' = sections \union h.put
     /\ UNCHANGED <<asks, script, got, read, end, peer, seen, cur, started, verdict, expected>>

Next == \/ \E s \in Streams, n \in Pieces, fin \in BOOLEAN : Arrive(s, n, fin)
        \/ \E s \in Streams : PeerStreamReset(s) \/ Take(s)
        \/ StartConn \/ ConsumeOther \/ ConsumeEncoder \/ ConsumeSkipped \/ ConsumePending \/ ConsumeFrame
        \/ \E r \in Requests, limit \in Limits : Serve(r, limit)

Spec == Init /\ [][Next]_vars

---------------------------------------------------------------------------
(* Where every stream stands. *)
TypeOK == /\ \A s \in Streams : read[s] <= got[s] /\ got[s] <= Len(Stream(s)) /\ peer[s].skip >= 0
          /\ seen \subseteq {"control", "encoder", "decoder"}

(* However the peer's streams are cut into pieces, and whatever had arrived  *)
(* before the handshake ended, the connection is closed for exactly what is  *)
(* wrong with the bytes read, as soon as it can be told, and never for a     *)
(* correct stream (consumePeerStream, consumeControlStream).                 *)
JudgedAsWhole == cur = Idle => verdict = expected

(* A request's frames are answered alike whoever sent the same field section *)
(* before: a section remembered from a server with a larger limit is still   *)
(* too large here (handleRequestStream, decodeRequestSection).               *)
RequestsJudged == answer[1] = answer[2]
=============================================================================
