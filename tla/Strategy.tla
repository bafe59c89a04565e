------------------------------ MODULE Strategy ------------------------------
(***************************************************************************)
(* The strategies of src/strategy.cpp on one TCP segment: StrategyPipeline *)
(* runs its stages until one handles the segment, and the engine injects   *)
(* what the OutQueue holds (the segment itself if no stage did).  The      *)
(* client's next segment is handled by another worker, so that it may      *)
(* leave earlier, and the client repeats what the server does not get.  A  *)
(* network, external, reorders and loses packets.                          *)
(*                                                                         *)
(* Bytes.  Byte k > 0 is the k-th byte of the client's stream, the segment *)
(* first, -k that byte in the other letter case, Inserted one a strategy   *)
(* adds on purpose (a record header, a space), Garbage a random one.       *)
(* Offsets in the code count from 0, so the code's payload[0 .. off) is    *)
(* SubSeq(Payload, 1, off).  Sizes are scaled: a segment has tens of bytes *)
(* and kMaxMtu follows; the literals of the code stay.                     *)
(*                                                                         *)
(* Packets.  The segment's lengths agree (module PacketView); a longer one *)
(* than kMaxMtu is one that segmentation offload will cut.  The driver     *)
(* sends what it is given: emit() tells it to leave the checksums alone.   *)
(* A decoy's TTL ends before the server (what fake_ttl is for).            *)
(*                                                                         *)
(* A definition marked "mutant" is a faulty variant of the one after it;   *)
(* nothing uses it but the mutation runs listed in PROJECT.json.           *)
(*                                                                         *)
(* Bounds: Segments, Params and Pipelines are small sets, the next segment *)
(* has one of the lengths NextLens, and MaxLosses packets get lost.        *)
(***************************************************************************)
EXTENDS PacketBuilder, FiniteSets

CONSTANTS Segments, Params, Pipelines, NextLens, MaxLosses

Inserted == 0
Garbage  == 1000000

TlsInfo  == [present : BOOLEAN, record_end : Nat, sni_off : Nat, sni_len : Nat]
HttpInfo == [present : BOOLEAN, header_off : Nat, header_len : Nat, value_off : Nat]
\* sniffed: it looks like a handshake or a request.
Segment  == [ip : Captured, sniffed : BOOLEAN, tls : TlsInfo, http : HttpInfo]
Mode     == {"midsni", "presni", "first", "fixed"}
Param    == [mode : Mode, fixed : Nat, fake_ttl : Int, fake_repeat : Int,
             mangle_case : BOOLEAN, extra_space : BOOLEAN, split_url : BOOLEAN,
             zero_window : BOOLEAN, flow_tracking : BOOLEAN]
Name     == {"tls-split", "tls-frag", "fake-ttl", "http-mangle", "disorder", "oob",
             "md5-opt", "zero-window", "wrong-chksum"}
NoName   == "none"

\* What the parsers promise of the name they found: it lies behind the record header
\* (NameInsideHello of Inspection), or behind the colon of a line that the segment
\* completes (http.cpp:84-118).
Located(s) ==
    /\ s.tls.sni_len > 0 => s.tls.sni_off > 5
    /\ s.http.header_len > 0 => /\ s.http.header_off + s.http.header_len < s.http.value_off
                                /\ s.http.value_off < payload_size(s.ip)

\* A packet of the size of the buffer has room for the headers and some payload.
ASSUME StrategyAssumption ==
    /\ Segments \subseteq Segment /\ Params \subseteq Param
    /\ \A s \in Segments : /\ WellFormed(s.ip) /\ Upper(s.ip) = TCP
                           /\ payload_size(s.ip) > 0 /\ Located(s)
                           /\ reset(s.ip).ip_hdr_len + reset(s.ip).tcp_hdr_len < kMaxMtu
    /\ Pipelines \subseteq Seq(Name)
    /\ NextLens \subseteq 1 .. MaxUint16 /\ MaxLosses \in Nat

VARIABLES
    seg, view,          \* the segment and the worker's view of it
    p, pipeline,        \* the parameters, the stages
    nextLen,            \* the length of the client's next segment
    i,                  \* the stage to run next
    out,                \* the OutQueue
    handled,            \* the stage that handled the segment
    sent, wire,         \* packets injected, and which of them are under way
    got,                \* the server's stream: byte by position
    losses
context == <<seg, view, p, pipeline, nextLen>>
runVars == <<i, out, handled>>
netVars == <<sent, wire, got, losses>>
vars == <<context, runVars, netVars>>
-----------------------------------------------------------------------------
(* Helpers shared by the strategies *)

pl      == payload_in(seg.ip, view)
Payload == [k \in 1 .. pl |-> k]
copy    == from_view(seg.ip, view, Payload)

Larger(a, b)  == IF a > b THEN a ELSE b

Random(n)  == [k \in 1 .. n |-> Garbage]
build_fake == recompute(replace_payload(set_ttl(copy), Random(pl)))
Fakes(n)   == [k \in 1 .. n |-> build_fake]
decoys     == IF p.fake_ttl = 0 THEN <<>> ELSE Fakes(Larger(1, p.fake_repeat))
one_decoy  == IF p.fake_ttl = 0 THEN <<>> ELSE Fakes(1)
real       == recompute(copy)
\* The size of the packet.
Whole      == view.ip_hdr_len + view.tcp_hdr_len + pl

\* The two halves of the payload s of x, of which v is the view, for off in 1 .. Len(s) - 1.
split_payload_noseq(x, v, s, off) ==                                   \* mutant
    << recompute(replace_payload(from_view(x, v, s), SubSeq(s, 1, off))),
       recompute(replace_payload(from_view(x, v, s), SubSeq(s, off + 1, Len(s)))) >>
split_payload(x, v, s, off) ==
    << recompute(replace_payload(from_view(x, v, s), SubSeq(s, 1, off))),
       recompute(replace_payload(set_seq(from_view(x, v, s), off),
                                 SubSeq(s, off + 1, Len(s)))) >>
-----------------------------------------------------------------------------
(* The pipeline and its stages *)

Running == handled = NoName /\ sent = <<>> /\ i <= Len(pipeline)
Stage(name) == Running /\ pipeline[i] = name

\* apply() returns false, having put "added" into the queue, or true.
Declines(added) == /\ out' = out \o added
                   /\ i' = i + 1
                   /\ UNCHANGED <<context, handled, netVars>>
Handles(added)  == /\ out' = out \o added
                   /\ handled' = pipeline[i]
                   /\ UNCHANGED <<context, i, netVars>>

\* The stage is for traffic of another kind.
Skip == /\ \/ Stage("tls-split") /\ ~seg.tls.present
           \/ Stage("tls-frag") /\ ~seg.tls.present
           \/ Stage("http-mangle") /\ ~seg.http.present
        /\ Declines(<<>>)

choose_split_late(t) == t.sni_off + t.sni_len                       \* mutant
choose_split_offset(t) ==
    CASE p.mode = "fixed" -> p.fixed
      [] p.mode = "first" -> 1
      [] p.mode \in {"midsni", "presni"} /\ t.sni_len = 0 ->
             IF t.record_end > 8 THEN t.record_end \div 2 ELSE 0
      [] p.mode = "presni" /\ t.sni_len > 0 -> t.sni_off
      [] p.mode = "midsni" /\ t.sni_len > 0 -> t.sni_off + t.sni_len \div 2

\* The decoys are in the queue before the split is tried.
TlsSplit == /\ Stage("tls-split") /\ seg.tls.present
            /\ LET off == choose_split_offset(seg.tls)
               IN  \/ off = 0 /\ Declines(<<>>)
                   \/ off >= pl /\ Declines(decoys)
                   \/ off \in 1 .. pl - 1
                      /\ LET halves == split_payload(seg.ip, view, Payload, off)
                             first  == IF p.zero_window
                                       THEN recompute(set_tcp_window(halves[1]))
                                       ELSE halves[1]
                         IN  Handles(decoys \o <<first, halves[2]>>)

\* Two records out of the record's body, each with a new header of five bytes.
record(s) == [k \in 1 .. 5 |-> Inserted] \o s
Cut(body_len) ==
    IF seg.tls.sni_off \in 5 .. seg.tls.record_end - 1
    THEN Smaller(Larger(seg.tls.sni_off - 5, 1), body_len - 1)
    ELSE body_len \div 2
rebuilt(body, rest) ==
    record(SubSeq(body, 1, Cut(Len(body))))
    \o record(SubSeq(body, Cut(Len(body)) + 1, Len(body))) \o rest

TlsRecordFrag ==
    /\ Stage("tls-frag") /\ seg.tls.present
    /\ LET end   == seg.tls.record_end
           whole == rebuilt(SubSeq(Payload, 6, end), SubSeq(Payload, end + 1, pl))
           fits  == end >= 9 /\ end <= pl /\ Len(whole) <= kMaxMtu - 60
       IN  \/ ~fits /\ Declines(<<>>)
           \/ fits /\ Handles(Append(decoys, recompute(replace_payload(copy, whole))))

FakeTtl == /\ Stage("fake-ttl")
           /\ \/ p.fake_ttl = 0 /\ Declines(<<>>)
              \/ p.fake_ttl # 0 /\ Handles(Append(decoys, real))

\* The field name "Host" becomes "hOsT"; a space after the colon if there is none.
mangled == LET h == seg.http
               from == h.header_off + 1
           IN  [k \in 1 .. pl |->
                  IF p.mangle_case /\ k \in {from, from + 1, from + 3} THEN -k ELSE k]
spaced(s) == LET at == seg.http.header_off + seg.http.header_len + 1
             IN  IF p.extra_space /\ seg.http.value_off <= at
                 THEN SubSeq(s, 1, at) \o <<Inserted>> \o SubSeq(s, at + 1, Len(s))
                 ELSE s

HttpHostMangle ==
    /\ Stage("http-mangle") /\ seg.http.present
    /\ LET buf == spaced(mangled)
           b   == recompute(replace_payload(copy, buf))
           off == IF p.split_url /\ seg.http.value_off > 1 THEN seg.http.value_off ELSE 0
       IN  \/ seg.http.header_len = 0 /\ Declines(<<>>)
           \/ /\ seg.http.header_len > 0
              /\ p.extra_space /\ Len(buf) > pl /\ Len(buf) > kMaxMtu
              /\ Declines(<<>>)
           \/ /\ seg.http.header_len > 0
              /\ ~(p.extra_space /\ Len(buf) > pl /\ Len(buf) > kMaxMtu)
              /\ IF off \in 1 .. payload_size(parsed(b)) - 1 /\ off < Len(buf)
                 THEN Handles(decoys \o split_payload(parsed(b), reset(parsed(b)), b.body, off))
                 ELSE Handles(Append(decoys, b))

backwards_half(s) == <<s[2]>>                                       \* mutant
backwards(s)      == <<s[2], s[1]>>

Disorder ==
    /\ Stage("disorder")
    /\ LET off == IF seg.tls.present /\ seg.tls.sni_len > 0
                  THEN choose_split_offset(seg.tls) ELSE pl \div 2
       IN  \/ pl < 4 /\ Declines(<<>>)
           \/ pl >= 4 /\ off \notin 1 .. pl - 1 /\ Declines(<<>>)
           \/ /\ pl >= 4 /\ off \in 1 .. pl - 1
              /\ Handles(one_decoy \o backwards(split_payload(seg.ip, view, Payload, off)))

\* One random byte with the URG flag, at the segment's own sequence number and
\* with its own TTL, in front of the segment.
Oob == /\ Stage("oob") /\ pl > 0
       /\ Handles(<<recompute(set_tcp_flags(replace_payload(copy, Random(1)))), real>>)

Md5FakeOption ==
    /\ Stage("md5-opt") /\ pl > 0
    /\ LET fake == replace_payload(set_ttl(copy), Random(16))
       IN  Handles(<<recompute(append_tcp_option(fake, 16)), real>>)

ZeroWindow == /\ Stage("zero-window")
              /\ Handles(Append(one_decoy, recompute(set_tcp_window(copy))))

WrongChecksum == /\ Stage("wrong-chksum") /\ pl > 0
                 /\ Handles(<<[build_fake EXCEPT !.checksum = "bad"], real>>)

run == Skip \/ TlsSplit \/ TlsRecordFrag \/ FakeTtl \/ HttpHostMangle \/ Disorder
       \/ Oob \/ Md5FakeOption \/ ZeroWindow \/ WrongChecksum
-----------------------------------------------------------------------------
(* The engine's injection, the network, the client and the server *)

Original  == [copy EXCEPT !.body = Payload, !.checksum = "good"]
\* The client's next segment, which has nothing to handle.
Following == [copy EXCEPT !.seq = pl, !.body = [k \in 1 .. nextLen |-> pl + k],
                          !.checksum = "good"]

Inject(packets) == /\ sent' = Append(packets, Following)
                   /\ wire' = 1 .. Len(packets) + 1
                   /\ UNCHANGED <<context, runVars, got, losses>>
SendHandled  == handled # NoName /\ sent = <<>> /\ Inject(out)
SendOriginal == /\ handled = NoName /\ i > Len(pipeline) /\ sent = <<>>
                /\ Inject(<<Original>>)

\* The server takes what arrives first; it drops what is not valid for it.
accepted(b) == b.ttl = "own" /\ b.checksum = "good" /\ ~b.md5
Covers(b)    == b.seq + 1 .. b.seq + Len(b.body)
ByteAt(b, n) == b.body[n - b.seq]
Deliver(k) ==
    /\ k \in wire /\ wire' = wire \ {k}
    /\ got' = IF accepted(sent[k])
              THEN [n \in DOMAIN got \cup Covers(sent[k]) |->
                      IF n \in DOMAIN got THEN got[n] ELSE ByteAt(sent[k], n)]
              ELSE got
    /\ UNCHANGED <<context, runVars, sent, losses>>

Lose(k) == /\ k \in wire /\ losses < MaxLosses
           /\ wire' = wire \ {k} /\ losses' = losses + 1
           /\ UNCHANGED <<context, runVars, sent, got>>

Acknowledged == 1 .. pl + nextLen \subseteq DOMAIN got

\* worker_loop marks the flow of a segment that a stage handled.
Tracked == p.flow_tracking /\ seg.sniffed
\* What becomes of the segment when the client repeats it: as it is if its flow is
\* marked, or if no stage handles it; else the pipeline does again what it did the first
\* time.  One that was too long is repeated in pieces that are not.
Repeated_unmarked ==                                                \* mutant
    IF handled = NoName THEN <<Original>> ELSE out
Repeated == IF handled = NoName \/ Tracked \/ Whole > kMaxMtu
            THEN <<Original>> ELSE out
Timeout == sent # <<>> /\ wire = {} /\ ~Acknowledged
Retransmit == Timeout /\ Inject(Repeated)

Init == /\ seg \in Segments /\ view = reset(seg.ip) /\ p \in Params /\ pipeline \in Pipelines
        /\ nextLen \in NextLens /\ i = 1 /\ out = <<>> /\ handled = NoName
        /\ sent = <<>> /\ wire = {} /\ got = <<>> /\ losses = 0

Next == \/ run \/ SendHandled \/ SendOriginal \/ Retransmit
        \/ \E k \in wire : Deliver(k) \/ Lose(k)

\* The worker goes on, the network delivers in the end, and the client's timer fires:
\* weak fairness of each, with its ENABLED written out, which TLC is slow to find.
Worker == run \/ SendHandled \/ SendOriginal
Fairness == /\ []<>(sent # <<>>) \/ []<><<Worker>>_vars
            /\ []<>(wire = {}) \/ []<><<\E k \in wire : Deliver(k)>>_vars
            /\ []<>~Timeout \/ []<><<Retransmit>>_vars
Spec == Init /\ [][Next]_vars /\ Fairness
-----------------------------------------------------------------------------
\* Type invariant, with the size of the OutPacket buffer (strategy.hpp:28-30).
TypeOK ==
    /\ seg \in Segments /\ view = reset(seg.ip) /\ p \in Params /\ pipeline \in Pipelines
    /\ nextLen \in NextLens /\ i \in 1 .. Len(pipeline) + 1 /\ handled \in Name \cup {NoName}
    /\ out \in Seq(Builder) /\ sent \in Seq(Builder)
    /\ \A k \in DOMAIN out : size(out[k]) <= kMaxMtu
    /\ wire \subseteq DOMAIN sent
    /\ losses \in 0 .. MaxLosses

Magnitude(b) == IF b < 0 THEN -b ELSE b
Kept == {n \in DOMAIN got : got[n] \notin {Inserted, Garbage}}
InOrder == \A m, n \in Kept : m < n => Magnitude(got[m]) < Magnitude(got[n])
\* All that was injected first has arrived.
Arrived == /\ sent # <<>> /\ wire = {} /\ losses = 0
           /\ sent = Append(IF handled = NoName THEN <<Original>> ELSE out, Following)

\* The checksum is not computed behind an IPv6 extension header.
Extended == header(seg.ip, 1).kind # TCP
TooLong  == Whole > kMaxMtu
\* What a builder leaves of a segment that is too long; the bytes it cuts off.
Room     == kMaxMtu - (view.ip_hdr_len + view.tcp_hdr_len)
CutOff   == IF handled # NoName THEN Room + 1 .. pl ELSE {}
\* A second half that does not fit into the buffer: it keeps the segment's beginning.
SecondHalfRefused ==
    handled \in {"tls-split", "disorder"} /\ ~Extended
    /\ \E k \in DOMAIN out : out[k].seq > 0 /\ Whole - out[k].seq > kMaxMtu

\* The bytes a strategy may keep from the server: the record header tls-frag writes
\* anew, and the byte the random one of oob overlaps.
first == CASE handled = "tls-frag" -> 6 [] handled = "oob" -> 2 [] OTHER -> 1
\* What it inserts lies on the sequence numbers of the bytes behind it.
Ends   == {out[k].seq + Len(out[k].body) : k \in {n \in DOMAIN out : accepted(out[n])}}
Growth == Larger(0, Max(Ends \cup {0}) - pl)

\* A next segment that is shorter than that has arrived first: what was added ends
\* behind it.
ShortOvertakes == nextLen < Growth /\ pl + 1 \in DOMAIN got /\ got[pl + 1] = pl + 1

\* No random byte in the server's stream but the one of oob, which can take the place of
\* the first byte and of no other (strategy.cpp:388-389 relies on receivers that discard
\* it).
NoGarbage == \A n \in DOMAIN got : got[n] = Garbage => handled = "oob" /\ n = 1

\* What the server has of the client's stream is in the client's order, with no random
\* byte among it, whatever a strategy did to the segment.  It fails: "Buffer is resized
\* as needed" (packet.hpp:131), but replace_payload() ignores a second half that does not
\* fit into the buffer (packet.cpp:215), and split_payload() goes on with the beginning of
\* the segment at the second half's sequence number (strategy.cpp:81-98).
ServerGetsOriginal == NoGarbage /\ InOrder

\* The same of all the strategies, with reordering, losses and repetitions, but for the
\* two cases that the violation runs show: a second half that replace_payload() refused,
\* and a next segment that is shorter than the header tls-frag adds and overtakes it.
StreamInOrder == NoGarbage /\ (InOrder \/ SecondHalfRefused \/ ShortOvertakes)


\* A handled segment is replaced by all of itself (strategy.hpp:81-84: the engine does
\* not send the original): if nothing got lost, what is missing of the segment and of the
\* next one is no more than a strategy inserts, five bytes for tls-frag, one for
\* http-mangle, none for the others, and what a builder cuts off a segment that is longer
\* than its buffer.  Not all of this is as the code says: a copy that was cut is not "the
\* original unchanged" (strategy.cpp:245), nor are tls-frag's five bytes "preserved"
\* (strategy.cpp:147-148).  And it says nothing where a second half was refused, nor of a
\* segment behind an IPv6 extension header, whose changed copies have a bad checksum.
NothingMissing ==
    Arrived /\ ~SecondHalfRefused /\ ~(Extended /\ handled # NoName) =>
        LET missing == first .. pl + nextLen \ {Magnitude(got[n]) : n \in DOMAIN got}
        IN  /\ Cardinality(missing \ CutOff) <= Smaller(Growth, nextLen)
            /\ Growth <= (CASE handled = "tls-frag"    -> 5
                            [] handled = "http-mangle" -> 1
                            [] OTHER                   -> 0)

\* "such that the SNI hostname spans the boundary" (tls.hpp:45-47): with midsni and
\* a hostname of two bytes or more, no piece of a split holds all of it, provided
\* that the second half fits into the buffer: else replace_payload() leaves it the
\* beginning of the segment, with the hostname (the cause of ServerGetsOriginal's
\* violation), as it leaves a decoy of a segment that is too long.  "DPIs that peek only
\* at the first record no longer see the SNI" (strategy.cpp:147-149): the first record
\* of tls-frag has no byte of it when the hostname does not start the record's body,
\* provided that the headers leave room for the longer payload: else the record is sent
\* as it was.
sni == seg.tls.sni_off + 1 .. seg.tls.sni_off + seg.tls.sni_len
SecondHalfFits == Whole - choose_split_offset(seg.tls) <= kMaxMtu
HostnameIsHidden ==
    seg.tls.present =>
        /\ /\ handled \in {"tls-split", "disorder"} /\ SecondHalfFits
           /\ p.mode = "midsni" /\ seg.tls.sni_len >= 2
           => \A k \in DOMAIN out :
                 out[k].ttl = "own" \/ ~TooLong
                 => ~(sni \subseteq {out[k].body[n] : n \in DOMAIN out[k].body})
        /\ handled = "tls-frag" /\ Whole + 5 <= kMaxMtu =>
             \A n \in 6 .. 5 + Cut(seg.tls.record_end - 5) : out[Len(out)].body[n] \notin sni

\* Whatever is in the queue, its receiver reads the headers and the payload that the
\* strategy meant: total length and data offset follow every change (packet.cpp:204-291).
EmittedParsesBack ==
    \A k \in DOMAIN out :
        LET b == out[k]
            v == reset(parsed(b))
        IN  /\ v.valid /\ v.ip_proto = TCP
            /\ v.ip_hdr_len = b.ip_hdr_len /\ v.tcp_hdr_len = b.tcp_hdr_len
            /\ payload_size(parsed(b)) = Len(b.body)

\* Every byte position of the segment and of the next one is acknowledged in the end,
\* whatever gets lost: what the strategies do to the segment, even if the server rejects
\* all of it, happens once per marked flow, and the repetition is the original
\* (engine.cpp:171-184, 196).  It is not where the flow is not marked, since the segment
\* is neither handshake nor request or since flow_tracking is off (config.cpp:69, 319),
\* and the changed packets never get a good checksum (packet.cpp:298).
StreamCompletes ==
    <>(\/ Acknowledged
       \/ Extended /\ ~Tracked
          /\ handled \in {"tls-split", "tls-frag", "http-mangle", "disorder", "zero-window"})
=============================================================================
