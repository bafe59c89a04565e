----------------------------- MODULE Inspection -----------------------------
(***************************************************************************)
(* What Engine::start and worker_loop of src/engine.cpp make of one packet *)
(* before the flow table and the pipeline: the list of domains is loaded,  *)
(* a packet is captured, parsed (TlsParse, HttpParse), its host name taken *)
(* to the domain filter (DomainFilter), and the packet dropped, passed on  *)
(* or handed to the strategies.                                            *)
(*                                                                         *)
(* A packet is its headers (PacketView), outbound or not, a reset or not,  *)
(* with a payload: none, a TLS handshake (a hello of TlsParse) or text     *)
(* (symbols of HttpParse).  Host names are sequences of DomainFilter's     *)
(* characters.                                                             *)
(*                                                                         *)
(* A definition marked "mutant" is a faulty variant of the one after it;   *)
(* nothing uses it but the mutation runs listed in PROJECT.json.           *)
(*                                                                         *)
(* Bounds: TrafficOf[n], sets of packets an instance captures with n lines *)
(* loaded, and the bounds of DomainFilter.                                 *)
(***************************************************************************)
EXTENDS DomainFilter, TlsParse, HttpParse, PacketView

CONSTANTS TrafficOf, RstDrop

NoPayload == [type |-> "none"]
Tls(h)  == [type |-> "tls", hello |-> h]
Text(v) == [type |-> "text", text |-> v]
Packet(y) == [ip : Captured, outbound : BOOLEAN, rst : BOOLEAN, payload : {y}]
SizeOf(y) == CASE y.type = "none" -> 0
               [] y.type = "tls"  -> y.hello.size
               [] y.type = "text" -> Len(y.text)

ASSUME InspectionAssumption ==
    /\ RstDrop \in BOOLEAN
    /\ DOMAIN TrafficOf = 0 .. MaxRules
    /\ \A m \in DOMAIN TrafficOf : \A S \in TrafficOf[m] : \A x \in S :
         /\ x \in Packet(x.payload) /\ SizeOf(x.payload) = payload_size(x.ip)
         /\ \/ x.payload = NoPayload
            \/ x.payload.type = "tls" /\ x.payload.hello \in Hello(Seq(Char))
            \/ x.payload.type = "text" /\ x.payload.text \in Seq(Char)

VARIABLES
    packet,         \* the packet in the worker's buffer
    tls, http,      \* ti and hi
    verdict         \* what became of the packet, "none" while it is not decided
workVars == <<packet, tls, http, verdict>>
allVars  == <<vars, workVars>>

NoPacket == [type |-> "no packet"]
NoTls    == Info(FALSE, 0, 0, <<>>)
-----------------------------------------------------------------------------
LoadLine(line) == packet = NoPacket /\ load_line(line) /\ UNCHANGED workVars

recv == /\ packet = NoPacket
        /\ \E S \in TrafficOf[Len(rules)] : packet' \in S
        /\ UNCHANGED <<vars, tls, http, verdict>>

Busy == packet # NoPacket /\ verdict = "none"
Decide(v) == verdict' = v /\ UNCHANGED <<vars, packet>>

PassUnparsed == /\ Busy /\ ~is_tcp(packet.ip)
                /\ Decide("passed") /\ UNCHANGED <<tls, http>>

DropReset == /\ Busy /\ is_tcp(packet.ip) /\ RstDrop /\ ~packet.outbound /\ packet.rst
             /\ Decide("dropped") /\ UNCHANGED <<tls, http>>

PassInboundOrEmpty ==
    /\ Busy /\ is_tcp(packet.ip)
    /\ ~(RstDrop /\ ~packet.outbound /\ packet.rst)
    /\ payload_size(packet.ip) = 0 \/ ~packet.outbound
    /\ Decide("passed") /\ UNCHANGED <<tls, http>>

\* is_tls, is_http and the two parsers.
sniff_tls(y) == y.type = "tls" /\ looks_like_tls_handshake(y.hello)
ParsedTls(y)  == IF sniff_tls(y) THEN parse_client_hello(y.hello) ELSE NoTls
ParsedHttp(y) == IF y.type = "text" THEN parse_request(y.text) ELSE NoRequest

\* The host name of the packet: the one of the hello before that of the request.
host_name(t, h) == IF t.present /\ t.hostname # <<>> THEN t.hostname
                   ELSE IF h.present THEN h.hostname ELSE <<>>
allowed_any(name) == should_apply(name)                             \* mutant
allowed(name) == \/ mode_ = "Off"
                 \/ name = <<>> /\ mode_ = "Blocklist"
                 \/ name # <<>> /\ should_apply(name)

Inspect == /\ Busy /\ is_tcp(packet.ip) /\ packet.outbound /\ payload_size(packet.ip) # 0
           /\ tls' = ParsedTls(packet.payload) /\ http' = ParsedHttp(packet.payload)
           /\ Decide(IF allowed(host_name(tls', http')) THEN "pipeline" ELSE "passed")
-----------------------------------------------------------------------------
InspectInit == /\ Init /\ packet = NoPacket
               /\ tls = NoTls /\ http = NoRequest /\ verdict = "none"

InspectNext == \/ \E line \in Lines : LoadLine(line)
               \/ recv \/ PassUnparsed \/ DropReset \/ PassInboundOrEmpty \/ Inspect

InspectSpec == InspectInit /\ [][InspectNext]_allVars
-----------------------------------------------------------------------------
\* Every packet whose lengths agree is understood as its sender meant it, up to the
\* seven extension headers the view has patience for; and whatever the fields claim, the
\* headers of a valid view lie in the captured bytes (packet.cpp:19-100, 169-192).  The
\* payload need not: payload_size() goes by the total length alone, so that valid() holds
\* of a packet whose payload reaches past what was captured, although "all lookups are
\* bounds-checked" (packet.hpp:34).
PacketIsUnderstood ==
    packet # NoPacket =>
        LET x == packet.ip
            v == reset(x)
        IN  /\ WellFormed(x) /\ Len(x.chain) <= 8 =>
                 /\ v.valid /\ v.ip_proto = Upper(x) /\ v.ip_hdr_len = IpHeader(x)
                 /\ Upper(x) = TCP => payload_size(x) = x.size - IpHeader(x) - 4 * x.doff
                 /\ Upper(x) = UDP => udp_payload_size(x) = x.size - IpHeader(x) - 8
            /\ v.valid => v.ip_hdr_len + v.tcp_hdr_len <= x.size

\* While the list is loaded, MatchesByLabels (DomainFilter).
ListMatchesByLabels == packet = NoPacket => MatchesByLabels

Inspected == packet # NoPacket /\ is_tcp(packet.ip) /\ packet.outbound /\ verdict # "none"
hello == packet.payload.hello
text  == packet.payload.text

\* A hello that is complete in its segment is found, with the host name and the place
\* of the name its client wrote, whatever the extensions before and behind it and the
\* bytes behind the record (tls.cpp:19-106).
HelloIsRead ==
    Inspected /\ packet.payload.type = "tls" /\ Written(hello) =>
        /\ tls.present /\ tls.hostname = NameOf(hello)
        /\ NameOf(hello) # <<>> => tls.sni_off = hs_end(hello) - Behind(hello)

\* Whatever its lengths claim, a hello gives no host name from outside of itself or of
\* the segment; and none from beyond the record, which tls-frag cuts by record_end, unless its own
\* length is longer than the record's (tls.cpp:33, 39, 62, 79, 92; strategy.cpp:174).
NameInsideHello ==
    tls.sni_len > 0 =>
        /\ tls.sni_off >= ext_begin(hello) /\ tls.sni_off + tls.sni_len <= hs_end(hello)
        /\ tls.sni_off + tls.sni_len <= hello.size
        /\ tls.sni_off + tls.sni_len > tls.record_end => hello.hs_len + 4 > hello.rec_len

\* Of a request whose request line is in the segment, the parser finds the first Host
\* line of the head and no other, not in the body and not behind a broken line; it
\* does not commit itself if the segment ends in a field (http.cpp:51-125).
HostIsFound ==
    Inspected /\ packet.payload.type = "text" /\ RequestLine(text) =>
        LET s == Min(HostLines(text))
            value == trim(SubSeq(text, s + 2, FirstEnd(text, s) - 1))
        IN  IF HostLines(text) = {}
            THEN http.present = ~OpenField(text) /\ http.header_len = 0
            ELSE /\ http.present /\ http.header_off = s - 1 /\ http.hostname = value
                 /\ value # <<>> =>
                      value = SubSeq(text, http.value_off + 1, http.value_off + Len(value))

\* The name on the wire, where a segment has one that is complete.
TrueHost(y) ==
    CASE y.type = "tls" /\ Written(y.hello) -> NameOf(y.hello)
      [] y.type = "text" /\ RequestLine(y.text) /\ HostLines(y.text) # {} ->
             LET s == Min(HostLines(y.text))
             IN  trim(SubSeq(y.text, s + 2, FirstEnd(y.text, s) - 1))
      [] OTHER -> <<>>
\* A packet whose host name the rules exclude never meets a strategy, and one whose name
\* they include always does; without a name the mode decides (engine.cpp:126-146).  A
\* hello that its segment does not complete has no name here, and no rule is about the
\* literals with several colons.
StrategiesMeetTheRules ==
    Inspected /\ packet.payload # NoPayload
    /\ (packet.payload.type = "tls" => Written(hello))
    /\ (packet.payload.type = "text" => RequestLine(text)) =>
        LET name == TrueHost(packet.payload)
        IN  OneColon(name) \/ rules = <<>> =>
              (verdict = "pipeline" <=> \/ mode_ = "Off"
                                        \/ name = <<>> /\ mode_ = "Blocklist"
                                        \/ name # <<>> /\ Decision(NoPort(name)))
=============================================================================
