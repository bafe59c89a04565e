----------------------------- MODULE PacketView -----------------------------
(***************************************************************************)
(* PacketView of src/packet.cpp: what the headers of a captured packet say *)
(* of its protocol and of its payload.                                     *)
(*                                                                         *)
(* A packet is the fields the view reads, any of which may lie, and its    *)
(* size, the number of bytes captured.  The chain is the protocol of an    *)
(* IPv4 packet, or the headers behind the fixed one of an IPv6 packet with *)
(* their length bytes, the upper layer last; behind it there is nothing.   *)
(*                                                                         *)
(* A definition marked "mutant" is a faulty variant of the one after it;   *)
(* nothing uses it but the mutation runs listed in PROJECT.json.           *)
(***************************************************************************)
EXTENDS Naturals, Sequences, FiniteSetsExt, Sums

TCP == 6
UDP == 17
FRAGMENT == 44
AH == 51
NoNext == 59
Extensions == {0, 43, 60, AH}

MaxUint16 == 65535

NextHeader == [kind : 0 .. 255, len : 0 .. 255]
Captured == [ver : 0 .. 15, ihl : 0 .. 15, chain : Seq(NextHeader),
             length : 0 .. MaxUint16, doff : 0 .. 15, udp_len : 0 .. MaxUint16,
             size : Nat]
-----------------------------------------------------------------------------
header(x, k) == IF k \in DOMAIN x.chain THEN x.chain[k] ELSE [kind |-> NoNext, len |-> 0]
hlen_bytes(h) == (h.len + 1) * 8                                    \* mutant
hlen(h) == IF h.kind = AH THEN (h.len + 2) * 4 ELSE (h.len + 1) * 8
extends(h) == h.kind \in Extensions

\* Where the k-th header of the chain starts.
chain_off(x, k) == 40 + SumUpTo([j \in Nat |-> hlen(header(x, j))], k - 1)

NoHeader == [len |-> 0, proto |-> 0]

\* Eight headers are looked at.  0 for a fragment, for an extension that was not
\* captured, and for a chain that does not end in time.
parse_ipv6_chain(x) ==
    LET captured(k) == chain_off(x, k) + 8 <= x.size /\ chain_off(x, k + 1) <= x.size
        ends == {k \in 1 .. 8 : ~(extends(header(x, k)) /\ captured(k))}
        last == header(x, Min(ends))
    IN  IF x.size < 40 \/ ends = {} THEN NoHeader
        ELSE IF extends(last) \/ last.kind = FRAGMENT THEN NoHeader
        ELSE [len |-> chain_off(x, Min(ends)), proto |-> last.kind]

parse_ipv4(x) == IF x.size < 20 \/ x.ihl * 4 < 20 \/ x.ihl * 4 > x.size THEN NoHeader
                 ELSE [len |-> x.ihl * 4, proto |-> header(x, 1).kind]

View(valid, ip, tcp) ==
    [valid |-> valid, ip_proto |-> ip.proto, ip_hdr_len |-> ip.len, tcp_hdr_len |-> tcp]

reset(x) ==
    LET ip  == CASE x.ver = 4 -> parse_ipv4(x)
                 [] x.ver = 6 -> parse_ipv6_chain(x)
                 [] OTHER     -> NoHeader
        thl == x.doff * 4
    IN  IF ip.len = 0 THEN View(FALSE, ip, 0)
        ELSE IF ip.proto # TCP THEN View(TRUE, ip, 0)
        ELSE IF x.size < ip.len + 20 \/ thl < 20 \/ ip.len + thl > x.size
        THEN View(FALSE, ip, 0)
        ELSE View(TRUE, ip, thl)

is_tcp(x) == reset(x).valid /\ reset(x).ip_proto = TCP

\* uint16_t: an IPv6 payload of 65496 bytes or more wraps.
ip_total_length(x) == IF x.ver = 4 THEN x.length ELSE (x.length + 40) % (MaxUint16 + 1)

payload_in(x, v) ==
    LET headers == v.ip_hdr_len + v.tcp_hdr_len
    IN  IF v.valid /\ v.ip_proto = TCP /\ ip_total_length(x) >= headers
        THEN ip_total_length(x) - headers ELSE 0
payload_size(x) == payload_in(x, reset(x))

udp_payload_size(x) ==
    LET v == reset(x)
    IN  IF /\ v.valid /\ v.ip_proto = UDP /\ v.ip_hdr_len + 8 <= x.size
           /\ x.udp_len >= 8 /\ ip_total_length(x) >= v.ip_hdr_len + x.udp_len
        THEN x.udp_len - 8 ELSE 0
-----------------------------------------------------------------------------
(* The reference: a packet as its sender builds it, RFC 791, 8200, 4302, 9293, *)
(* 768: the lengths agree, and all of it was captured.                         *)

Upper(x) == x.chain[Len(x.chain)].kind
Before(x) == {k \in DOMAIN x.chain : k < Len(x.chain)}
AuthLen(h) == 4 * (h.len + 2)
IpHeader(x) ==
    IF x.ver = 4 THEN 4 * x.ihl
    ELSE 40 + SumUpTo([k \in Nat |-> IF k \notin Before(x) THEN 0
                                     ELSE IF x.chain[k].kind = AH THEN AuthLen(x.chain[k])
                                     ELSE 8 + 8 * x.chain[k].len], Len(x.chain))
WellFormed(x) ==
    /\ x.ver \in {4, 6} /\ x.chain # <<>>
    /\ x.ver = 4 => x.ihl >= 5 /\ Len(x.chain) = 1
    /\ x.ver = 6 => /\ \A k \in Before(x) : x.chain[k].kind \in Extensions
                    /\ Upper(x) \notin Extensions \cup {FRAGMENT}
    /\ x.size = x.length + (IF x.ver = 4 THEN 0 ELSE 40) /\ x.size <= MaxUint16
    /\ CASE Upper(x) = TCP -> x.doff >= 5 /\ x.size >= IpHeader(x) + 4 * x.doff
         [] Upper(x) = UDP -> x.udp_len >= 8 /\ x.size = IpHeader(x) + x.udp_len
         [] OTHER          -> x.size >= IpHeader(x)
=============================================================================
