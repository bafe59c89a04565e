--------------------------- MODULE PacketBuilder ---------------------------
(***************************************************************************)
(* PacketBuilder of src/packet.cpp: the copy of a captured packet that a   *)
(* strategy changes, and what it looks like to whoever parses it.          *)
(*                                                                         *)
(* A builder is the fields of the copied header, the header lengths it     *)
(* remembers, and the payload, a sequence of bytes.  Its TCP checksum is   *)
(* "good" or not; a change of the TCP part leaves it "stale" until         *)
(* recompute().  IP ids, ports and acknowledgements are left out.          *)
(*                                                                         *)
(* A definition marked "mutant" is a faulty variant of the one after it;   *)
(* nothing uses it but the mutation runs listed in PROJECT.json.           *)
(***************************************************************************)
EXTENDS PacketView, Integers

CONSTANT kMaxMtu        \* the size of a builder's buffer

ASSUME MtuAssumption == kMaxMtu \in 1 .. MaxUint16

Smaller(a, b) == IF a < b THEN a ELSE b

Builder == [ver : {4, 6}, ihl : 0 .. 15, chain : Seq(NextHeader), length : 0 .. MaxUint16,
            doff : 0 .. 15, ip_hdr_len : Nat, tcp_hdr_len : Nat,
            seq : Nat, body : Seq(Int), ttl : {"own", "fake"},
            window : {"own", "zero"}, md5 : BOOLEAN,
            checksum : {"good", "stale", "bad"}]

headers(b) == b.ip_hdr_len + b.tcp_hdr_len
size(b)    == headers(b) + Len(b.body)
parsed(b)  == [ver |-> b.ver, ihl |-> b.ihl, chain |-> b.chain, length |-> b.length,
               doff |-> b.doff, udp_len |-> 0, size |-> size(b)]
-----------------------------------------------------------------------------
\* A copy of the packet x, of which v is a valid view, with the payload s: what fits
\* into the buffer.
from_view(x, v, s) ==
    LET room == kMaxMtu - v.ip_hdr_len - v.tcp_hdr_len
    IN  [ver |-> x.ver, ihl |-> x.ihl, chain |-> x.chain, length |-> x.length,
         doff |-> x.doff, ip_hdr_len |-> v.ip_hdr_len, tcp_hdr_len |-> v.tcp_hdr_len,
         seq |-> 0, body |-> SubSeq(s, 1, Smaller(Len(s), room)),
         ttl |-> "own", window |-> "own", md5 |-> FALSE,
         checksum |-> IF Len(s) > room THEN "stale" ELSE "good"]

Stale(b) == [b EXCEPT !.checksum = "stale"]

\* Too much for the buffer: silently ignored.
replace_payload_any(b, s) == Stale([b EXCEPT !.body = s])           \* mutant
replace_payload(b, s) ==
    IF headers(b) + Len(s) > kMaxMtu \/ b.body = s THEN b ELSE Stale([b EXCEPT !.body = s])

set_seq(b, n)         == Stale([b EXCEPT !.seq = n])
set_ttl(b)            == [b EXCEPT !.ttl = "fake"]
set_tcp_window(b)     == Stale([b EXCEPT !.window = "zero"])
set_tcp_flags(b)      == Stale(b)

\* The option, padded to a multiple of four bytes: ignored where the header or the
\* buffer has no room.
append_tcp_option_only(b, n) ==                                     \* mutant
    LET opt_len == 4 * ((2 + n + 3) \div 4)
    IN  Stale([b EXCEPT !.tcp_hdr_len = @ + opt_len, !.md5 = TRUE])
append_tcp_option(b, n) ==
    LET opt_len == 4 * ((2 + n + 3) \div 4)
        longer  == b.tcp_hdr_len + opt_len
    IN  IF longer > 60 \/ size(b) + opt_len > kMaxMtu THEN b
        ELSE Stale([b EXCEPT !.tcp_hdr_len = longer, !.doff = longer \div 4, !.md5 = TRUE])

\* The checksum is computed if the first header behind the IPv6 one is TCP's.
recompute(b) ==
    [b EXCEPT !.length = IF b.ver = 4 THEN size(b) ELSE size(b) - 40,
              !.checksum = IF header(b, 1).kind = TCP THEN "good" ELSE @]
=============================================================================
