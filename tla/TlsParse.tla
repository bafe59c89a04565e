------------------------------ MODULE TlsParse ------------------------------
(***************************************************************************)
(* parse_client_hello of src/tls.cpp: where a TCP payload has the host     *)
(* name of a TLS ClientHello.                                              *)
(*                                                                         *)
(* A payload is the values the parser reads from it, in reading order, and *)
(* its size: every length in it may lie, and a field is what is read at    *)
(* the place the fields before it lead to.  Past the extensions listed it  *)
(* has empty ones of another type.  Offsets count from 0, as in the code.  *)
(*                                                                         *)
(* A definition marked "mutant" is a faulty variant of the one after it;   *)
(* nothing uses it but the mutation runs listed in PROJECT.json.           *)
(***************************************************************************)
EXTENDS Naturals, Sequences, FiniteSetsExt, Sums

\* list: the length of the server_name list; dns: its first entry is a host_name.
Extension(Name) == [sni : BOOLEAN, len : Nat, list : Nat, dns : BOOLEAN, host : Name]
Hello(Name) == [size : Nat, handshake : BOOLEAN, major : Nat, rec_len : Nat,
                client_hello : BOOLEAN, hs_len : Nat, sid : Nat, cs : Nat, cm : Nat,
                ext_total : Nat, exts : Seq(Extension(Name))]

Filler == [sni |-> FALSE, len |-> 0, list |-> 0, dns |-> FALSE, host |-> <<>>]
extension(h, k) == IF k \in DOMAIN h.exts THEN h.exts[k] ELSE Filler

looks_like_tls_handshake(h) ==
    h.size >= 6 /\ h.handshake /\ h.major = 3 /\ h.client_hello
-----------------------------------------------------------------------------
hs_end(h) == 9 + h.hs_len

\* Version and random, session id, cipher suites, compression methods; then the
\* length of the extensions, and the extensions.
after_methods(h) == 9 + 34 + 1 + h.sid + 2 + h.cs + 1 + h.cm
ext_begin(h)     == after_methods(h) + 2
ext_end(h)       == ext_begin(h) + h.ext_total

\* Where the k-th extension starts, behind the headers and bodies before it.
ext_off(h, k) ==
    ext_begin(h) + SumUpTo([j \in Nat |-> 4 + extension(h, j).len], k - 1)

Info(p, e, off, name) == [present |-> p, record_end |-> e, sni_off |-> off,
                          sni_len |-> Len(name), hostname |-> name]

\* The server_name extension at off: its list, and the first entry of the list.
list_below(x) == x.list + 2 < x.len                                 \* mutant
list_fits(x)  == x.list + 2 <= x.len
parse_sni(x, off, e) ==
    IF x.len < 2 \/ ~list_fits(x) \/ x.list < 3 THEN Info(FALSE, e, 0, <<>>)
    ELSE IF ~x.dns THEN Info(TRUE, e, 0, <<>>)
    ELSE IF 3 + Len(x.host) > x.list THEN Info(FALSE, e, 0, <<>>)
    ELSE Info(TRUE, e, off + 9, x.host)

\* The walk ends at the first extension that has no room, is cut off or is the
\* server_name.
walk(h, e) ==
    LET NoRoom(k) == ext_off(h, k) + 4 > ext_end(h)
        CutOff(k) == ext_off(h, k) + 4 + extension(h, k).len > ext_end(h)
        last == Min({k \in 1 .. h.ext_total \div 4 + 1 :
                       NoRoom(k) \/ CutOff(k) \/ extension(h, k).sni})
    IN  IF NoRoom(last) THEN Info(TRUE, e, 0, <<>>)
        ELSE IF CutOff(last) THEN Info(FALSE, e, 0, <<>>)
        ELSE parse_sni(extension(h, last), ext_off(h, last), e)

\* 5 + 4 bytes, and the handshake, whose end is the payload's, not the record's.
fits(h) == hs_end(h) <= h.size
inside_payload(h) == ext_end(h) <= h.size                           \* mutant
inside(h) == ext_end(h) <= hs_end(h)

parse_client_hello(h) ==
    LET e == 5 + h.rec_len
    IN  IF h.size < 5 \/ ~h.handshake \/ h.major # 3 \/ e > h.size
        THEN Info(FALSE, 0, 0, <<>>)
        ELSE IF h.size < 9 \/ ~h.client_hello \/ ~fits(h) \/ after_methods(h) > hs_end(h)
        THEN Info(FALSE, e, 0, <<>>)
        ELSE IF ext_begin(h) > hs_end(h) THEN Info(TRUE, e, 0, <<>>)
        ELSE IF ~inside(h) THEN Info(FALSE, e, 0, <<>>)
        ELSE walk(h, e)
-----------------------------------------------------------------------------
(* The reference: RFC 8446 and 6066 as a client writes them, one record with *)
(* one ClientHello.                                                          *)

written(x) == x.sni => /\ x.len = x.list + 2
                       /\ x.dns => x.list >= 3 + Len(x.host)
                       /\ ~x.dns => x.list >= 3
\* The bytes of the first n extensions.
ExtSum(h, n) == SumUpTo([j \in Nat |-> IF j \in DOMAIN h.exts THEN 4 + h.exts[j].len
                                       ELSE 0], n)
\* All lengths agree, and the record is complete in the segment.
Written(h) ==
    /\ h.handshake /\ h.major = 3 /\ h.client_hello
    /\ \A k \in DOMAIN h.exts : written(h.exts[k])
    /\ \A j, k \in DOMAIN h.exts : h.exts[j].sni /\ h.exts[k].sni => j = k
    /\ h.ext_total = ExtSum(h, Len(h.exts))
    /\ h.hs_len = 34 + 1 + h.sid + 2 + h.cs + 1 + h.cm + 2 + h.ext_total
    /\ h.rec_len = 4 + h.hs_len
    /\ h.size >= 5 + h.rec_len
\* The name, and how far its first byte is from the end of the hello.
Named(h) == {k \in DOMAIN h.exts : h.exts[k].sni /\ h.exts[k].dns}
NameOf(h) == IF Named(h) = {} THEN <<>> ELSE h.exts[Min(Named(h))].host
Behind(h) == LET k == Min(Named(h))
             IN  h.exts[k].list - 3 + ExtSum(h, Len(h.exts)) - ExtSum(h, k)
=============================================================================
