---------------------------- MODULE MCInspection ----------------------------
(* Instances of Inspection for TLC. *)
EXTENDS Inspection, TLC

Chars   == {"a", "b", "A", ".", "-", "*", ":", "#", " ", "[", "]",
            "GET", "Host", "CR", "LF", "/", "("}
LowerOf == [c \in Chars |-> IF c = "A" THEN "a" ELSE c]

\* Every name of up to four of these characters, and each with a port.
Names   == UNION {[1 .. n -> {"a", "A", "b", ".", "-"}] : n \in 0 .. 4}
Asked   == Names \cup {Append(Append(n, ":"), "b") : n \in Names}
\* b   *.b   .b   A.b   " a # b"   #   *   .   *.   *.a.b
FileLines == { <<"b">>, <<"*", ".", "b">>, <<".", "b">>, <<"A", ".", "b">>,
               <<" ", "a", " ", "#", " ", "b">>, <<"#", "a">>, <<"*">>, <<".">>,
               <<"*", ".">>, <<"*", ".", "a", ".", "b">> }
-----------------------------------------------------------------------------
Concat(ss) == FoldLeft(LAMBDA s, x : s \o x, <<>>, ss)
SeqsUpTo(S, n) == UNION {[1 .. m -> S] : m \in 0 .. n}

CRLF   == <<"CR", "LF">>
\* Two spaces, one, and an empty target.
Line   == <<"GET", " ", "a", " ", "b", "CR", "LF">>
Heads  == {Line, <<"GET", " ", "a", "CR", "LF">>, <<"GET", " ", " ", "CR", "LF">>}
Pieces == {CRLF, <<"Host", ":">>, <<" ">>, <<"a">>, <<":">>, <<"(">>, <<"CR">>}
\* Fields, with a port, with white space, broken, no name, the blank line.
Fields == { <<"Host", ":", " ", "a", ".", "b", ":", "b", "CR", "LF">>,
            <<"Host", ":", "b", " ", "CR", "LF">>, <<"Host", " ", ":", "b", "CR", "LF">>,
            <<"a", ":", " ", "a", "CR", "LF">>, <<"(", ":", "Host", ":", "CR", "LF">>,
            <<"a", ":", "CR", "b", "CR", "LF">>, <<":", "CR", "LF">>, CRLF }
\* A set of sets of texts, which TLC goes through one by one.
Texts  == {{h \o Concat(s) : s \in SeqsUpTo(Pieces, 3)} : h \in Heads}
          \cup {{Line \o p \o Concat(s) : s \in [1 .. 3 -> Pieces]} : p \in Pieces}
          \cup {Prefixes(Line \o Concat(s)) : s \in SeqsUpTo(Fields, 3)}
          \cup {{<<"a", " ", "b">>}}

\* Extensions: others, a name, a name with a second entry behind it, an entry of another
\* type, and lists whose lengths do not fit.
Ext(sni, n, list, dns, name) ==
    [sni |-> sni, len |-> n, list |-> list, dns |-> dns, host |-> name]
Sni(name) == Ext(TRUE, 5 + Len(name), 3 + Len(name), TRUE, name)
Exts == { Ext(FALSE, 0, 0, FALSE, <<>>), Ext(FALSE, 3, 0, FALSE, <<>>),
          Sni(<<"a", ".", "b">>), Ext(TRUE, 12, 10, TRUE, <<"b">>),
          Ext(TRUE, 6, 4, FALSE, <<>>), Ext(TRUE, 1, 0, TRUE, <<>>),
          Ext(TRUE, 5, 4, TRUE, <<"b">>), Ext(TRUE, 7, 3, TRUE, <<"b">>),
          Ext(TRUE, 4, 2, TRUE, <<>>) }
\* A hello whose lengths agree, and what may be wrong with it.
Agreeing(sid, xs) ==
    LET total == MapThenSumSet(LAMBDA j : 4 + xs[j].len, DOMAIN xs)
        n     == 34 + 1 + sid + 2 + 2 + 1 + 1 + 2 + total
    IN  [size |-> 9 + n, handshake |-> TRUE, major |-> 3, rec_len |-> 4 + n,
         client_hello |-> TRUE, hs_len |-> n, sid |-> sid, cs |-> 2, cm |-> 1,
         ext_total |-> total, exts |-> xs]
\* A smaller set of hellos is perturbed, in the lengths of the segment, of the record,
\* of the handshake and of the extensions.
Shift(n, d) == IF n + d < 0 THEN 0 ELSE n + d
Delta == {-9, -1, 0, 4}
Perturbed(h) == {[h EXCEPT !.size = Shift(@, a), !.rec_len = Shift(@, b),
                           !.hs_len = Shift(@, c), !.ext_total = Shift(@, d)] :
                     a, b, c, d \in Delta}
Headless(h) == {[h EXCEPT !.handshake = FALSE], [h EXCEPT !.major = 2],
                [h EXCEPT !.client_hello = FALSE], [h EXCEPT !.size = 7],
                [h EXCEPT !.sid = 200], [h EXCEPT !.hs_len = 41 + h.sid]}
Hellos == {{Agreeing(sid, xs) : xs \in SeqsUpTo(Exts, 3)} : sid \in {0, 32}}
          \cup {Perturbed(Agreeing(0, xs)) : xs \in SeqsUpTo(Exts, 1)}
          \cup {Perturbed(Agreeing(0, <<x, Sni(<<"a", ".", "b">>)>>)) :
                  x \in {y \in Exts : ~y.sni}}
          \cup {Headless(Agreeing(0, <<Sni(<<"a", ".", "b">>)>>))}
-----------------------------------------------------------------------------
\* IPv4 and IPv6 headers around n bytes, and what may be wrong with them.
V4(ihl, proto, doff, n) ==
    LET size == 4 * ihl + (CASE proto = TCP -> 4 * doff [] OTHER -> 8) + n
    IN  [ver |-> 4, ihl |-> ihl, chain |-> <<[kind |-> proto, len |-> 0]>>,
         length |-> size, doff |-> doff, udp_len |-> 8 + n, size |-> size]
V6(chain, doff, n) ==
    LET x == [ver |-> 6, ihl |-> 0, chain |-> chain, length |-> 0, doff |-> doff,
              udp_len |-> 8 + n, size |-> 0]
        size == IpHeader(x) + (IF Upper(x) = TCP THEN 4 * doff ELSE 8) + n
    IN  [x EXCEPT !.length = size - 40, !.size = size]
Next6(k, n) == [kind |-> k, len |-> n]
Chains == {Append(c, Next6(k, 0)) : k \in {TCP, UDP, NoNext},
             c \in {<<>>, <<Next6(0, 0)>>, <<Next6(AH, 4)>>, <<Next6(FRAGMENT, 0)>>,
                   <<Next6(43, 2), Next6(AH, 1), Next6(60, 0)>>}
                  \cup {[j \in 1 .. m |-> Next6(60, 0)] : m \in {6, 7, 8}}}
Built == {V4(ihl, proto, doff, n) : ihl \in {4, 5, 15}, proto \in {TCP, UDP, 1},
            doff \in {4, 5, 15}, n \in {0, 1}}
         \cup {V6(c, doff, n) : c \in Chains, doff \in {4, 5, 15}, n \in {0, 1}}
Off(x) == UNION {{[x EXCEPT !.length = Shift(@, d)], [x EXCEPT !.size = Shift(@, d)],
                  [x EXCEPT !.udp_len = Shift(@, d)]} : d \in {-9, -1, 1}}
Geometry == Built \cup UNION {Off(x) : x \in Built}
            \cup {[x EXCEPT !.ver = 5] : x \in Built}
            \cup {[x EXCEPT !.length = 65535] : x \in Built}
Bytes(n) == IF n = 0 THEN NoPayload ELSE Text([k \in 1 .. n |-> "a"])
Odd == {[ip |-> x, outbound |-> TRUE, rst |-> FALSE, payload |-> Bytes(payload_size(x))] :
          x \in {y \in Geometry : payload_size(y) < 20}}
-----------------------------------------------------------------------------
Out(y) == [ip |-> V4(5, TCP, 5, SizeOf(y)), outbound |-> TRUE, rst |-> FALSE,
           payload |-> y]
Request(name) == Line \o <<"Host", ":">> \o name \o CRLF \o CRLF
NamesOnTheWire == {<<"a">>, <<"b">>, <<"A", ".", "b">>, <<"-", "b">>,
                   <<"a", ".", "a", ".", "b">>, <<>>}
Narrow == {Out(Tls(Agreeing(0, <<Sni(n)>>))) : n \in NamesOnTheWire}
          \cup {Out(Text(Request(n \o q))) : n \in NamesOnTheWire,
                                             q \in {<<>>, <<":", "b">>, <<" ">>}}
          \cup {Out(Tls(Agreeing(32, <<>>))), Out(Text(Line \o CRLF)),
                Out(Text(<<"a", "b">>)),
                Out(Tls([Agreeing(0, <<Sni(<<"b">>)>>) EXCEPT !.size = 20]))}
\* In both directions, resets, with and without a payload.
Plain  == {[Out(y) EXCEPT !.outbound = o, !.rst = r] :
             o, r \in BOOLEAN, y \in {NoPayload, Text(Request(<<"a">>))}}
Broad  == {Narrow, Plain, Odd}
          \cup {{Out(Tls(h)) : h \in {g \in H : g.size > 0}} : H \in Hellos}
          \cup {{Out(Text(v)) : v \in V \ {<<>>}} : V \in Texts}
\* All of it against the empty list, the names against every list.
Traffic == [n \in 0 .. MaxRules |-> IF n = 0 THEN Broad ELSE {Narrow}]
=============================================================================
