----------------------------- MODULE HttpParse -----------------------------
(***************************************************************************)
(* parse_request of src/http.cpp: where a TCP payload has the host name of *)
(* an HTTP request.                                                        *)
(*                                                                         *)
(* A payload is a sequence of symbols; "GET" stands for a method,  "Host"  *)
(* for this field name in any case, any other symbol for a byte, with "CR" *)
(* and "LF" for the two that end a line.  Offsets count from 0, in symbols.*)
(*                                                                         *)
(* A definition marked "mutant" is a faulty variant of the one after it;   *)
(* nothing uses it but the mutation runs listed in PROJECT.json.           *)
(***************************************************************************)
EXTENDS Naturals, Sequences, FiniteSetsExt

Separator == {":", " ", "CR", "LF", "/", "[", "]", "("}
OWS == {" "}
is_token_char(c) == c \notin Separator

\* The first place from k on where Test holds, or the one after the last.
Find(v, k, Test(_)) == LET at == {i \in k .. Len(v) : Test(i)}
                       IN  IF at = {} THEN Len(v) + 1 ELSE Min(at)
line_ends(v, i) == i < Len(v) /\ v[i] = "CR" /\ v[i + 1] = "LF"
find_crlf(v, k) == Find(v, k, LAMBDA i : line_ends(v, i))

looks_like_http(v) == Len(v) >= 2 /\ v[1] = "GET" /\ v[2] = " "
-----------------------------------------------------------------------------
NoRequest == [present |-> FALSE, header_off |-> 0, header_len |-> 0,
              value_off |-> 0, hostname |-> <<>>]

value_end(v, from, eol) ==          \* trailing white space is trimmed
    Max({from - 1} \cup {i \in from .. eol - 1 : v[i] \notin OWS})
host(v, name, colon, value, eol) ==
    [present |-> TRUE, header_off |-> name - 1, header_len |-> colon - name,
     value_off |-> value - 1, hostname |-> SubSeq(v, value, value_end(v, value, eol))]

\* Where the scan goes on behind a line whose name ended at k.
next_line_exact(v, k) == k + 2                                      \* mutant
next_line(v, k) == find_crlf(v, k) + 2

parse_headers(v, start) ==
    LET parse[pos \in Nat] ==
          LET colon == Find(v, pos, LAMBDA i : ~is_token_char(v[i]))
              value == Find(v, colon + 1, LAMBDA i : v[i] \notin OWS)
              eol   == find_crlf(v, value)
          IN  IF pos > Len(v) \/ line_ends(v, pos)
              THEN [NoRequest EXCEPT !.present = TRUE]
              ELSE IF colon > Len(v) \/ v[colon] # ":" THEN parse[next_line(v, colon)]
              ELSE IF eol > Len(v) THEN NoRequest
              ELSE IF SubSeq(v, pos, colon - 1) = <<"Host">>
              THEN host(v, pos, colon, value, eol)
              ELSE parse[eol + 2]
    IN  parse[start]

parse_request(v) ==
    LET space(k) == Find(v, k, LAMBDA i : v[i] = " ")
        target == space(1) + 1
        line_end == find_crlf(v, space(target))
    IN  IF ~looks_like_http(v) \/ line_end > Len(v) THEN NoRequest
        ELSE parse_headers(v, line_end + 2)
-----------------------------------------------------------------------------
(* The reference: the lines of the request head, RFC 7230, section 3.        *)

Ends(v)   == {i \in DOMAIN v : line_ends(v, i)}
Starts(v) == {i + 2 : i \in Ends(v)}
Blank(v)  == Starts(v) \cap Ends(v)
InHead(v, s) == s \in Starts(v) /\ \A b \in Blank(v) : s < b
FirstEnd(v, s) == Min({i \in Ends(v) : i >= s})
\* The first line is complete and has its two spaces.
RequestLine(v) ==
    /\ looks_like_http(v) /\ Ends(v) # {}
    /\ \E i \in 3 .. Min(Ends(v)) - 1 : v[i] = " "
Complete(v, s)  == \E i \in Ends(v) : i >= s
HostLines(v) == {s \in DOMAIN v : /\ v[s] = "Host"
                                  /\ InHead(v, s) /\ Complete(v, s) /\ v[s + 1] = ":"}
\* A field whose line the segment does not end.
OpenField(v) == \E s \in DOMAIN v, c \in DOMAIN v :
                  /\ c >= s /\ v[c] = ":" /\ ~Complete(v, s)
                  /\ InHead(v, s) /\ \A i \in s .. c - 1 : is_token_char(v[i])
=============================================================================
