----------------------------- MODULE MCStrategy -----------------------------
(* Instances of Strategy for TLC. *)
EXTENDS Strategy

NoTls  == [present |-> FALSE, record_end |-> 0, sni_off |-> 0, sni_len |-> 0]
NoHttp == [present |-> FALSE, header_off |-> 0, header_len |-> 0, value_off |-> 0]

Next6(k) == [kind |-> k, len |-> 0]
V4(thl, n) == [ver |-> 4, ihl |-> 5, chain |-> <<Next6(TCP)>>, length |-> 20 + thl + n,
               doff |-> thl \div 4, udp_len |-> 0, size |-> 20 + thl + n]
V6(exts, n) == [ver |-> 6, ihl |-> 0, chain |-> Append(exts, Next6(TCP)),
                length |-> 8 * Len(exts) + 20 + n, doff |-> 5, udp_len |-> 0,
                size |-> 40 + 8 * Len(exts) + 20 + n]

\* n bytes that look like nothing.
Data(n) == [ip |-> V4(20, n), sniffed |-> FALSE, tls |-> NoTls, http |-> NoHttp]
\* A record that ends at e; the hostname at off.
Hello(n, e, off, len) == [Data(n) EXCEPT !.sniffed = TRUE,
    !.tls = [present |-> TRUE, record_end |-> e, sni_off |-> off, sni_len |-> len]]
\* "Host" at 3, the value right after the colon or after a space.
Request(n, flen, space) == [Data(n) EXCEPT !.sniffed = TRUE,
    !.http = [present |-> TRUE, header_off |-> IF flen = 0 THEN 0 ELSE 3,
              header_len |-> flen,
              value_off |-> IF flen = 0 THEN 0 ELSE 3 + flen + 1 + space]]
With(s, x) == [s EXCEPT !.ip = x]

Small  == {Data(1), Data(3), Data(6), With(Data(6), V4(44, 6)),
           [Data(6) EXCEPT !.sniffed = TRUE]}
Hellos == {Hello(14, 14, 10, 3), Hello(16, 14, 10, 1), Hello(16, 14, 0, 0),
           Hello(12, 8, 0, 0), Hello(20, 20, 7, 4), Hello(36, 36, 30, 2)}
Requests == {Request(12, 4, 0), Request(12, 4, 1), Request(8, 0, 0),
             Request(60, 4, 0)}
\* IPv6 with and without an extension header, headers of more than 60 bytes, and
\* segments longer than the buffer.
Special == {With(Hello(14, 14, 10, 3), V6(<<>>, 14)),
            With(Hello(14, 14, 10, 3), V6(<<Next6(60)>>, 14)),
            With(Data(6), V6(<<Next6(60)>>, 6)),
            With(Request(12, 4, 0), V6(<<Next6(0)>>, 12)),
            With(Hello(35, 35, 10, 3), V4(60, 35)),
            With(Hello(20, 20, 10, 3), V4(60, 20)),
            Hello(70, 70, 10, 3), Hello(75, 70, 62, 4), Data(80), Request(64, 4, 0)}
\* Segments that are longer than the buffer, and remain so without a first half.
LongHellos  == {Hello(75, 70, 10, 4)}
AllSegments == Small \cup Hellos \cup Requests \cup Special
Tls(m, f) == [mode |-> m, fixed |-> f, fake_ttl |-> 4, fake_repeat |-> 1,
              mangle_case |-> TRUE, extra_space |-> FALSE, split_url |-> FALSE,
              zero_window |-> FALSE, flow_tracking |-> TRUE]
Default  == Tls("midsni", 0)
AllParams == {Default, Tls("presni", 0), Tls("first", 0), Tls("fixed", 5),
              Tls("fixed", 0), Tls("fixed", 30),
              [Default EXCEPT !.flow_tracking = FALSE],
              [Default EXCEPT !.fake_ttl = 0, !.extra_space = TRUE],
              [Default EXCEPT !.fake_ttl = -1, !.extra_space = TRUE, !.split_url = TRUE,
                              !.flow_tracking = FALSE],
              [Default EXCEPT !.fake_repeat = 2, !.split_url = TRUE,
                              !.mangle_case = FALSE, !.zero_window = TRUE]}
\* Every stage alone, and the combinations of the presets.
SplitOnly    == {<<"tls-split">>}
FragOnly     == {<<"tls-frag">>}
AllPipelines == {<<x>> : x \in Name} \cup
    {<<"tls-split", "http-mangle">>, <<"tls-frag", "http-mangle", "fake-ttl">>,
     <<"http-mangle", "disorder", "fake-ttl">>, <<"tls-split", "zero-window">>}
=============================================================================
