----------------------------- MODULE MCStartup -----------------------------
(* Instances of Startup for TLC. *)
EXTENDS Startup
Distances     == 2 .. 5
AutoOrSet     == {-1, 0, 4}
TwoCandidates == <<"tls-split", "http-mangle">>
KnownNames    == {"tls-split", "http-mangle", "disorder"}
\* None that is known, and one that is.
SomeStrategies == {<<"tls-splt">>, <<"tls-splt", "disorder">>}
=============================================================================
