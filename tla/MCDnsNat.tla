----------------------------- MODULE MCDnsNat -----------------------------
(* Instances of DnsNat for TLC. *)
EXTENDS DnsNat
CONSTANTS k1, k2, up, isp
TwoKeys == {k1, k2}
OneKey  == {k1}
=============================================================================
