----------------------------- MODULE MCChecksum -----------------------------
(* Instances of Checksum for TLC. *)
EXTENDS Checksum
Pseudos == {<<0, 0>>, <<1, 3>>, <<3, 2, 3, 3>>}
=============================================================================
