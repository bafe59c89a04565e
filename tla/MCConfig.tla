------------------------------ MODULE MCConfig ------------------------------
(* Instances of Config for TLC. *)
EXTENDS Config, Integers
O(s, v) == [key |-> s, val |-> v]
Numbers == {-1, 0, 1, 2, 3}
\* Two values of the settings that can throw (a TTL of -1 is "auto"), and lists of ports
\* broken at the start and later.
Some == { O("domain_file", <<BadNumber>>), O("log_level", <<1>>),
          O("fake_ttl", <<-1>>), O("fake_ttl", <<0>>), O("fake_ttl", <<BadNumber>>),
          O("ports", <<1, 2>>), O("ports", <<3>>), O("ports", <<>>),
          O("ports", <<2, BadNumber, 1>>) }
Levels == { O("log_level", <<1>>), O("log_level", <<2>>) }
=============================================================================
