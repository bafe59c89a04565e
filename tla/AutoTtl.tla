------------------------------ MODULE AutoTtl ------------------------------
(***************************************************************************)
(* How fake_ttl, the TTL of the decoys, is settled before the engine       *)
(* starts: main() (src/main.cpp:95-110) probes a target with ICMP echoes   *)
(* of growing TTL (src/ttl_probe.cpp) when it was asked to, or when the    *)
(* value is -1 ("auto").                                                   *)
(*                                                                         *)
(* The network, external: the target is distance hops away; a probe that   *)
(* gets there, or a router on the way, may leave it unanswered.            *)
(*                                                                         *)
(* A definition marked "mutant" is a faulty variant of the one after it;   *)
(* nothing uses it but the mutation runs listed in PROJECT.json.           *)
(*                                                                         *)
(* Bounds: the distances Distance, max_hops scaled to MaxHops, the         *)
(* configured values Configured.                                           *)
(***************************************************************************)
EXTENDS Integers

CONSTANTS MaxHops, Distance, Configured

ASSUME AutoTtlAssumption ==
    /\ MaxHops \in Nat \ {0} /\ Distance \subseteq Nat \ {0}
    /\ Configured \subseteq Int

VARIABLES
    auto_ttl,       \* cfg.auto_ttl with a target
    fake_ttl,       \* cfg.params.fake_ttl
    distance,       \* hops to the probed target
    at, t, hops,    \* main() and discover()
    silent          \* probes that reached the target and got no answer
vars == <<auto_ttl, fake_ttl, distance, at, t, hops, silent>>

Larger(a, b) == IF a > b THEN a ELSE b

\* Probe the target of --auto-ttl, or a default one for fake_ttl = -1.
Begin == /\ at = "begin"
         /\ at' = IF auto_ttl \/ fake_ttl < 0 THEN "resolve" ELSE "done"
         /\ UNCHANGED <<auto_ttl, fake_ttl, distance, t, hops, silent>>

\* resolve_ipv4 and IcmpCreateFile
Resolve == /\ at = "resolve"
           /\ at' \in {"probe", "failed"}
           /\ UNCHANGED <<auto_ttl, fake_ttl, distance, t, hops, silent>>

\* probe_hop: the destination answers, or a router does, or nobody.
ProbeReached == /\ at = "probe" /\ t \in distance .. MaxHops
                /\ hops' = t /\ at' = "ok"
                /\ UNCHANGED <<auto_ttl, fake_ttl, distance, t, silent>>
ProbeOther   == /\ at = "probe" /\ t <= MaxHops
                /\ t' = t + 1
                /\ silent' = silent + (IF t >= distance THEN 1 ELSE 0)
                /\ UNCHANGED <<auto_ttl, fake_ttl, distance, at, hops>>
ProbesUsedUp == /\ at = "probe" /\ t > MaxHops /\ at' = "failed"
                /\ UNCHANGED <<auto_ttl, fake_ttl, distance, t, hops, silent>>

suggested_all == Larger(2, hops)                                    \* mutant
suggested     == Larger(2, hops \div 2)

Take == /\ at = "ok" /\ at' = "done"
        /\ fake_ttl' = suggested
        /\ UNCHANGED <<auto_ttl, distance, t, hops, silent>>

FallBack == /\ at = "failed" /\ at' = "done"
            /\ fake_ttl' = IF fake_ttl < 0 THEN 4 ELSE fake_ttl
            /\ UNCHANGED <<auto_ttl, distance, t, hops, silent>>

Init == /\ auto_ttl \in BOOLEAN /\ fake_ttl \in Configured /\ distance \in Distance
        /\ at = "begin" /\ t = 1 /\ hops = 0 /\ silent = 0

Next == Begin \/ Resolve \/ ProbeReached \/ ProbeOther \/ ProbesUsedUp
        \/ Take \/ FallBack

Spec == Init /\ [][Next]_vars
-----------------------------------------------------------------------------
\* A probed value lets decoys die on the way as long as the target is three hops
\* away or more and answers one of the first probes that reach it: each silent one
\* inflates hops, and halving makes up for fewer than distance of them.
DecoysDieEnRoute ==
    at = "done" /\ hops # 0 /\ distance >= 3 /\ silent < distance => fake_ttl < distance
=============================================================================
