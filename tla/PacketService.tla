--------------------------- MODULE PacketService ---------------------------
(***************************************************************************)
(* What the packet engine promises about each packet it takes from the     *)
(* driver, whatever its threads do: the packet gets one verdict and never  *)
(* another; its original is injected at most once and only if it was       *)
(* passed; replacement pieces are injected only if a strategy claimed it;  *)
(* only packets the configuration allows are claimed or dropped.  Written  *)
(* from engine.hpp and the strategy contract (strategy.hpp:81-87: true     *)
(* means "engine should NOT re-inject the original", false "engine sends   *)
(* original unchanged").                                                   *)
(***************************************************************************)
EXTENDS Naturals

CONSTANTS Packet, Kind, NoKind,
          Modifiable,       \* kinds a strategy may replace
          Droppable,        \* kinds the engine may swallow
          MaxPieces         \* pieces one replacement consists of

VARIABLES pkt,              \* the packets captured so far, by kind
          verdict,          \* what was decided about each packet
          wire              \* what the network stack was given for it

Verdict == {"none", "pass", "lost", "drop", "claim"}
Nothing == [orig |-> 0, pieces |-> 0]

Init == /\ pkt     = [p \in Packet |-> NoKind]
        /\ verdict = [p \in Packet |-> "none"]
        /\ wire    = [p \in Packet |-> Nothing]

Undecided(p) == pkt[p] # NoKind /\ verdict[p] = "none"

Arrive(p, k) == /\ pkt[p] = NoKind
                /\ pkt' = [pkt EXCEPT ![p] = k]
                /\ UNCHANGED <<verdict, wire>>

\* The original goes on, or the injection fails and the packet is lost.
Pass(p) == /\ Undecided(p)
           /\ verdict' = [verdict EXCEPT ![p] = "pass"]
           /\ wire'    = [wire EXCEPT ![p].orig = 1]
           /\ UNCHANGED pkt

Lose(p) == /\ Undecided(p)
           /\ verdict' = [verdict EXCEPT ![p] = "lost"]
           /\ UNCHANGED <<pkt, wire>>

Drop(p) == /\ Undecided(p) /\ pkt[p] \in Droppable
           /\ verdict' = [verdict EXCEPT ![p] = "drop"]
           /\ UNCHANGED <<pkt, wire>>

Claim(p) == /\ Undecided(p) /\ pkt[p] \in Modifiable
            /\ verdict' = [verdict EXCEPT ![p] = "claim"]
            /\ UNCHANGED <<pkt, wire>>

Emit(p) == /\ verdict[p] = "claim" /\ wire[p].pieces < MaxPieces
           /\ wire' = [wire EXCEPT ![p].pieces = @ + 1]
           /\ UNCHANGED <<pkt, verdict>>

Next == \E p \in Packet :
            \/ \E k \in Kind : Arrive(p, k)
            \/ Pass(p) \/ Lose(p) \/ Drop(p) \/ Claim(p) \/ Emit(p)

Spec == Init /\ [][Next]_<<pkt, verdict, wire>>
=============================================================================
