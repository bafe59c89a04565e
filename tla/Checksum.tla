------------------------------ MODULE Checksum ------------------------------
(***************************************************************************)
(* The Internet checksum of src/checksum.cpp, as PacketBuilder::recompute  *)
(* and the wrong-chksum strategy use it: a TCP or UDP segment grows byte   *)
(* by byte, is finished with its checksum, and is then sent as it is, sent *)
(* as a decoy with the field inverted, or damaged on the way.  It lies     *)
(* behind an IPv4 header, an IPv6 header, or an extension header of one.   *)
(* The receiver, external, adds everything up.                             *)
(*                                                                         *)
(* A byte has Radix values, so a word has Radix * Radix, and the           *)
(* accumulator, 32 bits in the code, has AccMod.  The checksum field is    *)
(* the second word of the segment, and a UDP header has two words.         *)
(*                                                                         *)
(* A definition marked "mutant" is a faulty variant of the one after it;   *)
(* nothing uses it but the mutation runs listed in PROJECT.json.           *)
(*                                                                         *)
(* Bounds: segments of at most MaxLen bytes, the pseudo headers Pseudo.    *)
(***************************************************************************)
EXTENDS Integers, Sequences, Sums

CONSTANTS Radix, AccMod, MaxLen, Pseudo

Byte == 0 .. Radix - 1
Word == Radix * Radix

\* The length and the protocol are a word of the pseudo header, and the accumulator
\* holds the sum of the pseudo header, that word and the segment.
ASSUME ChecksumAssumption ==
    /\ Radix \in Nat \ {0} /\ Radix % 2 = 0
    /\ MaxLen \in Nat \ (0 .. 3) /\ MaxLen + 2 < Word
    /\ AccMod \in Nat /\ Pseudo \subseteq Seq(Byte)
    /\ \A s \in Pseudo : Len(s) % 2 = 0 /\ AccMod > (MaxLen + Len(s) + 1) * Word

VARIABLES ip, proto, pseudo, segment, phase
headers == <<ip, proto, pseudo>>
sumVars == <<headers, segment, phase>>
-----------------------------------------------------------------------------
\* while (sum >> 16) sum = (sum & 0xFFFF) + (sum >> 16)
fold(n) == LET f[m \in 0 .. AccMod - 1] ==
                   IF m < Word THEN m ELSE f[(m % Word) + (m \div Word)]
           IN  f[n]

\* Big-endian words; an odd last byte is the high half of one.
Weights(data) == [k \in Nat |-> IF k \notin DOMAIN data THEN 0
                               ELSE data[k] * (IF k % 2 = 1 THEN Radix ELSE 1)]
sum_words_even(data, acc) ==                                        \* mutant
    (acc + SumUpTo(Weights(data), 2 * (Len(data) \div 2))) % AccMod
sum_words(data, acc) == (acc + SumUpTo(Weights(data), Len(data))) % AccMod

\* The pseudo header's protocol and length, then the segment.
transport(seg) ==
    LET acc == sum_words(pseudo, 0) + (IF proto = "tcp" THEN 1 ELSE 2) + Len(seg)
    IN  Word - 1 - fold(sum_words(seg, acc % AccMod))

tcp_v4(seg) == transport(seg)
udp_plain(seg) == transport(seg)                                    \* mutant
udp_v4(seg) == IF transport(seg) = 0 THEN Word - 1 ELSE transport(seg)

tcp_v6(seg) == transport(seg)
\* "IPv6 UDP checksum is mandatory but we don't currently emit IPv6 synthetic packets."
udp_v6(seg) == 0

WithField(seg, c) == [seg EXCEPT ![3] = c \div Radix, ![4] = c % Radix]
-----------------------------------------------------------------------------
Append1(b) == /\ phase = "building" /\ Len(segment) < MaxLen
              /\ segment' = Append(segment, b)
              /\ UNCHANGED <<headers, phase>>

\* The TCP header of a valid packet is complete.
Finish == phase = "building" /\ (proto = "tcp" => Len(segment) >= 4)

\* Where the first header behind the IP header is not the transport's, nothing is done.
recompute == /\ Finish /\ (ip # "ext" => Len(segment) >= 4)
             /\ phase' = "sent" /\ UNCHANGED headers
             /\ LET zeroed == WithField(segment, 0)
                    sum == CASE ip = "v4" /\ proto = "tcp" -> tcp_v4(zeroed)
                             [] ip = "v4" /\ proto = "udp" -> udp_v4(zeroed)
                             [] ip = "v6" /\ proto = "tcp" -> tcp_v6(zeroed)
                             [] ip = "v6" /\ proto = "udp" -> udp_v6(zeroed)
                IN  segment' = IF ip = "ext" THEN segment ELSE WithField(zeroed, sum)

\* A datagram shorter than its header: recompute() returns false.
Malformed == /\ Finish /\ proto = "udp" /\ ip # "ext" /\ Len(segment) < 4
             /\ phase' = "malformed" /\ UNCHANGED <<headers, segment>>

\* tcp_cksum[0] ^= 0xFF; tcp_cksum[1] ^= 0xFF;
WrongChecksumTwice ==           \* mutant: one byte, twice
    /\ phase = "sent" /\ proto = "tcp" /\ phase' = "decoy"
    /\ UNCHANGED <<headers, segment>>
WrongChecksum == /\ phase = "sent" /\ proto = "tcp" /\ phase' = "decoy"
                 /\ segment' = [segment EXCEPT ![3] = Radix - 1 - @,
                                               ![4] = Radix - 1 - @]
                 /\ UNCHANGED headers

\* One byte changes on the way.
Damage == /\ phase = "sent" /\ phase' = "damaged"
          /\ \E k \in DOMAIN segment, b \in Byte :
               segment[k] # b /\ segment' = [segment EXCEPT ![k] = b]
          /\ UNCHANGED headers

SumInit == /\ ip \in {"v4", "v6", "ext"} /\ proto \in {"tcp", "udp"} /\ pseudo \in Pseudo
           /\ segment \in [1 .. 3 -> Byte] /\ phase = "building"

SumNext == (\E b \in Byte : Append1(b)) \/ recompute \/ Malformed \/ WrongChecksum \/ Damage

SumSpec == SumInit /\ [][SumNext]_sumVars
-----------------------------------------------------------------------------
(* The receiver: one's complement addition, a word at a time.  A UDP field of *)
(* zero says that there is no checksum: anything goes over IPv4 (RFC 768),    *)
(* nothing does over IPv6 (RFC 8200, section 8.1).                            *)

Plus(x, y) == IF x + y < Word THEN x + y ELSE x + y - (Word - 1)
WordAt(s, k) == s[2 * k - 1] * Radix + (IF 2 * k <= Len(s) THEN s[2 * k] ELSE 0)
Total(s) == LET words == (Len(s) + 1) \div 2
                t[k \in 0 .. words] == IF k = 0 THEN 0 ELSE Plus(t[k - 1], WordAt(s, k))
            IN  t[words]
Received == Plus(Plus(Total(pseudo), (IF proto = "tcp" THEN 1 ELSE 2) + Len(segment)),
                 Total(segment))
zero  == <<segment[3], segment[4]>> = <<0, 0>>
valid == IF proto = "udp" /\ zero THEN ip = "v4" ELSE Received = Word - 1

\* The receiver's word-by-word sum accepts what recompute() made, for odd lengths
\* and whatever the carries, but for UDP over IPv6, which it always rejects
\* (packet.cpp:279-343, checksum.cpp:8-65).  Behind an extension header a checksum is
\* not made at all; Strategy shows what that does to a connection.
SentIsValid == phase = "sent" /\ ip # "ext" => (valid <=> ~(ip = "v6" /\ proto = "udp"))

\* One damaged byte anywhere, the field and an odd last byte included, is noticed,
\* unless the damage itself turns a UDP field into zero: a datagram is never sent with
\* zero, "no checksum" (checksum.cpp:62-64).
DamageIsNoticed ==
    [][phase' = "damaged" /\ ip # "ext" /\ valid =>
           ~valid' \/ (proto = "udp" /\ zero' /\ ~zero)]_sumVars

\* "We XOR it so it's guaranteed wrong" (strategy.cpp:525-526): the receiver rejects the
\* decoy of wrong-chksum, whatever its length and its bytes, unless its field was 0x0000
\* or 0xFFFF: those are the same number in one's complement, and nothing is claimed of
\* the decoy then (the comment's guarantee does not hold of it).
DecoyIsRejected ==
    phase = "decoy" /\ ip # "ext" /\ valid =>
        segment[3] = segment[4] /\ segment[3] \in {0, Radix - 1}
=============================================================================
