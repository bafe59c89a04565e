---------------------------- MODULE DomainFilter ----------------------------
(***************************************************************************)
(* The domain filter of src/domain_filter.cpp: patterns are added one by   *)
(* one or from the lines of a file, and the engine then asks for host      *)
(* names whether strategies apply.                                         *)
(*                                                                         *)
(* A name, a pattern or a line is a sequence of characters, which are      *)
(* model strings of length one; Lower gives the lower case of the capitals *)
(* that occur.                                                             *)
(*                                                                         *)
(* A definition marked "mutant" is a faulty variant of the one after it;   *)
(* nothing uses it but the mutation runs listed in PROJECT.json.           *)
(*                                                                         *)
(* Bounds: the lines Lines, of which MaxRules are added; the names Hosts.  *)
(***************************************************************************)
EXTENDS Naturals, Sequences, SequencesExt

CONSTANTS Char, Lower, Lines, Hosts, MaxRules

ASSUME DomainFilterAssumption ==
    /\ Lower \in [Char -> Char]
    /\ \A c \in Char, d \in {".", "*"} : Lower[c] = d <=> c = d
    /\ Lines \subseteq Seq(Char) /\ Hosts \subseteq Seq(Char)
    /\ MaxRules \in Nat

VARIABLES
    mode_, exact_, suffix_, root_suffix_,
    rules           \* history: what was added, as it was written
vars == <<mode_, exact_, suffix_, root_suffix_, rules>>

From(s, k) == SubSeq(s, k, Len(s))
UpTo(s, c) == LET at == {k \in DOMAIN s : s[k] = c}     \* before the first c
              IN  IF at = {} THEN s ELSE SubSeq(s, 1, Min(at) - 1)
-----------------------------------------------------------------------------
lower(s) == [k \in DOMAIN s |-> Lower[s[k]]]

trim(s) == LET dark == {k \in DOMAIN s : s[k] # " "}
           IN  IF dark = {} THEN <<>> ELSE SubSeq(s, Min(dark), Max(dark))

\* Everything from the last colon on goes.
strip_port(s) == LET colons == {k \in DOMAIN s : s[k] = ":"}
                 IN  IF colons = {} THEN s ELSE SubSeq(s, 1, Max(colons) - 1)

dot_suffix_match_plain(host, x) == IsSuffix(x, host)                \* mutant
dot_suffix_match(host, x) == /\ Len(host) > Len(x)
                             /\ host[Len(host) - Len(x)] = "."
                             /\ IsSuffix(x, host)

add_pattern(pat) ==
    \/ pat = <<>> /\ UNCHANGED <<exact_, suffix_, root_suffix_>>
    \/ /\ Len(pat) >= 2 /\ pat[1] = "*" /\ pat[2] = "."
       /\ suffix_' = suffix_ \cup {lower(From(pat, 3))}
       /\ UNCHANGED <<exact_, root_suffix_>>
    \/ /\ pat # <<>> /\ pat[1] = "."
       /\ root_suffix_' = root_suffix_ \cup {lower(From(pat, 2))}
       /\ UNCHANGED <<exact_, suffix_>>
    \/ /\ pat # <<>> /\ pat[1] # "."
       /\ ~(Len(pat) >= 2 /\ pat[1] = "*" /\ pat[2] = ".")
       /\ exact_' = exact_ \cup {lower(pat)}
       /\ UNCHANGED <<suffix_, root_suffix_>>

\* One line of load_file: the comment goes, then what is left is a pattern.
load_line(line) == /\ Len(rules) < MaxRules
                   /\ add_pattern(trim(UpTo(line, "#")))
                   /\ rules' = Append(rules, line)
                   /\ UNCHANGED mode_

matched(name) ==
    LET host == lower(strip_port(name))
    IN  \/ host \in exact_
        \/ \E x \in suffix_ : dot_suffix_match(host, x)
        \/ \E x \in root_suffix_ : host = x \/ dot_suffix_match(host, x)
should_apply(name) == \/ mode_ = "Off"
                      \/ mode_ = "Allowlist" /\ matched(name)
                      \/ mode_ = "Blocklist" /\ ~matched(name)
-----------------------------------------------------------------------------
Init == /\ mode_ \in {"Off", "Allowlist", "Blocklist"}
        /\ exact_ = {} /\ suffix_ = {} /\ root_suffix_ = {} /\ rules = <<>>

Next == \E line \in Lines : load_line(line)

Spec == Init /\ [][Next]_vars
-----------------------------------------------------------------------------
\* The rules as the header defines them (domain_filter.hpp:4-13), on labels: a name is
\* its labels between the dots, without a port.
Labels(s) ==
    LET dots == {k \in DOMAIN s : s[k] = "."}
        l[k \in 0 .. Len(s)] ==
            IF k = 0 THEN << <<>> >>
            ELSE IF k \in dots THEN Append(l[k - 1], <<>>)
            ELSE [l[k - 1] EXCEPT ![Len(l[k - 1])] = Append(@, s[k])]
    IN  l[Len(s)]
Below(name, x) == Len(Labels(name)) > Len(Labels(x)) /\ IsSuffix(Labels(x), Labels(name))
Rule(line, name) ==
    LET text == lower(trim(UpTo(line, "#")))
    IN  /\ text # <<>>
        /\ IF Len(text) >= 2 /\ text[1] = "*" /\ text[2] = "."
           THEN Below(name, From(text, 3))
           ELSE IF text[1] = "." THEN name = From(text, 2) \/ Below(name, From(text, 2))
           ELSE name = text
Listed(name) == \E k \in DOMAIN rules : Rule(rules[k], name)
Decision(name) == CASE mode_ = "Off"       -> TRUE
                    [] mode_ = "Allowlist" -> Listed(name)
                    [] mode_ = "Blocklist" -> ~Listed(name)
NoPort(name) == lower(UpTo(name, ":"))
\* A name with several colons is an IPv6 literal.
OneColon(name) == \A j, k \in DOMAIN name : name[j] = ":" /\ name[k] = ":" => j = k

\* should_apply, on bytes and three containers, decides what the rules say on labels,
\* for any list of rules in any order: "evil-google.com" is not below google.com
\* (domain_filter.cpp:46-53, 92-114).
MatchesByLabels ==
    \A name \in Hosts : OneColon(name) => (should_apply(name) <=> Decision(NoPort(name)))
=============================================================================
