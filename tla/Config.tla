------------------------------- MODULE Config -------------------------------
(***************************************************************************)
(* How the configuration comes about (src/config.cpp): parse_args looks    *)
(* for --preset and --log-level first, loads the preset file line by line  *)
(* over the defaults, and then goes through the command line.              *)
(*                                                                         *)
(* An option is a setting and the items of its value: one, or for ports    *)
(* the numbers between the commas.  BadNumber is text std::stoul and       *)
(* std::stoi throw on: in a preset the line is reported and the next one   *)
(* read, on the command line the program ends with a usage message.        *)
(*                                                                         *)
(* A definition marked "mutant" is a faulty variant of the one after it;   *)
(* nothing uses it but the mutation runs listed in PROJECT.json.           *)
(*                                                                         *)
(* Bounds: the options Options, MaxArgs of them on the command line and    *)
(* MaxLines in the preset file.                                            *)
(***************************************************************************)
EXTENDS Naturals, Sequences, SequencesExt

CONSTANTS Number, BadNumber, Default, Options, MaxArgs, MaxLines

Setting == {"domain_file", "fake_ttl", "log_level", "ports"}
Option  == [key : Setting, val : Seq(Number \cup {BadNumber})]

ASSUME ConfigAssumption ==
    /\ Default \notin Number \cup {BadNumber} /\ BadNumber \notin Number
    /\ Options \subseteq Option
    /\ \A o \in Options : o.key # "ports" => Len(o.val) = 1
    /\ MaxArgs \in Nat /\ MaxLines \in Nat

VARIABLES argv, file,       \* the options, the lines of the preset file
          cfg,              \* the items of every setting
          pass, i           \* where parse_args is, and at which option or line
parseVars == <<argv, file, cfg, pass, i>>
-----------------------------------------------------------------------------
\* The first number that does not convert, if there is one.
BadAt(val) == SelectInSeq(val, LAMBDA n : n = BadNumber)
throws(o)  == o.key \in {"fake_ttl", "ports"} /\ BadAt(o.val) # 0

\* tcp_ports is cleared, then filled up to the number that throws.
ports_appended(val) == cfg["ports"] \o val                          \* mutant
ports_from(val) == IF BadAt(val) = 0 THEN val ELSE SubSeq(val, 1, BadAt(val) - 1)

\* What option o leaves of its setting, in apply_kv and in the second pass.
Assigned(o) == IF o.key = "ports" THEN ports_from(o.val)
               ELSE IF throws(o) THEN cfg[o.key] ELSE o.val

Assign(o) == cfg' = [cfg EXCEPT ![o.key] = Assigned(o)]

LogLevel == /\ pass = "first" /\ i <= Len(argv)
            /\ IF argv[i].key = "log_level" THEN Assign(argv[i]) ELSE UNCHANGED cfg
            /\ i' = i + 1 /\ UNCHANGED <<argv, file, pass>>

\* load_preset_file, which catches what apply_kv throws.
PresetLine == /\ pass = "preset" /\ i <= Len(file)
              /\ Assign(file[i])
              /\ i' = i + 1 /\ UNCHANGED <<argv, file, pass>>

\* The second pass skips --log-level and its value.
RealOption == /\ pass = "second" /\ i <= Len(argv)
              /\ IF argv[i].key = "log_level" THEN UNCHANGED cfg ELSE Assign(argv[i])
              /\ pass' = IF throws(argv[i]) THEN "usage" ELSE pass
              /\ i' = i + 1 /\ UNCHANGED <<argv, file>>

PresetLast == /\ \/ pass = "first"  /\ i > Len(argv) /\ pass' = "second"   \* mutant
                 \/ pass = "second" /\ i > Len(argv) /\ pass' = "preset"
                 \/ pass = "preset" /\ i > Len(file) /\ pass' = "done"
              /\ i' = 1 /\ UNCHANGED <<argv, file, cfg>>
PassEnds == /\ \/ pass = "first"  /\ i > Len(argv) /\ pass' = "preset"
               \/ pass = "preset" /\ i > Len(file) /\ pass' = "second"
               \/ pass = "second" /\ i > Len(argv) /\ pass' = "done"
            /\ i' = 1 /\ UNCHANGED <<argv, file, cfg>>

ParseInit == /\ argv \in BoundedSeq(Options, MaxArgs)
             /\ file \in BoundedSeq(Options, MaxLines)
             /\ cfg = [s \in Setting |-> <<Default>>]
             /\ pass = "first" /\ i = 1

ParseNext == LogLevel \/ PresetLine \/ RealOption \/ PassEnds

ParseSpec == ParseInit /\ [][ParseNext]_parseVars
-----------------------------------------------------------------------------
\* The last option of these that sets s and does not throw: what the user meant.
LastGood(s, options) ==
    LET k == SelectLastInSeq(options, LAMBDA o : o.key = s /\ ~throws(o))
    IN  IF k = 0 THEN <<Default>> ELSE options[k].val

\* Whatever is repeated, and whatever line of the preset is broken: a setting other than
\* the log level has its last good value of the command line, else of the preset, else
\* the default (config.cpp:87-116, 272-324).  Ports that stand in the preset alone are left
\* out where one of its lists is broken, see PortsOfOneList.
Set(s) == LastGood(s, argv) # <<Default>>
Broken(s) == \E k \in DOMAIN file : file[k].key = s /\ throws(file[k])
LastGoodHolds ==
    pass = "done" =>
        \A s \in Setting \ {"log_level"} :
            /\ Set(s) => cfg[s] = LastGood(s, argv)
            /\ ~Set(s) /\ (s = "ports" => ~Broken(s)) => cfg[s] = LastGood(s, file)

\* "Second pass: real CLI options override preset values" (config.cpp:272): what the
\* command line sets is what holds, whatever the preset says.
Precedence == pass = "done" => \A s \in Setting : Set(s) => cfg[s] = LastGood(s, argv)

\* Lists of ports never mix: even a broken line leaves ports of one list only, in its
\* order and without gaps (config.cpp:60-62, 298-302).
PortsOfOneList ==
    \/ cfg["ports"] = <<Default>>
    \/ \E o \in Options : o.key = "ports" /\ IsPrefix(cfg["ports"], o.val)
=============================================================================
