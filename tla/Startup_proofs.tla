--------------------------- MODULE Startup_proofs ---------------------------
(***************************************************************************)
(* What holds of main() before the engine, for every network, every number *)
(* of hops, probes, candidates and attempts, and every configuration: a    *)
(* probed TTL lets decoys die on the way, the tuner's choice is the best,  *)
(* and the engine starts prepared.  And what holds of the configuration    *)
(* before that, for command lines and presets of every length: which of    *)
(* the values given for a setting is in force, and that lists of ports     *)
(* never mix.                                                              *)
(***************************************************************************)
EXTENDS Startup, Config, WellFoundedInduction, TLAPS

-----------------------------------------------------------------------------
(* The probe *)

\* Until a probe is answered, the silent ones are those that went out since the TTL
\* passed the distance; so the answered one overshoots by their number.
TtlInv ==
    /\ at \in {"begin", "resolve", "probe", "ok", "failed", "done"}
    /\ fake_ttl \in Int /\ distance \in Nat \ {0}
    /\ t \in Nat \ {0} /\ hops \in Nat /\ silent \in Nat
    /\ at \notin {"ok", "done"} =>
         hops = 0 /\ silent = IF t > distance THEN t - distance ELSE 0
    /\ at = "ok" => hops = distance + silent
    /\ at = "done" => /\ fake_ttl >= 0
                      /\ hops # 0 => hops = distance + silent /\ fake_ttl = suggested
    /\ main # "ttl" => at = "done"

\* Halving makes up for fewer silent probes than there are hops.
LEMMA HalfIsNearer ==
    ASSUME TtlInv
    PROVE  DecoysDieEnRoute
<1> SUFFICES ASSUME at = "done", hops # 0, distance >= 3, silent < distance
             PROVE  fake_ttl < distance
    BY DEF DecoysDieEnRoute
<1>1. /\ hops = distance + silent /\ fake_ttl = suggested
      /\ distance \in Nat /\ silent \in Nat /\ hops \in Nat
      BY DEF TtlInv
<1>2. hops \div 2 < distance
      BY <1>1
<1> QED BY <1>1, <1>2 DEF suggested, Larger

LEMMA SettleKeepsTtl ==
    ASSUME AutoTtlAssumption, TtlInv, SettleTtl
    PROVE  TtlInv'
<1>1. main = "ttl" /\ main' = main /\ Next
      BY DEF SettleTtl
<1>2. CASE Begin
  <2>1. /\ at' \in {"resolve", "done"} /\ (at' = "done" => ~(fake_ttl < 0))
        /\ at = "begin" /\ UNCHANGED <<fake_ttl, distance, t, hops, silent>>
        BY <1>2 DEF Begin
  <2> QED BY <1>1, <2>1 DEF TtlInv
<1>3. CASE Resolve
      BY <1>1, <1>3 DEF Resolve, TtlInv
<1>4. CASE ProbeReached
      BY <1>1, <1>4 DEF ProbeReached, TtlInv, AutoTtlAssumption
<1>5. CASE ProbeOther
      BY <1>1, <1>5 DEF ProbeOther, TtlInv, AutoTtlAssumption
<1>6. CASE ProbesUsedUp
      BY <1>1, <1>6 DEF ProbesUsedUp, TtlInv
<1>7. CASE Take
  <2>1. suggested \in Nat /\ suggested' = suggested
        BY <1>7 DEF Take, suggested, Larger, TtlInv
  <2> QED BY <1>1, <1>7, <2>1 DEF Take, TtlInv
<1>8. CASE FallBack
      BY <1>1, <1>8 DEF FallBack, TtlInv
<1> QED BY <1>1, <1>2, <1>3, <1>4, <1>5, <1>6, <1>7, <1>8 DEF Next

LEMMA NextTtl ==
    ASSUME AutoTtlAssumption, TtlInv, [StartupNext]_startupVars
    PROVE  TtlInv'
<1>1. CASE SettleTtl
      BY <1>1, SettleKeepsTtl
<1>2. CASE TtlSettled
  <2>1. /\ at = "done" /\ t' = 1 /\ hops' = 0 /\ silent' = 0
        /\ UNCHANGED <<fake_ttl, distance, at>>
        BY <1>2 DEF TtlSettled
  <2> QED BY <2>1 DEF TtlInv
<1>3. ASSUME Tune(Tuner!tuner) \/ Tune(Tuner!workerStep) \/ TakeBest \/ BuildPipeline
             \/ UNCHANGED startupVars
      PROVE  TtlInv'
  <2>1. /\ UNCHANGED <<fake_ttl, distance, at, t, hops, silent>>
        /\ main # "ttl" \/ main' = main
        BY <1>3 DEF Tune, TakeBest, BuildPipeline, startupVars, ttlVars, vars
  <2> QED BY <2>1 DEF TtlInv, suggested
<1> QED BY <1>1, <1>2, <1>3 DEF StartupNext, mainThread, tuneThread

LEMMA InitTtl ==
    ASSUME AutoTtlAssumption, StartupInit
    PROVE  TtlInv
BY DEF StartupInit, Init, TtlInv, AutoTtlAssumption

\* A probed TTL is smaller than the distance for every target that is three hops away
\* or more and answers one of the first probes that reach it (ttl_probe.cpp:86-109).
THEOREM DecoysFallShort == StartupSpec => []DecoysDieEnRoute
<1>1. StartupInit => TtlInv
      BY InitTtl, AutoTtlAssumption
<1>2. TtlInv /\ [StartupNext]_startupVars => TtlInv'
      BY NextTtl, AutoTtlAssumption
<1>3. TtlInv => DecoysDieEnRoute
      BY HalfIsNearer
<1> QED BY <1>1, <1>2, <1>3, PTL DEF StartupSpec
-----------------------------------------------------------------------------
(* The tuner *)

Busy  == {"attempt", "response", "attempted", "stop", "join"}
Tried == [name : Known, attempts : {Attempts}, successes : Nat, total : Nat]

\* Every score counts the same number of attempts, so that rates compare like
\* successes; a candidate under test is one that has no score yet.
ScoresInv ==
    /\ tuneAt \in Busy \cup {"resolve", "next", "choose", "done"}
    /\ sc \in [attempts : Nat, successes : Nat, total : Nat]
    /\ scores \in Seq(Tried) /\ Len(scores) <= Len(candidates)
    /\ tuneAt \in Busy => Len(scores) < Len(candidates)
    /\ tuneAt \in {"attempt", "response"} => sc.attempts < Attempts
    /\ tuneAt = "attempted" => sc.attempts <= Attempts
    /\ tuneAt \in {"stop", "join"} => sc.attempts = Attempts

\* Nothing is ahead of score s in the order of the comment at auto_tune.cpp:356.
Ahead(s, n) == \A k \in 1 .. n : /\ scores[k].successes <= s.successes
                                 /\ scores[k].successes = s.successes =>
                                        scores[k].total >= s.total

\* best is the best of the scores seen.
ChoiceInv ==
    /\ seen \in 0 .. Len(scores)
    /\ tuneAt \notin {"choose", "done"} => seen = 0
    /\ tuneAt = "resolve" => scores = <<>>
    /\ tuneAt = "done" => seen = Len(scores)
    /\ \/ best = Tuner!None /\ \A k \in 1 .. seen : scores[k].successes = 0
       \/ \E m \in 1 .. seen :
             best = scores[m] /\ scores[m].successes > 0 /\ Ahead(scores[m], seen)

TuneInv == ScoresInv /\ ChoiceInv

\* Products with the same number of attempts order like what is multiplied.
LEMMA SameFactor ==
    ASSUME NEW a \in Nat \ {0}, NEW x \in Nat, NEW y \in Nat
    PROVE  (x * a > y * a <=> x > y) /\ (x * a = y * a <=> x = y)
<1>1. CASE x = y
      BY <1>1
<1>2. CASE x > y
  <2>1. PICK d \in Nat \ {0} : x = y + d
        BY <1>2
  <2>2. x * a = y * a + d * a /\ d * a > 0
        BY <2>1
  <2>3. y * a \in Nat /\ x * a \in Nat /\ d * a \in Nat
        OBVIOUS
  <2> QED BY <1>2, <2>2, <2>3
<1>3. CASE y > x
  <2>1. PICK d \in Nat \ {0} : y = x + d
        BY <1>3
  <2>2. y * a = x * a + d * a /\ d * a > 0
        BY <2>1
  <2>3. y * a \in Nat /\ x * a \in Nat /\ d * a \in Nat
        OBVIOUS
  <2> QED BY <1>3, <2>2, <2>3
<1> QED BY <1>1, <1>2, <1>3

\* Between scores of as many attempts, Better is the order of the comment.
LEMMA BetterOrder ==
    ASSUME StartupAssumption, NEW s \in Tried, NEW b \in Tried, s.successes > 0
    PROVE  Tuner!Better(s, b) <=> \/ s.successes > b.successes
                                  \/ s.successes = b.successes /\ s.total < b.total
<1>1. /\ s.attempts = Attempts /\ b.attempts = Attempts /\ Attempts \in Nat \ {0}
      /\ s.successes \in Nat \ {0} /\ b.successes \in Nat
      /\ s.total \in Nat /\ b.total \in Nat
      BY DEF Tried, StartupAssumption
<1>2. /\ s.successes * Attempts > b.successes * Attempts <=> s.successes > b.successes
      /\ s.successes * Attempts = b.successes * Attempts <=> s.successes = b.successes
      BY <1>1, SameFactor, ZenonT(40)
<1>3. s.successes = b.successes =>
        (b.total * s.successes > s.total * b.successes <=> b.total > s.total)
      BY <1>1, SameFactor
<1>4. b.total * s.successes \in Nat /\ s.total * b.successes \in Nat
      BY <1>1
<1>5. Tuner!Better(s, b) <=>
        \/ s.successes > b.successes
        \/ /\ s.successes = b.successes
           /\ s.total * b.successes < b.total * s.successes
      BY <1>1, <1>2 DEF Tuner!Better
<1> QED BY <1>1, <1>3, <1>4, <1>5

\* One step of the loop over the scores keeps best the best of those seen.
LEMMA ChooseKeepsBest ==
    ASSUME StartupAssumption, TuneInv, Tuner!Choose
    PROVE  TuneInv'
<1> DEFINE s == scores[seen + 1]
<1>1. /\ tuneAt = "choose" /\ seen < Len(scores) /\ seen' = seen + 1
      /\ best' = IF s.successes > 0 /\ (best = Tuner!None \/ Tuner!Better(s, best))
                 THEN s ELSE best
      /\ UNCHANGED <<tuneAt, sc, scores>>
      BY DEF Tuner!Choose
<1>2. /\ scores \in Seq(Tried) /\ seen \in 0 .. Len(scores)
      BY DEF TuneInv, ScoresInv, ChoiceInv
<1>3. /\ ScoresInv'
      /\ \A r \in Tried : r.successes \in Nat /\ r.total \in Nat
      BY <1>1 DEF TuneInv, ScoresInv, Tried
<1>4. seen + 1 \in 1 .. Len(scores) /\ s \in Tried /\ s.successes \in Nat /\ s.total \in Nat
      BY <1>1, <1>2, <1>3
<1>5. \A k \in 1 .. Len(scores) : scores[k] \in Tried /\ scores[k].successes \in Nat
                                  /\ scores[k].total \in Nat
      BY <1>2, <1>3
<1>6. 1 .. seen + 1 = (1 .. seen) \cup {seen + 1} /\ 1 .. seen \subseteq 1 .. Len(scores)
      BY <1>1, <1>2
<1>7. \/ best' = Tuner!None /\ \A k \in 1 .. seen + 1 : scores[k].successes = 0
      \/ \E m \in 1 .. seen + 1 : /\ best' = scores[m] /\ scores[m].successes > 0
                                  /\ Ahead(scores[m], seen + 1)
  <2>1. CASE best = Tuner!None /\ \A k \in 1 .. seen : scores[k].successes = 0
    <3>1. CASE s.successes > 0
      <4>1. best' = s /\ Ahead(s, seen + 1)
            BY <1>1, <1>4, <1>5, <1>6, <2>1, <3>1, SMTT(20) DEF Ahead
      <4> QED BY <1>4, <1>6, <3>1, <4>1
    <3>2. CASE ~(s.successes > 0)
          BY <1>1, <1>4, <1>6, <2>1, <3>2
    <3> QED BY <3>1, <3>2
  <2>2. ASSUME NEW m \in 1 .. seen, best = scores[m], scores[m].successes > 0,
               Ahead(scores[m], seen)
        PROVE  \E n \in 1 .. seen + 1 : /\ best' = scores[n] /\ scores[n].successes > 0
                                        /\ Ahead(scores[n], seen + 1)
    <3>1. best \in Tried /\ best # Tuner!None /\ m \in 1 .. seen + 1
          /\ best.successes \in Nat /\ best.total \in Nat
          BY <1>5, <1>6, <2>2 DEF Tuner!None
    <3>2. s.successes > 0 => (Tuner!Better(s, best) <=>
             \/ s.successes > best.successes
             \/ s.successes = best.successes /\ s.total < best.total)
          BY <1>4, <3>1, BetterOrder
    <3>3. CASE s.successes > 0 /\ Tuner!Better(s, best)
      <4>1. best' = s
            BY <1>1, <3>3
      <4>2. \/ s.successes > best.successes
            \/ s.successes = best.successes /\ s.total < best.total
            BY <3>2, <3>3
      <4>3. \A k \in 1 .. seen : /\ scores[k].successes <= s.successes
                                 /\ scores[k].successes = s.successes =>
                                        scores[k].total >= s.total
        <5> TAKE k \in 1 .. seen
        <5>1. /\ scores[k].successes <= best.successes
              /\ scores[k].successes = best.successes => scores[k].total >= best.total
              BY <2>2 DEF Ahead
        <5>2. scores[k].successes \in Nat /\ scores[k].total \in Nat
              BY <1>5, <1>6
        <5> HIDE DEF s
        <5> QED BY <1>4, <3>1, <4>2, <5>1, <5>2, SMTT(20)
      <4>4. Ahead(s, seen + 1)
        <5>1. \A k \in 1 .. seen + 1 : k \in 1 .. seen \/ scores[k] = s
              BY <1>6
        <5> HIDE DEF s
        <5> QED BY <1>4, <4>3, <5>1 DEF Ahead
      <4> QED BY <1>4, <1>6, <3>3, <4>1, <4>4
    <3>4. CASE ~(s.successes > 0 /\ Tuner!Better(s, best))
      <4>1. best' = best
            BY <1>1, <3>1, <3>4
      <4>2. s.successes <= best.successes
            /\ (s.successes = best.successes => s.total >= best.total)
            BY <1>4, <2>2, <3>1, <3>2, <3>4
      <4>3. Ahead(scores[m], seen + 1)
            BY <1>4, <1>5, <1>6, <2>2, <4>2 DEF Ahead
      <4> QED BY <2>2, <3>1, <4>1, <4>3
    <3> QED BY <3>3, <3>4
  <2> QED BY <2>1, <2>2 DEF TuneInv, ChoiceInv
<1>8. ChoiceInv'
      BY <1>1, <1>2, <1>7 DEF ChoiceInv, Ahead
<1> QED BY <1>3, <1>8 DEF TuneInv

LEMMA NextTune ==
    ASSUME StartupAssumption, TuneInv, [StartupNext]_startupVars
    PROVE  TuneInv'
<1> USE DEF TuneInv, ScoresInv, Busy
<1>1. CASE Tuner!Resolve
      BY <1>1 DEF Tuner!Resolve, Tuner!workVars, Tuner!choiceVars, ChoiceInv, Ahead
<1>2. CASE Tuner!Start
      BY <1>2 DEF Tuner!Start, Tuner!Zero, Tuner!workVars, Tuner!choiceVars, ChoiceInv,
                  Ahead, StartupAssumption
<1>3. ASSUME NEW ok \in BOOLEAN, NEW ms \in Nat, tuneAt \in {"attempt", "response"},
             Tuner!Record(ok, ms)
      PROVE  TuneInv'
  <2>1. /\ tuneAt' = "attempted" /\ UNCHANGED <<scores, best, seen>>
        /\ sc'.attempts = sc.attempts + 1
        /\ sc' \in [attempts : Nat, successes : Nat, total : Nat]
        BY <1>3 DEF Tuner!Record, Tuner!workVars, Tuner!choiceVars
  <2>2. ScoresInv'
        BY <1>3, <2>1 DEF StartupAssumption
  <2>3. ChoiceInv'
        BY <1>3, <2>1 DEF ChoiceInv, Ahead
  <2> QED BY <2>2, <2>3
<1>4. CASE Tuner!NoConnection \/ Tuner!NoServerHello
      BY <1>3, <1>4 DEF Tuner!NoConnection, Tuner!NoServerHello
<1>5. CASE Tuner!ServerHello
      BY <1>3, <1>5 DEF Tuner!ServerHello, StartupAssumption
<1>6. CASE Tuner!Send
      BY <1>6 DEF Tuner!Send, Tuner!workVars, Tuner!choiceVars, ChoiceInv, Ahead
<1>7. CASE Tuner!Again
  <2>1. /\ tuneAt = "attempted" /\ UNCHANGED <<sc, scores, best, seen>>
        /\ tuneAt' = IF sc.attempts < Attempts THEN "attempt" ELSE "stop"
        BY <1>7 DEF Tuner!Again, Tuner!workVars, Tuner!choiceVars
  <2> QED BY <2>1 DEF ChoiceInv, Ahead, StartupAssumption
<1>8. CASE Tuner!Stop
      BY <1>8 DEF Tuner!Stop, Tuner!choiceVars, ChoiceInv, Ahead
<1>9. CASE Tuner!Join
  <2>1. /\ tuneAt = "join" /\ tuneAt' = "next" /\ UNCHANGED <<sc, best, seen>>
        /\ scores' = Append(scores, Tuner!Scored)
        BY <1>9 DEF Tuner!Join, Tuner!choiceVars
  <2>2. Tuner!Scored \in Tried
        BY <2>1 DEF Tuner!Scored, Tuner!current, Tried, StartupAssumption
  <2>3. scores' \in Seq(Tried) /\ Len(scores') = Len(scores) + 1
        BY <2>1, <2>2
  <2>4. seen = 0 /\ best = Tuner!None
        BY <2>1 DEF ChoiceInv
  <2> QED BY <2>1, <2>3, <2>4 DEF ChoiceInv, Ahead, StartupAssumption
<1>10. CASE Tuner!Choose
       BY <1>10, ChooseKeepsBest
<1>11. CASE Tuner!Finish
       BY <1>11 DEF Tuner!Finish, Tuner!workVars, Tuner!choiceVars, ChoiceInv, Ahead
<1>12. ASSUME UNCHANGED <<tuneAt, sc, scores, best, seen>>
       PROVE  TuneInv'
       BY <1>12 DEF ChoiceInv, Ahead
<1>13. CASE Tune(Tuner!workerStep)
       BY <1>12, <1>13 DEF Tune, Tuner!workerStep, Tuner!Guard, Tuner!Apply,
                           Tuner!RecvFails, Tuner!choiceVars
<1>14. CASE SettleTtl \/ TtlSettled \/ TakeBest \/ BuildPipeline \/ UNCHANGED startupVars
       BY <1>12, <1>14 DEF SettleTtl, TtlSettled, TakeBest, BuildPipeline, startupVars,
                           tuneVars
<1>15. CASE Tune(Tuner!tuner)
       BY <1>1, <1>2, <1>4, <1>5, <1>6, <1>7, <1>8, <1>9, <1>10, <1>11, <1>15
          DEF Tune, Tuner!tuner
<1> QED BY <1>13, <1>14, <1>15 DEF StartupNext, mainThread, tuneThread

LEMMA InitTune ==
    ASSUME StartupAssumption, StartupInit
    PROVE  TuneInv
BY DEF StartupInit, Tuner!Init, TuneInv, ScoresInv, ChoiceInv, Ahead, Busy, Tuner!Zero,
       StartupAssumption

LEMMA ChoiceIsBest ==
    ASSUME TuneInv
    PROVE  BestIsBest
<1> SUFFICES ASSUME tuneAt = "done"
             PROVE  /\ (best = Tuner!None) <=> \A k \in DOMAIN scores :
                                                  scores[k].successes = 0
                    /\ best # Tuner!None => \A k \in DOMAIN scores :
                          /\ scores[k].successes <= best.successes
                          /\ scores[k].successes = best.successes =>
                                 scores[k].total >= best.total
    BY DEF BestIsBest, Tuner!BestIsBest
<1>1. /\ scores \in Seq(Tried) /\ seen = Len(scores) /\ DOMAIN scores = 1 .. seen
      BY DEF TuneInv, ScoresInv, ChoiceInv
<1>2. CASE best = Tuner!None /\ \A k \in 1 .. seen : scores[k].successes = 0
      BY <1>1, <1>2
<1>3. ASSUME NEW m \in 1 .. seen, best = scores[m], scores[m].successes > 0,
             Ahead(scores[m], seen)
      PROVE  /\ best # Tuner!None
             /\ \A k \in DOMAIN scores : /\ scores[k].successes <= best.successes
                                         /\ scores[k].successes = best.successes =>
                                                scores[k].total >= best.total
             /\ ~ \A k \in DOMAIN scores : scores[k].successes = 0
      BY <1>1, <1>3 DEF Ahead, Tuner!None
<1> QED BY <1>1, <1>2, <1>3 DEF TuneInv, ChoiceInv

\* The tuner's choice has the highest success rate of all candidates and, among those,
\* the lowest average latency; there is one exactly if a candidate had a success
\* (auto_tune.cpp:356-378).
THEOREM ChoiceIsOptimal == StartupSpec => []BestIsBest
<1>1. StartupInit => TuneInv
      BY InitTune, StartupAssumption
<1>2. TuneInv /\ [StartupNext]_startupVars => TuneInv'
      BY NextTune, StartupAssumption
<1>3. TuneInv => BestIsBest
      BY ChoiceIsBest
<1> QED BY <1>1, <1>2, <1>3, PTL DEF StartupSpec
-----------------------------------------------------------------------------
(* main() *)

Worked == {scores[k].name : k \in {k \in DOMAIN scores : scores[k].successes > 0}}
Chosen == IF Worked = {} THEN strategies \in Configurations
          ELSE \E name \in Worked : strategies = <<name>>

\* The tuner runs between the TTL and the pipeline, or not at all.
MainInv ==
    /\ main = "ttl" => scores = <<>>
    /\ main \in {"ttl", "tune"} => strategies \in Configurations
    /\ main \in {"build", "engine"} => Chosen /\ fake_ttl >= 0
    /\ main = "engine" => stages # <<>>

\* A best strategy is one that worked, and without one none did.
LEMMA BestWorked ==
    ASSUME TuneInv, tuneAt = "done"
    PROVE  IF best = Tuner!None THEN Worked = {} ELSE best.name \in Worked
<1>1. /\ scores \in Seq(Tried) /\ seen = Len(scores) /\ DOMAIN scores = 1 .. seen
      BY DEF TuneInv, ScoresInv, ChoiceInv
<1>2. CASE best = Tuner!None /\ \A k \in 1 .. seen : scores[k].successes = 0
      BY <1>1, <1>2 DEF Worked
<1>3. ASSUME NEW m \in 1 .. seen, best = scores[m], scores[m].successes > 0
      PROVE  best # Tuner!None /\ best.name \in Worked
      BY <1>1, <1>3 DEF Worked, Tuner!None
<1> QED BY <1>2, <1>3 DEF TuneInv, ChoiceInv

LEMMA NextMain ==
    ASSUME TtlInv, TuneInv, MainInv, [StartupNext]_startupVars
    PROVE  MainInv'
<1>1. CASE SettleTtl
      BY <1>1 DEF SettleTtl, tuneVars, MainInv
<1>2. CASE TtlSettled
  <2>1. /\ main = "ttl" /\ at = "done" /\ main' \in {"tune", "build"}
        /\ UNCHANGED <<strategies, fake_ttl, scores>>
        BY <1>2 DEF TtlSettled, tuneVars
  <2>2. scores = <<>> /\ strategies \in Configurations /\ fake_ttl >= 0
        BY <2>1 DEF MainInv, TtlInv
  <2>3. Worked' = {}
        BY <2>1, <2>2 DEF Worked
  <2> QED BY <2>1, <2>2, <2>3 DEF MainInv, Chosen
<1>3. CASE Tune(Tuner!tuner) \/ Tune(Tuner!workerStep)
      BY <1>3 DEF Tune, MainInv
<1>4. CASE TakeBest
  <2>1. /\ main = "tune" /\ tuneAt = "done" /\ main' = "build"
        /\ strategies' = IF best = Tuner!None THEN strategies ELSE <<best.name>>
        /\ UNCHANGED <<scores, fake_ttl>>
        BY <1>4 DEF TakeBest, tuneVars, ttlVars, vars
  <2>2. strategies \in Configurations /\ fake_ttl >= 0 /\ Worked' = Worked
        BY <2>1 DEF MainInv, TtlInv, Worked
  <2>3. IF best = Tuner!None THEN Worked = {} ELSE best.name \in Worked
        BY <2>1, BestWorked
  <2>4. Chosen'
        BY <2>1, <2>2, <2>3 DEF Chosen
  <2> QED BY <2>1, <2>2, <2>4 DEF MainInv
<1>5. CASE BuildPipeline
  <2>1. /\ main = "build" /\ main' = IF stages = <<>> THEN "exit" ELSE "engine"
        /\ UNCHANGED <<strategies, scores, fake_ttl>>
        BY <1>5 DEF BuildPipeline, tuneVars, ttlVars, vars
  <2>2. stages' = stages /\ Worked' = Worked
        BY <2>1 DEF stages, Worked
  <2>3. Chosen' /\ fake_ttl' >= 0
        BY <2>1, <2>2 DEF MainInv, Chosen
  <2> QED BY <2>1, <2>2, <2>3 DEF MainInv
<1>6. CASE UNCHANGED startupVars
  <2>1. UNCHANGED <<main, strategies, scores, fake_ttl>>
        BY <1>6 DEF startupVars, tuneVars, ttlVars, vars
  <2>2. stages' = stages /\ Chosen' = Chosen
        BY <2>1 DEF stages, Worked, Chosen
  <2> QED BY <2>1, <2>2 DEF MainInv
<1> QED BY <1>1, <1>2, <1>3, <1>4, <1>5, <1>6 DEF StartupNext, mainThread, tuneThread

\* The engine starts with a settled TTL, with a stage, and with either what was
\* configured or a strategy the tuner saw succeed (main.cpp:95-144).
THEOREM EngineStartsPrepared == StartupSpec => []EngineIsPrepared
<1>1. StartupInit => TtlInv /\ TuneInv /\ MainInv
  <2> SUFFICES ASSUME StartupInit PROVE MainInv /\ TtlInv /\ TuneInv
      OBVIOUS
  <2>1. MainInv
        BY DEF StartupInit, Tuner!Init, MainInv
  <2> QED BY <2>1, InitTtl, InitTune, AutoTtlAssumption, StartupAssumption
<1>2. TtlInv /\ TuneInv /\ MainInv /\ [StartupNext]_startupVars
        => (TtlInv /\ TuneInv /\ MainInv)'
      BY NextTtl, NextTune, NextMain, AutoTtlAssumption, StartupAssumption
<1>3. MainInv => EngineIsPrepared
      BY DEF MainInv, Chosen, Worked, EngineIsPrepared
<1> QED BY <1>1, <1>2, <1>3, PTL DEF StartupSpec

-----------------------------------------------------------------------------
(* Configuration: ports *)

LEMMA LeastNatural ==
    ASSUME NEW I \in SUBSET Nat, I # {}
    PROVE  \E m \in I : \A k \in I : m <= k
<1> DEFINE R == {r \in Nat \X Nat : r[1] < r[2]}
<1>1. IsWellFoundedOn(R, Nat)
      BY NatLessThanWellFounded DEF OpToRel
<1>2. PICK m \in I : \A k \in I : ~(<<k, m>> \in R)
      BY <1>1, WFMin
<1>3. \A k \in I : ~(k < m)
      BY <1>2
<1> QED BY <1>3

LEMMA MinOfNaturals ==
    ASSUME NEW I \in SUBSET Nat, I # {}
    PROVE  Min(I) \in I
BY LeastNatural DEF Min

LEMMA BadAtRange ==
    ASSUME NEW val, Len(val) \in Nat
    PROVE  BadAt(val) \in 0 .. Len(val)
<1> DEFINE I == {k \in 1 .. Len(val) : val[k] = BadNumber}
<1>1. BadAt(val) = IF I # {} THEN Min(I) ELSE 0
      BY DEF BadAt, SelectInSeq
<1>2. I \in SUBSET Nat /\ I \subseteq 1 .. Len(val)
      OBVIOUS
<1> HIDE DEF I
<1>3. I # {} => Min(I) \in I
      BY <1>2, MinOfNaturals
<1>4. CASE I = {}
      BY <1>1, <1>4
<1>5. CASE I # {}
  <2>1. BadAt(val) \in I
        BY <1>1, <1>3, <1>5
  <2>2. BadAt(val) \in 1 .. Len(val)
        BY <1>2, <2>1
  <2> QED BY <2>2
<1> QED BY <1>4, <1>5
-----------------------------------------------------------------------------
(* Configuration: what one option does *)

Item == Number \cup {BadNumber, Default}
ConfigTypes ==
    /\ argv \in Seq(Options) /\ file \in Seq(Options)
    /\ cfg \in [Setting -> Seq(Item)]
    /\ pass \in {"first", "preset", "second", "usage", "done"}
    /\ i \in Nat \ {0}
    /\ pass \in {"first", "second"} => i <= Len(argv) + 1
    /\ pass = "preset" => i <= Len(file) + 1

Good(s, o) == o.key = s /\ ~throws(o)

LEMMA OptionType ==
    ASSUME ConfigAssumption, NEW o \in Options
    PROVE  /\ o.key \in Setting /\ o.val \in Seq(Item) /\ o.val # <<Default>>
           /\ BadAt(o.val) \in 0 .. Len(o.val)
           /\ ports_from(o.val) \in Seq(Item)
<1>1. o.key \in Setting /\ o.val \in Seq(Number \cup {BadNumber})
      BY DEF ConfigAssumption, Option
<1>2. o.val \in Seq(Item)
      BY <1>1 DEF Item
<1>3. o.val # <<Default>>
  <2> SUFFICES ASSUME o.val = <<Default>> PROVE FALSE
      OBVIOUS
  <2>1. o.val[1] = Default /\ 1 \in 1 .. Len(o.val)
        OBVIOUS
  <2>2. Default \in Number \cup {BadNumber}
        BY <1>1, <2>1
  <2> QED BY <2>2 DEF ConfigAssumption
<1>4. BadAt(o.val) \in 0 .. Len(o.val)
      BY <1>2, BadAtRange
<1>5. ports_from(o.val) \in Seq(Item)
      BY <1>2, <1>4 DEF ports_from
<1> QED BY <1>1, <1>2, <1>3, <1>4, <1>5

LEMMA Taken ==
    ASSUME ConfigAssumption, ConfigTypes, NEW o \in Options, Assign(o)
    PROVE  /\ cfg' \in [Setting -> Seq(Item)]
           /\ \A s \in Setting : Good(s, o) => cfg'[s] = o.val
           /\ \A s \in Setting : s # o.key => cfg'[s] = cfg[s]
           /\ \A s \in Setting : throws(o) /\ s # "ports" => cfg'[s] = cfg[s]
           /\ o.key = "ports" => cfg'["ports"] = ports_from(o.val)
<1>1. /\ o.key \in Setting /\ o.val \in Seq(Item) /\ ports_from(o.val) \in Seq(Item)
      /\ cfg \in [Setting -> Seq(Item)] /\ cfg' = [cfg EXCEPT ![o.key] = Assigned(o)]
      BY OptionType DEF ConfigTypes, Assign
<1>2. Assigned(o) \in Seq(Item)
      BY <1>1 DEF Assigned
<1>3. o.key = "ports" => Assigned(o) = ports_from(o.val)
      BY DEF Assigned
<1>4. ~throws(o) => Assigned(o) = o.val
      BY DEF Assigned, throws, ports_from
<1>5. throws(o) /\ o.key # "ports" => Assigned(o) = cfg[o.key]
      BY DEF Assigned
<1>6. cfg'[o.key] = Assigned(o) /\ \A s \in Setting : s # o.key => cfg'[s] = cfg[s]
      BY <1>1, <1>2
<1>7. \A s \in Setting : Good(s, o) => cfg'[s] = o.val
      BY <1>4, <1>6 DEF Good
<1>8. \A s \in Setting : throws(o) /\ s # "ports" => cfg'[s] = cfg[s]
      BY <1>5, <1>6
<1>9. cfg' \in [Setting -> Seq(Item)]
      BY <1>1, <1>2
<1> QED BY <1>3, <1>6, <1>7, <1>8, <1>9

LEMMA NextTypes ==
    ASSUME ConfigAssumption, ConfigTypes, [ParseNext]_parseVars
    PROVE  ConfigTypes'
<1>1. ASSUME pass \in {"first", "second"}, i <= Len(argv)
      PROVE  argv[i] \in Options
      BY <1>1 DEF ConfigTypes
<1>2. ASSUME pass = "preset", i <= Len(file)
      PROVE  file[i] \in Options
      BY <1>2 DEF ConfigTypes
<1>3. CASE LogLevel
  <2>1. cfg' \in [Setting -> Seq(Item)]
        BY <1>1, <1>3, Taken DEF LogLevel, ConfigTypes
  <2> QED BY <1>3, <2>1 DEF LogLevel, ConfigTypes
<1>4. CASE PresetLine
  <2>1. cfg' \in [Setting -> Seq(Item)]
        BY <1>2, <1>4, Taken DEF PresetLine, ConfigTypes
  <2> QED BY <1>4, <2>1 DEF PresetLine, ConfigTypes
<1>5. CASE RealOption
  <2>1. cfg' \in [Setting -> Seq(Item)]
        BY <1>1, <1>5, Taken DEF RealOption, ConfigTypes
  <2> QED BY <1>5, <2>1 DEF RealOption, ConfigTypes
<1>6. CASE PassEnds
      BY <1>6 DEF PassEnds, ConfigTypes
<1>7. CASE UNCHANGED parseVars
      BY <1>7 DEF parseVars, ConfigTypes
<1> QED BY <1>3, <1>4, <1>5, <1>6, <1>7 DEF ParseNext

LEMMA InitTypes ==
    ASSUME ConfigAssumption, ParseInit
    PROVE  ConfigTypes
<1>1. argv \in Seq(Options) /\ file \in Seq(Options)
      BY SMTT(20) DEF ParseInit, BoundedSeq, SeqOf, ConfigAssumption
<1>2. <<Default>> \in Seq(Item)
      BY DEF Item
<1> QED BY <1>1, <1>2 DEF ParseInit, ConfigTypes
-----------------------------------------------------------------------------
LEMMA PrefixOfItself ==
    ASSUME NEW S, NEW val \in Seq(S), NEW m \in 0 .. Len(val)
    PROVE  IsPrefix(SubSeq(val, 1, m), val)
<1>1. Len(SubSeq(val, 1, m)) = m
      OBVIOUS
<1>2. SubSeq(SubSeq(val, 1, m), 1, m) = SubSeq(val, 1, m)
      OBVIOUS
<1> QED BY <1>1, <1>2 DEF IsPrefix

\* However lists of ports are given and wherever one is broken, the ports in force are
\* the beginning of one list (config.cpp:57-60, 298-302).
THEOREM PortsNeverMix == ParseSpec => []PortsOfOneList
<1>1. ParseInit => PortsOfOneList
      BY DEF ParseInit, PortsOfOneList, Setting
<1>2. ASSUME ConfigTypes, PortsOfOneList, [ParseNext]_parseVars
      PROVE  PortsOfOneList'
  <2>1. ASSUME NEW o \in Options, Assign(o)
        PROVE  PortsOfOneList'
    <3>1. CASE o.key = "ports"
      <4>1. cfg'["ports"] = ports_from(o.val) /\ o.val \in Seq(Item)
            /\ BadAt(o.val) \in 0 .. Len(o.val)
            BY <1>2, <2>1, <3>1, Taken, OptionType, ConfigAssumption
      <4>2. \E m \in 0 .. Len(o.val) : ports_from(o.val) = SubSeq(o.val, 1, m)
            BY <4>1 DEF ports_from
      <4>3. IsPrefix(cfg'["ports"], o.val)
            BY <4>1, <4>2, PrefixOfItself
      <4> QED BY <3>1, <4>3 DEF PortsOfOneList
    <3>2. CASE o.key # "ports"
      <4>1. cfg'["ports"] = cfg["ports"]
            BY <1>2, <2>1, <3>2, Taken, ConfigAssumption DEF Setting
      <4> QED BY <1>2, <4>1 DEF PortsOfOneList
    <3> QED BY <3>1, <3>2
  <2>2. ASSUME UNCHANGED cfg
        PROVE  PortsOfOneList'
        BY <1>2, <2>2 DEF PortsOfOneList
  <2>3. /\ pass \in {"first", "second"} /\ i <= Len(argv) => argv[i] \in Options
        /\ pass = "preset" /\ i <= Len(file) => file[i] \in Options
        BY <1>2 DEF ConfigTypes
  <2> QED BY <1>2, <2>1, <2>2, <2>3
          DEF ParseNext, LogLevel, PresetLine, RealOption, PassEnds, parseVars
<1> QED BY <1>1, <1>2, InitTypes, NextTypes, ConfigAssumption, PTL DEF ParseSpec
-----------------------------------------------------------------------------
(* Configuration: precedence *)

\* v is what the last of the first n options that is good for s gives, or base.
Latest(s, options, n, v, base) ==
    \/ v = base /\ \A k \in 1 .. n : ~Good(s, options[k])
    \/ \E k \in 1 .. n : /\ Good(s, options[k]) /\ v = options[k].val
                         /\ \A j \in k + 1 .. n : ~Good(s, options[j])

\* A value in the place of <<Default>>.
FirstOf(v, w) == IF v # <<Default>> THEN v ELSE w

LEMMA LatestStep ==
    ASSUME NEW s, NEW options, NEW n \in Nat, NEW v, NEW w, NEW base,
           Latest(s, options, n, v, base),
           Good(s, options[n + 1]) => w = options[n + 1].val,
           ~Good(s, options[n + 1]) => w = v
    PROVE  Latest(s, options, n + 1, w, base)
<1>1. CASE Good(s, options[n + 1])
  <2>1. n + 1 \in 1 .. n + 1 /\ \A j \in n + 1 + 1 .. n + 1 : ~Good(s, options[j])
        OBVIOUS
  <2> QED BY <1>1, <2>1 DEF Latest
<1>2. CASE ~Good(s, options[n + 1])
  <2>1. CASE v = base /\ \A k \in 1 .. n : ~Good(s, options[k])
    <3>1. \A k \in 1 .. n + 1 : k \in 1 .. n \/ k = n + 1
          OBVIOUS
    <3> QED BY <1>2, <2>1, <3>1 DEF Latest
  <2>2. ASSUME NEW k \in 1 .. n, Good(s, options[k]), v = options[k].val,
               \A j \in k + 1 .. n : ~Good(s, options[j])
        PROVE  Latest(s, options, n + 1, w, base)
    <3>1. k \in 1 .. n + 1 /\ \A j \in k + 1 .. n + 1 : j \in k + 1 .. n \/ j = n + 1
          OBVIOUS
    <3> QED BY <1>2, <2>2, <3>1 DEF Latest
  <2> QED BY <2>1, <2>2 DEF Latest
<1> QED BY <1>1, <1>2

\* At the end, that is LastGood, where there is a good one.
LEMMA LatestIsLastGood ==
    ASSUME ConfigAssumption, NEW s, NEW options \in Seq(Options), NEW v, NEW base,
           Latest(s, options, Len(options), v, base)
    PROVE  v = FirstOf(LastGood(s, options), base)
<1> DEFINE I == {k \in 1 .. Len(options) : options[k].key = s /\ ~throws(options[k])}
           last == IF I # {} THEN Max(I) ELSE 0
<1>1. LastGood(s, options) = IF last = 0 THEN <<Default>> ELSE options[last].val
      BY DEF LastGood, SelectLastInSeq
<1>2. CASE v = base /\ \A k \in 1 .. Len(options) : ~Good(s, options[k])
  <2>1. I = {}
        BY <1>2 DEF Good
  <2>2. last = 0
        BY <2>1
  <2> QED BY <1>1, <1>2, <2>2 DEF FirstOf
<1>3. ASSUME NEW k \in 1 .. Len(options), Good(s, options[k]), v = options[k].val,
             \A j \in k + 1 .. Len(options) : ~Good(s, options[j])
      PROVE  v = FirstOf(LastGood(s, options), base)
  <2>1. k \in I /\ \A j \in I : k >= j
        BY <1>3 DEF Good
  <2>2. I \subseteq Nat
        OBVIOUS
  <2> HIDE DEF I
  <2>3. Max(I) = k
    <3>1. Max(I) \in I /\ \A j \in I : Max(I) >= j
          BY <2>1 DEF Max
    <3>2. Max(I) >= k /\ k >= Max(I) /\ Max(I) \in Nat /\ k \in Nat
          BY <2>1, <2>2, <3>1
    <3> QED BY <3>2
  <2>4. last = k /\ k # 0
        BY <2>1, <2>3
  <2>5. options[k] \in Options
        OBVIOUS
  <2>6. v # <<Default>>
        BY <1>3, <2>5, OptionType
  <2> QED BY <1>1, <1>3, <2>4, <2>6 DEF FirstOf
<1> QED BY <1>2, <1>3 DEF Latest

\* Passes one by one: what a pass has seen, over what it found.
Sound(s, n)  == s = "ports" => ~\E k \in 1 .. n : file[k].key = s /\ throws(file[k])
FirstPass(s) == IF s = "log_level" THEN Latest(s, argv, i - 1, cfg[s], <<Default>>)
                ELSE cfg[s] = <<Default>>
Given(s)     == IF s = "log_level" THEN LastGood(s, argv) ELSE <<Default>>
PresetPass(s) == Sound(s, i - 1) => Latest(s, file, i - 1, cfg[s], Given(s))
SecondPass(s) ==
    Sound(s, Len(file)) =>
        IF s = "log_level" THEN cfg[s] = FirstOf(LastGood(s, file), LastGood(s, argv))
        ELSE Latest(s, argv, i - 1, cfg[s], LastGood(s, file))
\* The command line is over whatever a broken list of the preset left.
Over(s) == s # "log_level" => \E b : Latest(s, argv, i - 1, cfg[s], b)
Final(s) ==
    s # "log_level" =>
        /\ \E b : cfg[s] = FirstOf(LastGood(s, argv), b)
        /\ Sound(s, Len(file)) => cfg[s] = FirstOf(LastGood(s, argv), LastGood(s, file))

PassInv == \A s \in Setting : /\ pass = "first"  => FirstPass(s)
                              /\ pass = "preset" => PresetPass(s)
                              /\ pass = "second" => SecondPass(s) /\ Over(s)
                              /\ pass = "done"   => Final(s)

LEMMA NextPass ==
    ASSUME ConfigAssumption, ConfigTypes, PassInv, [ParseNext]_parseVars
    PROVE  PassInv'
<1> SUFFICES ASSUME NEW s \in Setting
             PROVE  /\ pass' = "first"  => FirstPass(s)'
                    /\ pass' = "preset" => PresetPass(s)'
                    /\ pass' = "second" => SecondPass(s)' /\ Over(s)'
                    /\ pass' = "done"   => Final(s)'
    BY DEF PassInv
<1>t. /\ i \in Nat \ {0} /\ i - 1 \in Nat /\ (i - 1) + 1 = i /\ (i + 1) - 1 = i
      /\ argv \in Seq(Options) /\ file \in Seq(Options)
      BY DEF ConfigTypes
<1>1. CASE LogLevel
  <2>1. /\ pass = "first" /\ pass' = "first" /\ argv[i] \in Options /\ i' - 1 = i
        /\ UNCHANGED <<argv, file>>
        BY <1>1, <1>t DEF LogLevel
  <2>2. FirstPass(s)
        BY <2>1 DEF PassInv
  <2>3. CASE s = "log_level"
    <3>1. /\ Good(s, argv[i]) => cfg'[s] = argv[i].val
          /\ ~Good(s, argv[i]) => cfg'[s] = cfg[s]
          BY <1>1, <2>1, <2>3, Taken DEF LogLevel, Good, throws
    <3>2. Latest(s, argv, i - 1, cfg[s], <<Default>>)
          BY <2>2, <2>3 DEF FirstPass
    <3>3. Latest(s, argv, i, cfg'[s], <<Default>>)
          BY <1>t, <3>1, <3>2, LatestStep
    <3> QED BY <2>1, <2>3, <3>3 DEF FirstPass, Latest, Good, throws
  <2>4. CASE s # "log_level"
    <3>1. cfg'[s] = cfg[s]
          BY <1>1, <2>1, <2>4, Taken DEF LogLevel
    <3> QED BY <2>1, <2>2, <2>4, <3>1 DEF FirstPass
  <2> QED BY <2>1, <2>3, <2>4
<1>2. CASE PresetLine
  <2>1. /\ pass = "preset" /\ pass' = "preset" /\ file[i] \in Options /\ i' - 1 = i
        /\ UNCHANGED <<argv, file>> /\ Assign(file[i])
        BY <1>2, <1>t DEF PresetLine
  <2>2. PresetPass(s)
        BY <2>1 DEF PassInv
  <2>3. ASSUME Sound(s, i) PROVE Latest(s, file, i, cfg'[s], Given(s))
    <3>1. Sound(s, i - 1) /\ ~(s = "ports" /\ file[i].key = s /\ throws(file[i]))
          BY <1>t, <2>3 DEF Sound
    <3>2. Latest(s, file, i - 1, cfg[s], Given(s))
          BY <2>2, <3>1 DEF PresetPass
    <3>3. /\ Good(s, file[i]) => cfg'[s] = file[i].val
          /\ ~Good(s, file[i]) => cfg'[s] = cfg[s]
          BY <2>1, <3>1, Taken DEF Good
    <3> QED BY <1>t, <3>2, <3>3, LatestStep
  <2>4. PresetPass(s)'
        BY <2>1, <2>3 DEF PresetPass, Sound, Latest, Good, throws, Given
  <2> QED BY <2>1, <2>4
<1>3. CASE RealOption
  <2>1. /\ pass = "second" /\ argv[i] \in Options /\ i' - 1 = i
        /\ UNCHANGED <<argv, file>>
        /\ pass' = IF throws(argv[i]) THEN "usage" ELSE "second"
        BY <1>3, <1>t DEF RealOption
  <2>2. SecondPass(s) /\ Over(s)
        BY <2>1 DEF PassInv
  <2>3. CASE throws(argv[i])
        BY <2>1, <2>3
  <2>4. CASE ~throws(argv[i])
    <3>1. /\ s = "log_level" => cfg'[s] = cfg[s]
          /\ s # "log_level" => /\ Good(s, argv[i]) => cfg'[s] = argv[i].val
                                /\ ~Good(s, argv[i]) => cfg'[s] = cfg[s]
          BY <1>3, <2>1, <2>4, Taken DEF RealOption, Good
    <3>2. ASSUME Sound(s, Len(file)), s # "log_level"
          PROVE  Latest(s, argv, i, cfg'[s], LastGood(s, file))
      <4>1. Latest(s, argv, i - 1, cfg[s], LastGood(s, file))
            BY <2>2, <3>2 DEF SecondPass
      <4> QED BY <1>t, <3>1, <3>2, <4>1, LatestStep
    <3>3. Sound(s, Len(file)) /\ s = "log_level"
            => cfg'[s] = FirstOf(LastGood(s, file), LastGood(s, argv))
          BY <2>2, <3>1 DEF SecondPass
    <3>4. SecondPass(s)'
          BY <2>1, <3>2, <3>3 DEF SecondPass, Sound, Latest, Good, throws
    <3>5. Over(s)'
      <4>1. CASE s # "log_level"
        <5>1. PICK b : Latest(s, argv, i - 1, cfg[s], b)
              BY <2>2, <4>1 DEF Over
        <5>2. Latest(s, argv, i, cfg'[s], b)
              BY <1>t, <3>1, <4>1, <5>1, LatestStep
        <5> QED BY <2>1, <5>2 DEF Over, Latest, Good, throws
      <4> QED BY <4>1 DEF Over
    <3> QED BY <2>1, <2>4, <3>4, <3>5
  <2> QED BY <2>3, <2>4
<1>4. CASE PassEnds
  <2>1. i' = 1 /\ UNCHANGED <<argv, file, cfg>> /\ i' - 1 = 0
        BY <1>4 DEF PassEnds
  <2>2. CASE pass = "first" /\ i > Len(argv) /\ pass' = "preset"
    <3>1. i - 1 = Len(argv)
          BY <2>2 DEF ConfigTypes
    <3>2. cfg[s] = Given(s)
      <4>1. FirstPass(s)
            BY <2>2 DEF PassInv
      <4>2. s = "log_level" => cfg[s] = FirstOf(LastGood(s, argv), <<Default>>)
            BY <1>t, <3>1, <4>1, LatestIsLastGood DEF FirstPass
      <4> QED BY <4>1, <4>2 DEF FirstOf, Given, FirstPass
    <3>3. Latest(s, file, 0, cfg[s], Given(s))
          BY <3>2 DEF Latest
    <3>4. PresetPass(s)'
          BY <2>1, <3>3 DEF PresetPass, Latest, Good, throws, Given
    <3> QED BY <2>2, <3>4
  <2>3. CASE pass = "preset" /\ i > Len(file) /\ pass' = "second"
    <3>1. i - 1 = Len(file)
          BY <2>3 DEF ConfigTypes
    <3>2. ASSUME Sound(s, Len(file))
          PROVE  cfg[s] = FirstOf(LastGood(s, file), Given(s))
      <4>1. PresetPass(s)
            BY <2>3 DEF PassInv
      <4>2. Latest(s, file, Len(file), cfg[s], Given(s))
            BY <3>1, <3>2, <4>1 DEF PresetPass
      <4> QED BY <1>t, <4>2, LatestIsLastGood
    <3>3. ASSUME Sound(s, Len(file)), s # "log_level"
          PROVE  Latest(s, argv, 0, cfg[s], LastGood(s, file))
      <4>1. cfg[s] = LastGood(s, file)
            BY <3>2, <3>3 DEF FirstOf, Given
      <4> QED BY <4>1 DEF Latest
    <3>4. SecondPass(s)'
          BY <2>1, <3>2, <3>3 DEF SecondPass, Sound, Latest, Good, throws, Given
    <3>5. Latest(s, argv, 0, cfg[s], cfg[s])
          BY DEF Latest
    <3>6. Over(s)'
          BY <2>1, <3>5 DEF Over, Latest, Good, throws
    <3> QED BY <2>3, <3>4, <3>6
  <2>4. CASE pass = "second" /\ i > Len(argv) /\ pass' = "done"
    <3>1. i - 1 = Len(argv)
          BY <2>4 DEF ConfigTypes
    <3>2. SecondPass(s) /\ Over(s)
          BY <2>4 DEF PassInv
    <3>3. ASSUME Sound(s, Len(file)), s # "log_level"
          PROVE  cfg[s] = FirstOf(LastGood(s, argv), LastGood(s, file))
          BY <1>t, <3>1, <3>2, <3>3, LatestIsLastGood DEF SecondPass
    <3>4. ASSUME s # "log_level"
          PROVE  \E b : cfg[s] = FirstOf(LastGood(s, argv), b)
      <4>1. PICK b : Latest(s, argv, Len(argv), cfg[s], b)
            BY <3>1, <3>2, <3>4 DEF Over
      <4> QED BY <1>t, <4>1, LatestIsLastGood
    <3>5. Final(s)'
          BY <2>1, <3>3, <3>4 DEF Final, Sound, throws
    <3> QED BY <2>4, <3>5
  <2> QED BY <1>4, <2>2, <2>3, <2>4 DEF PassEnds
<1>5. CASE UNCHANGED parseVars
      BY <1>5 DEF parseVars, PassInv, FirstPass, PresetPass, SecondPass, Final, Sound, Given,
                  Latest, Good, throws, Over
<1> QED BY <1>1, <1>2, <1>3, <1>4, <1>5 DEF ParseNext

\* For every command line and every preset: a setting other than the log level ends up
\* with its last good value of the command line, whatever lines of the preset are broken,
\* else with that of the preset, else with the default (config.cpp:87-116, 272-324).
THEOREM LastGoodWins == ParseSpec => []LastGoodHolds
<1>1. ParseInit => PassInv
      BY DEF ParseInit, PassInv, FirstPass, Latest, Setting
<1>2. ConfigTypes /\ PassInv => LastGoodHolds
  <2> SUFFICES ASSUME PassInv, pass = "done", ConfigTypes, NEW s \in Setting \ {"log_level"}
               PROVE  /\ Set(s) => cfg[s] = LastGood(s, argv)
                      /\ ~Set(s) /\ (s = "ports" => ~Broken(s)) => cfg[s] = LastGood(s, file)
      BY DEF LastGoodHolds
  <2>1. Final(s)
        BY DEF PassInv
  <2>2. (s = "ports" => ~Broken(s)) => Sound(s, Len(file))
        BY DEF ConfigTypes, Sound, Broken
  <2> QED BY <2>1, <2>2 DEF Final, FirstOf, Set
<1> QED BY <1>1, <1>2, InitTypes, NextTypes, NextPass, ConfigAssumption, PTL DEF ParseSpec
=============================================================================
