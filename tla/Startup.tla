------------------------------ MODULE Startup ------------------------------
(***************************************************************************)
(* What main() (src/main.cpp:95-144) does between parse_args and the       *)
(* engine: it settles fake_ttl (module AutoTtl), has the tuner choose a    *)
(* strategy when it was asked to (module AutoTune), and builds the         *)
(* pipeline, or gives up.                                                  *)
(*                                                                         *)
(* A definition marked "mutant" is a faulty variant of the one after it;   *)
(* nothing uses it but the mutation runs listed in PROJECT.json.           *)
(*                                                                         *)
(* Bounds: those of AutoTtl and AutoTune, and the configured strategies    *)
(* Configurations.                                                         *)
(***************************************************************************)
EXTENDS AutoTtl, Sequences

CONSTANTS candidates, Attempts, Latency,        \* of AutoTune
          Known,                                \* names build_pipeline makes a stage of
          Configurations                        \* cfg.strategies as configured

ASSUME StartupAssumption ==
    /\ candidates \in Seq(Known) /\ Attempts \in Nat \ {0} /\ Latency \subseteq Nat
    /\ Configurations \subseteq Seq(STRING)

VARIABLES
    main,           \* place of main(): "ttl", "tune", "build", "exit", "engine"
    auto_tune,      \* cfg.auto_tune with a target
    strategies,     \* cfg.strategies
    tuneAt, sc, scores, divert, running_, worker, hello,    \* of AutoTune
    best, seen
ttlVars     == vars
tuneVars    == <<tuneAt, sc, scores, divert, running_, worker, hello, best, seen>>
startupVars == <<main, auto_tune, strategies, ttlVars, tuneVars>>

Tuner == INSTANCE AutoTune WITH at <- tuneAt

SettleTtl == /\ main = "ttl" /\ Next
             /\ UNCHANGED <<main, auto_tune, strategies, tuneVars>>

\* The locals of discover() and its result go out of scope.
TtlSettled == /\ main = "ttl" /\ at = "done"
              /\ main' = IF auto_tune THEN "tune" ELSE "build"
              /\ t' = 1 /\ hops' = 0 /\ silent' = 0
              /\ UNCHANGED <<auto_tune, strategies, auto_ttl, fake_ttl, distance, at,
                             tuneVars>>

Tune(step) == /\ main = "tune" /\ step
              /\ UNCHANGED <<main, auto_tune, strategies, ttlVars>>

\* r.ok is false when no candidate had a success: the configured ones stay.
TakeLast == /\ main = "tune" /\ tuneAt = "done" /\ main' = "build"          \* mutant
            /\ strategies' = IF best = Tuner!None THEN strategies
                                                        ELSE <<scores[Len(scores)].name>>
            /\ UNCHANGED <<auto_tune, ttlVars, tuneVars>>
TakeBest == /\ main = "tune" /\ tuneAt = "done" /\ main' = "build"
            /\ strategies' = IF best = Tuner!None THEN strategies
                                                        ELSE <<best.name>>
            /\ UNCHANGED <<auto_tune, ttlVars, tuneVars>>

\* build_pipeline skips unknown names; main() returns 1 without a stage.
build_pipeline(names) == SelectSeq(names, LAMBDA s : s \in Known)
stages == build_pipeline(strategies)
BuildPipeline == /\ main = "build"
                 /\ main' = IF stages = <<>> THEN "exit" ELSE "engine"
                 /\ UNCHANGED <<auto_tune, strategies, ttlVars, tuneVars>>

StartupInit == /\ Init /\ Tuner!Init
               /\ main = "ttl" /\ auto_tune \in BOOLEAN
               /\ strategies \in Configurations

mainThread == \/ SettleTtl \/ TtlSettled \/ Tune(Tuner!tuner)
              \/ TakeBest \/ BuildPipeline
tuneThread == Tune(Tuner!workerStep)

StartupNext == mainThread \/ tuneThread

\* Both threads run; select() and IcmpSendEcho give up after their timeouts.
StartupSpec == /\ StartupInit /\ [][StartupNext]_startupVars
               /\ WF_startupVars(mainThread) /\ WF_startupVars(tuneThread)
-----------------------------------------------------------------------------
\* Whatever failed on the way, name resolution, ICMP, a handle or every attempt of the
\* tuner, the engine starts with a settled TTL, with a stage, and with either what was
\* configured or a strategy the tuner saw succeed; it is the tuner's whenever a
\* candidate had a success (main.cpp:95-144).
EngineIsPrepared ==
    main = "engine" =>
        /\ fake_ttl >= 0
        /\ LET worked == {scores[k].name : k \in {k \in DOMAIN scores :
                                                    scores[k].successes > 0}}
           IN  IF worked = {} THEN stages # <<>> /\ strategies \in Configurations
               ELSE \E name \in worked : strategies = <<name>>

\* The loop over the scores finds a maximum of the order of the comment at
\* auto_tune.cpp:356, and finds one exactly if a strategy had a success.
BestIsBest == Tuner!BestIsBest

\* tune::run() blocks "until tuning is done" (auto_tune.hpp:10), which it always is: a
\* worker blocked in recv lets itself be joined, and so main() gets to the engine or
\* to its exit.
StartupEnds == (main = "ttl") ~> (main \in {"exit", "engine"})
=============================================================================
