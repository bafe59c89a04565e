------------------------------ MODULE Process ------------------------------
(***************************************************************************)
(* main() (src/main.cpp) from its first line to its last: it reads the     *)
(* configuration (module Config), settles the TTL, the strategies and the  *)
(* pipeline (Startup), and then builds, runs and destroys the engine and   *)
(* the redirector (Lifecycle).                                             *)
(*                                                                         *)
(* What a stage does not hand on is forgotten when the next one begins:    *)
(* its variables go back to where they started, as the code's locals go    *)
(* out of scope.  Of what parse_args returns the TTL is handed on; the     *)
(* targets and the strategies, which Config does not have, are chosen      *)
(* then.                                                                   *)
(*                                                                         *)
(* A console handler that comes before main() has built its objects finds  *)
(* null pointers and changes nothing (main.cpp:37-38), whenever it comes:  *)
(* it is let in from the stage of Lifecycle on, which begins before them.  *)
(***************************************************************************)
EXTENDS MCConfig, MCStartup, MCLifecycle

\* Of main, besides the places of Startup: "parse" and "running".
processVars == <<parseVars, startupVars, lifeVars>>

ParseOptions == /\ main = "parse" /\ ParseNext
                /\ UNCHANGED <<startupVars, lifeVars>>

\* The usage message: main() returns 2.
Usage == /\ main = "parse" /\ pass = "usage" /\ main' = "exit"
         /\ UNCHANGED <<parseVars, auto_tune, strategies, ttlVars, tuneVars, lifeVars>>

\* 4 is the default (strategy.hpp:61).
Configure ==
    /\ main = "parse" /\ pass = "done" /\ main' = "ttl"
    /\ fake_ttl' = IF cfg["fake_ttl"] = <<Default>> THEN 4 ELSE Head(cfg["fake_ttl"])
    /\ auto_ttl' \in BOOLEAN /\ distance' \in Distance
    /\ auto_tune' \in BOOLEAN /\ strategies' \in Configurations
    /\ argv' = <<>> /\ file' = <<>> /\ cfg' = [s \in Setting |-> <<Default>>] /\ i' = 1
    /\ UNCHANGED <<pass, at, t, hops, silent, tuneVars, lifeVars>>

Prepare == StartupNext /\ UNCHANGED <<parseVars, lifeVars>>

\* The configuration and the pipeline move into the engine.
Run == /\ main = "engine" /\ main' = "running"
       /\ auto_ttl' = FALSE /\ fake_ttl' = 4 /\ distance' = 0
       /\ at' = "begin" /\ t' = 1 /\ hops' = 0 /\ silent' = 0
       /\ auto_tune' = FALSE /\ strategies' = <<>>
       /\ tuneAt' = "resolve" /\ sc' = Tuner!Zero /\ scores' = <<>>
       /\ divert' = "none" /\ running_' = FALSE /\ worker' = "none"
       /\ hello' = "none" /\ best' = Tuner!None /\ seen' = 0
       /\ UNCHANGED <<parseVars, lifeVars>>

Live(A) == main = "running" /\ A /\ UNCHANGED <<parseVars, startupVars>>

\* main() is one thread.
mainRuns == \/ ParseOptions \/ Usage \/ Configure
            \/ mainThread /\ UNCHANGED <<parseVars, lifeVars>>
            \/ Run
            \/ Live(mainStep)

ProcessInit == /\ ParseInit /\ LifeInit /\ Tuner!Init
               /\ main = "parse" /\ auto_tune = FALSE /\ strategies = <<>>
               /\ auto_ttl = FALSE /\ fake_ttl = 4 /\ distance = 0
               /\ at = "begin" /\ t = 1 /\ hops = 0 /\ silent = 0

ProcessNext == ParseOptions \/ Usage \/ Configure \/ Prepare \/ Run \/ Live(LifeNext)

\* Every thread that can run does; nobody has to press Ctrl-C, and the driver does not
\* have to deliver packets.
ProcessSpec ==
    /\ ProcessInit /\ [][ProcessNext]_processVars
    /\ WF_processVars(mainRuns)
    /\ WF_processVars(tuneThread /\ UNCHANGED <<parseVars, lifeVars>>)
    /\ WF_processVars(Live(PrinterExit))
    /\ \A c \in Part : /\ WF_processVars(Live(CheckRunning(c)))
                       /\ WF_processVars(Live(RecvFails(c)))
    /\ \A x \in Thread : WF_processVars(Live(StopStep(x)))
=============================================================================
