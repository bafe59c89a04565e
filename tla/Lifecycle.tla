----------------------------- MODULE Lifecycle -----------------------------
(***************************************************************************)
(* The life of the process: main() (src/main.cpp) builds an Engine, a      *)
(* StatsPrinter and a DnsRedirect on its stack, starts them, waits for the *)
(* engine and destroys them; console control handlers, each in a thread    *)
(* Windows makes for the event, call stop() on the engine and on the       *)
(* redirector at any moment.  The redirector's start(), stop() and         *)
(* destructor are modelled step by step; the engine, whose own steps are   *)
(* the module Engine, by its flag, its handle and one worker.              *)
(*                                                                         *)
(* Both parts own a flag running_, a WinDivert handle and a worker that    *)
(* tests the flag and blocks in recv: the functions running, divert and    *)
(* worker, indexed by the part.                                            *)
(*                                                                         *)
(* Destroyed objects: a handler may still call stop() on an object whose   *)
(* destructor has run, in the frame of a main() that has not returned; it  *)
(* finds running_ as the destructor left it.                               *)
(*                                                                         *)
(* A definition marked "mutant" is a faulty variant of the one after it;   *)
(* nothing uses it but the mutation runs listed in PROJECT.json.           *)
(***************************************************************************)
EXTENDS Naturals

CONSTANTS Main, Handler, WantDns

ASSUME LifecycleAssumption == Main \notin Handler /\ WantDns \in BOOLEAN

VARIABLES
    place,      \* place of main and of each handler
    running,    \* running_ of the engine and of the redirector
    divert_,    \* their handles
    worker_,    \* their worker threads
    th_,        \* the redirector's std::thread object
    printer     \* the statistics thread
lifeVars == <<place, running, divert_, worker_, th_, printer>>

Part   == {"engine", "dnr"}
Thread == Handler \cup {Main}
Ended  == place[Main] \in {"exited", "terminated"}

\* g_engine and g_dnr are null until main has built the objects.
g_engine == place[Main] # "begin"
g_dnr    == place[Main] \notin {"begin", "built engine"}

Step(t, from, to) == ~Ended /\ place[t] = from /\ place' = [place EXCEPT ![t] = to]
-----------------------------------------------------------------------------
(* A worker thread of either part *)

CheckRunning(c) ==
    /\ ~Ended /\ worker_[c] = "guard"
    /\ worker_' = [worker_ EXCEPT ![c] = IF running[c] THEN "recv" ELSE "done"]
    /\ UNCHANGED <<place, running, divert_, th_, printer>>

\* recv gives a packet, which the worker handles, while the handle is open.
RecvPacket(c) ==
    /\ ~Ended /\ worker_[c] = "recv" /\ divert_[c] = "open"
    /\ worker_' = [worker_ EXCEPT ![c] = "guard"]
    /\ UNCHANGED <<place, running, divert_, th_, printer>>

\* Once the handle is shut down (or closed) it fails.
RecvFails(c) ==
    /\ ~Ended /\ worker_[c] = "recv" /\ divert_[c] # "open"
    /\ worker_' = [worker_ EXCEPT ![c] = IF running[c] THEN "guard" ELSE "done"]
    /\ UNCHANGED <<place, running, divert_, th_, printer>>
-----------------------------------------------------------------------------
(* stop() of the engine and of the redirector, called by a handler or by a *)
(* destructor in main                                                      *)

\* running_.exchange(false): only one caller sees true.
Exchange(c) == running' = [running EXCEPT ![c] = FALSE]
ShutNothing(c) == UNCHANGED divert_                                 \* mutant
Shut(c) == divert_' = [divert_ EXCEPT ![c] = IF @ = "open" THEN "shut" ELSE @]

Press(h) == /\ Step(h, "idle", "estop")
            /\ UNCHANGED <<running, divert_, worker_, th_, printer>>

\* Where a thread goes after engine.stop().
afterEngine(t) == IF t = Main THEN "~ewait" ELSE "stop"

EngineStop(t) ==
    /\ Step(t, "estop", IF g_engine /\ running["engine"] THEN "eshut"
                                                         ELSE afterEngine(t))
    /\ Exchange("engine")
    /\ UNCHANGED <<divert_, worker_, th_, printer>>

EngineShut(t) == /\ Step(t, "eshut", afterEngine(t))
                 /\ Shut("engine")
                 /\ UNCHANGED <<running, worker_, th_, printer>>

\* Where a thread goes after dnr.stop().
afterDnr(t) == IF t = Main THEN "~th" ELSE "done"

StopKept(t) ==                                                      \* mutant
    /\ Step(t, "stop", IF g_dnr /\ running["dnr"] THEN "shut" ELSE afterDnr(t))
    /\ UNCHANGED <<running, divert_, worker_, th_, printer>>
Stop(t) ==
    /\ Step(t, "stop", IF g_dnr /\ running["dnr"] THEN "shut" ELSE afterDnr(t))
    /\ Exchange("dnr")
    /\ UNCHANGED <<divert_, worker_, th_, printer>>

StopShut(t) == /\ Step(t, "shut", "join")
               /\ Shut("dnr")
               /\ UNCHANGED <<running, worker_, th_, printer>>

\* if (th_.joinable()) th_.join();
StopJoin(t) == /\ Step(t, "join", "close")
               /\ th_ = "joinable" => worker_["dnr"] = "done"
               /\ th_' = IF th_ = "joinable" THEN "joined" ELSE th_
               /\ UNCHANGED <<running, divert_, worker_, printer>>

Closed(c) == [divert_ EXCEPT ![c] = IF @ = "none" THEN @ ELSE "closed"]

StopClose(t) == /\ Step(t, "close", afterDnr(t))
                /\ divert_' = Closed("dnr")
                /\ UNCHANGED <<running, worker_, th_, printer>>

StopStep(t) == \/ EngineStop(t) \/ EngineShut(t)
               \/ Stop(t) \/ StopShut(t) \/ StopJoin(t) \/ StopClose(t)
-----------------------------------------------------------------------------
(* main() *)

Build == /\ \/ Step(Main, "begin", "built engine")
            \/ Step(Main, "built engine", IF WantDns THEN "claim" ELSE "eopen")
         /\ UNCHANGED <<running, divert_, worker_, th_, printer>>

\* dnr.start(): an exception leads to the destructors.
DnrClaim == /\ Step(Main, "claim", "parse")
            /\ running' = [running EXCEPT !["dnr"] = TRUE]
            /\ UNCHANGED <<divert_, worker_, th_, printer>>

DnrParse == /\ \/ Step(Main, "parse", "open") /\ UNCHANGED running
               \/ Step(Main, "parse", "stop") /\ Exchange("dnr")
            /\ UNCHANGED <<divert_, worker_, th_, printer>>

DnrOpen == /\ \/ Step(Main, "open", "spawn")
                 /\ divert_' = [divert_ EXCEPT !["dnr"] = "open"]
              \/ Step(Main, "open", "stop") /\ UNCHANGED divert_
           /\ UNCHANGED <<running, worker_, th_, printer>>

\* The thread runs before the object that stands for it is in th_.
DnrSpawnIgnored == /\ Step(Main, "spawn", "assign")                 \* mutant
                   /\ UNCHANGED <<worker_, running, divert_, th_, printer>>
DnrSpawn == /\ \/ Step(Main, "spawn", "assign")
                  /\ worker_' = [worker_ EXCEPT !["dnr"] = "guard"]
               \/ Step(Main, "spawn", "stop") /\ UNCHANGED worker_
            /\ UNCHANGED <<running, divert_, th_, printer>>

DnrAssign == /\ Step(Main, "assign", "eopen")
             /\ th_' = "joinable"
             /\ UNCHANGED <<running, divert_, worker_, printer>>

\* engine.start()
EngineOpen == /\ \/ Step(Main, "eopen", "erun")
                    /\ divert_' = [divert_ EXCEPT !["engine"] = "open"]
                 \/ Step(Main, "eopen", "stop") /\ UNCHANGED divert_
              /\ UNCHANGED <<running, worker_, th_, printer>>

EngineRun == /\ Step(Main, "erun", "espawn")
             /\ running' = [running EXCEPT !["engine"] = TRUE]
             /\ UNCHANGED <<divert_, worker_, th_, printer>>

\* Thread creation may throw with some workers running or with none.
EngineSpawn == /\ \/ Step(Main, "espawn", "print") \/ Step(Main, "espawn", "stop")
               /\ \/ worker_' = [worker_ EXCEPT !["engine"] = "guard"]
                  \/ place'[Main] = "stop" /\ UNCHANGED worker_
               /\ UNCHANGED <<running, divert_, th_, printer>>

\* if (want_stats) printer.start(stats_ival), outside the try block.
PrinterStart == /\ \/ Step(Main, "print", "wait") /\ printer' \in {"none", "on"}
                   \/ Step(Main, "print", "terminated") /\ UNCHANGED printer
                /\ UNCHANGED <<running, divert_, worker_, th_>>

EngineWait == /\ Step(Main, "wait", "pstop")
              /\ worker_["engine"] = "done"
              /\ divert_' = Closed("engine")
              /\ UNCHANGED <<running, worker_, th_, printer>>

\* printer.stop(): the thread sees the flag when its sleep is over.
PrinterStop == /\ Step(Main, "pstop", "pjoin")
               /\ printer' = IF printer = "on" THEN "stopping" ELSE printer
               /\ UNCHANGED <<running, divert_, worker_, th_>>

PrinterExit == /\ ~Ended /\ printer = "stopping"
               /\ printer' = "none"
               /\ UNCHANGED <<place, running, divert_, worker_, th_>>

PrinterJoin == /\ Step(Main, "pjoin", "stop")
               /\ printer = "none"
               /\ UNCHANGED <<running, divert_, worker_, th_, printer>>

\* The members of dnr: a std::thread that is still joinable ends the process.
DestroyDnr == /\ IF th_ = "joinable"
                 THEN Step(Main, "~th", "terminated") /\ UNCHANGED divert_
                 ELSE Step(Main, "~th", "estop") /\ divert_' = Closed("dnr")
              /\ UNCHANGED <<running, worker_, th_, printer>>

\* ~Engine() after its stop(): wait().
DestroyEngineNow == /\ Step(Main, "~ewait", "exited")               \* mutant
                    /\ divert_' = Closed("engine")
                    /\ UNCHANGED <<running, worker_, th_, printer>>
DestroyEngine == /\ Step(Main, "~ewait", "exited")
                 /\ worker_["engine"] \in {"none", "done"}
                 /\ divert_' = Closed("engine")
                 /\ UNCHANGED <<running, worker_, th_, printer>>

mainStep == \/ Build \/ DnrClaim \/ DnrParse \/ DnrOpen \/ DnrSpawn \/ DnrAssign
            \/ EngineOpen \/ EngineRun \/ EngineSpawn \/ PrinterStart \/ EngineWait
            \/ PrinterStop \/ PrinterJoin \/ DestroyDnr \/ DestroyEngine
-----------------------------------------------------------------------------
LifeInit == /\ place = [t \in Thread |-> IF t = Main THEN "begin" ELSE "idle"]
            /\ running = [c \in Part |-> FALSE]
            /\ divert_ = [c \in Part |-> "none"]
            /\ worker_ = [c \in Part |-> "none"]
            /\ th_ = "none" /\ printer = "none"

LifeNext == \/ mainStep \/ PrinterExit
            \/ \E c \in Part : CheckRunning(c) \/ RecvPacket(c) \/ RecvFails(c)
            \/ \E h \in Handler : Press(h)
            \/ \E t \in Thread : StopStep(t)

LifeSpec == LifeInit /\ [][LifeNext]_lifeVars
-----------------------------------------------------------------------------
\* Type invariant, with what th_ stands for: a thread that was started.
Closing      == {"shut", "join", "close"}
HandlerPlace == {"idle", "estop", "eshut", "stop", "done"} \cup Closing
MainPlace    == {"begin", "built engine", "claim", "parse", "open", "spawn", "assign",
                 "eopen", "erun", "espawn", "print", "wait", "pstop", "pjoin", "stop",
                 "~th", "estop", "eshut", "~ewait", "exited", "terminated"} \cup Closing
TypeOK ==
    /\ place \in [Thread -> MainPlace \cup HandlerPlace]
    /\ place[Main] \in MainPlace /\ \A h \in Handler : place[h] \in HandlerPlace
    /\ running \in [Part -> BOOLEAN]
    /\ divert_ \in [Part -> {"none", "open", "shut", "closed"}]
    /\ worker_ \in [Part -> {"none", "guard", "recv", "done"}]
    /\ th_ \in {"none", "joinable", "joined"} /\ printer \in {"none", "on", "stopping"}
    /\ th_ # "none" => worker_["dnr"] # "none"
    /\ th_ = "joined" => worker_["dnr"] = "done"

\* However many handlers and the destructor call dnr.stop() together, one of them
\* joins the worker and closes the handle (dns_redirect.cpp:50-57).
OneTeardown ==
    \A s, t \in Thread : place[s] \in Closing /\ place[t] \in Closing => s = t

\* A process that returns from main leaves nothing behind: no thread of the engine,
\* the redirector or the printer still runs and both handles are closed, whatever
\* failed during the start (main.cpp:157-180).
ExitIsClean ==
    place[Main] = "exited" =>
        /\ \A c \in Part : worker_[c] \in {"none", "done"} /\ divert_[c] \in {"none", "closed"}
        /\ printer = "none"

\* Ctrl-C while the engine runs ends the process: main gets out of wait() and
\* through the destructors, even when another handler is stopping the redirector
\* (main.cpp:30-44, 173-180).  It may end in std::terminate, see StopJoins.
CtrlCEnds == \A h \in Handler : (place[h] = "estop" /\ running["engine"]) ~> Ended

\* "dnr.stop();  // joins worker, closes handle" (dns_redirect.hpp:13): when the
\* destructor's stop() has returned, the worker is joined.
StopJoins == place[Main] = "~th" => th_ # "joinable"
=============================================================================
