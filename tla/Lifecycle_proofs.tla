-------------------------- MODULE Lifecycle_proofs --------------------------
(***************************************************************************)
(* What holds of Lifecycle for any number of console handlers, with and    *)
(* without the redirector: its types, that one caller tears the redirector *)
(* down, and that a process that returns from main leaves nothing behind.  *)
(***************************************************************************)
EXTENDS Lifecycle, TLAPS

-----------------------------------------------------------------------------
(* Types *)

\* th_ is empty until it is assigned, when the thread it stands for has been started.
Unassigned == {"begin", "built engine", "claim", "parse", "open", "spawn", "assign"}
TypeInv == /\ TypeOK
           /\ place[Main] \in Unassigned => th_ = "none"
           /\ place[Main] = "assign" => worker_["dnr"] # "none"

\* A step of one thread moves that thread and no other.
LEMMA StepMoves ==
    ASSUME LifecycleAssumption, TypeOK,
           NEW t \in Thread, NEW from, NEW to, Step(t, from, to)
    PROVE  /\ place[t] = from /\ place'[t] = to /\ ~Ended
           /\ \A s \in Thread : s # t => place'[s] = place[s]
           /\ to \in MainPlace \cup HandlerPlace =>
                place' \in [Thread -> MainPlace \cup HandlerPlace]
BY DEF Step, TypeOK

LEMMA Threads ==
    ASSUME LifecycleAssumption
    PROVE  /\ Main \in Thread /\ \A h \in Handler : h \in Thread /\ h # Main
           /\ \A t \in Thread : t = Main \/ t \in Handler
           /\ "engine" \in Part /\ "dnr" \in Part
BY DEF LifecycleAssumption, Thread, Part

LEMMA MainTyped ==
    ASSUME LifecycleAssumption, TypeInv, mainStep
    PROVE  TypeInv'
<1> USE Threads DEF TypeInv, Unassigned, TypeOK, MainPlace, HandlerPlace, Closing, Step, LifecycleAssumption
<1>1. CASE Build
      BY <1>1, ZenonT(40) DEF Build
<1>2. CASE DnrClaim
      BY <1>2 DEF DnrClaim
<1>3. CASE DnrParse
      BY <1>3, ZenonT(40) DEF DnrParse, Exchange
<1>4. CASE DnrOpen
      BY <1>4, ZenonT(40) DEF DnrOpen
<1>5. CASE DnrSpawn
      BY <1>5, ZenonT(40) DEF DnrSpawn
<1>6. CASE DnrAssign
      BY <1>6 DEF DnrAssign
<1>7. CASE EngineOpen
      BY <1>7, ZenonT(40) DEF EngineOpen
<1>8. CASE EngineRun
      BY <1>8 DEF EngineRun
<1>9. CASE EngineSpawn
      BY <1>9, ZenonT(40) DEF EngineSpawn
<1>10. CASE PrinterStart
      BY <1>10, ZenonT(40) DEF PrinterStart
<1>11. CASE EngineWait
      BY <1>11 DEF EngineWait, Closed
<1>12. CASE PrinterStop
      BY <1>12 DEF PrinterStop
<1>13. CASE PrinterJoin
      BY <1>13 DEF PrinterJoin
<1>14. CASE DestroyDnr
      BY <1>14, ZenonT(40) DEF DestroyDnr, Closed
<1>15. CASE DestroyEngine
      BY <1>15 DEF DestroyEngine, Closed
<1> QED BY <1>1, <1>2, <1>3, <1>4, <1>5, <1>6, <1>7, <1>8, <1>9, <1>10, <1>11, <1>12, <1>13, <1>14, <1>15 DEF mainStep

LEMMA StopTyped ==
    ASSUME LifecycleAssumption, TypeInv, NEW t \in Thread, StopStep(t)
    PROVE  TypeInv'
<1> USE Threads DEF TypeInv, Unassigned, TypeOK, MainPlace, HandlerPlace, Closing, Step, LifecycleAssumption
<1>1. CASE EngineStop(t)
      BY <1>1 DEF EngineStop, Exchange, afterEngine
<1>2. CASE EngineShut(t)
      BY <1>2 DEF EngineShut, Shut, afterEngine
<1>3. CASE Stop(t)
      BY <1>3 DEF Stop, Exchange, afterDnr
<1>4. CASE StopShut(t)
      BY <1>4 DEF StopShut, Shut
<1>5. CASE StopJoin(t)
      BY <1>5 DEF StopJoin
<1>6. CASE StopClose(t)
      BY <1>6 DEF StopClose, Closed, afterDnr
<1> QED BY <1>1, <1>2, <1>3, <1>4, <1>5, <1>6 DEF StopStep

LEMMA NextTyped ==
    ASSUME LifecycleAssumption, TypeInv, [LifeNext]_lifeVars
    PROVE  TypeInv'
<1>1. CASE mainStep
      BY <1>1, MainTyped
<1>2. CASE PrinterExit
      BY <1>2 DEF PrinterExit, TypeInv, TypeOK
<1>3. ASSUME NEW c \in Part, CheckRunning(c) \/ RecvPacket(c) \/ RecvFails(c)
      PROVE  TypeInv'
      BY <1>3 DEF CheckRunning, RecvPacket, RecvFails, TypeInv, TypeOK, Part
<1>4. ASSUME NEW h \in Handler, Press(h)
      PROVE  TypeInv'
      BY <1>4, Threads
         DEF Press, Step, TypeInv, TypeOK, MainPlace, HandlerPlace, Closing
<1>5. ASSUME NEW t \in Thread, StopStep(t)
      PROVE  TypeInv'
      BY <1>5, StopTyped
<1>6. CASE UNCHANGED lifeVars
      BY <1>6 DEF lifeVars, TypeInv, TypeOK
<1> QED BY <1>1, <1>2, <1>3, <1>4, <1>5, <1>6 DEF LifeNext

LEMMA InitTyped ==
    ASSUME LifecycleAssumption, LifeInit
    PROVE  TypeInv
BY Threads DEF LifeInit, TypeInv, TypeOK, MainPlace, HandlerPlace, Closing, Part

\* The places of every thread, the handles and the workers, for any number of console
\* handlers; above all, the redirector's std::thread stands for a worker that was
\* started, and is joined when that worker is done (dns_redirect.cpp:28-57).
THEOREM TypeCorrect == LifeSpec => []TypeOK
<1>1. LifeInit => TypeInv
      BY InitTyped, LifecycleAssumption
<1>2. TypeInv /\ [LifeNext]_lifeVars => TypeInv'
      BY NextTyped, LifecycleAssumption
<1>3. TypeInv => TypeOK
      BY DEF TypeInv
<1> QED BY <1>1, <1>2, <1>3, PTL DEF LifeSpec

-----------------------------------------------------------------------------
(* One caller tears the redirector down *)

\* The flag is a token: who takes it may close, and before main() sets it nobody can.
Unclaimed == {"begin", "built engine", "claim"}
OneInv == /\ OneTeardown
          /\ running["dnr"] => \A t \in Thread : place[t] \notin Closing
          /\ place[Main] \in Unclaimed =>
               ~running["dnr"] /\ \A t \in Thread : place[t] \notin Closing

LEMMA MainTearsOnce ==
    ASSUME LifecycleAssumption, TypeInv, OneInv, mainStep
    PROVE  OneInv'
<1> USE Threads DEF TypeInv, TypeOK, OneInv, OneTeardown, Unclaimed, Closing, Step, Part
<1>1. CASE Build
      BY <1>1, ZenonT(40) DEF Build
<1>2. CASE DnrClaim
      BY <1>2 DEF DnrClaim
<1>3. CASE DnrParse
      BY <1>3, ZenonT(40) DEF DnrParse, Exchange
<1>4. CASE DnrOpen
      BY <1>4, ZenonT(40) DEF DnrOpen
<1>5. CASE DnrSpawn
      BY <1>5, ZenonT(40) DEF DnrSpawn
<1>6. CASE DnrAssign
      BY <1>6 DEF DnrAssign
<1>7. CASE EngineOpen
      BY <1>7, ZenonT(40) DEF EngineOpen
<1>8. CASE EngineRun
      BY <1>8 DEF EngineRun
<1>9. CASE EngineSpawn
      BY <1>9, ZenonT(40) DEF EngineSpawn
<1>10. CASE PrinterStart
      BY <1>10, ZenonT(40) DEF PrinterStart
<1>11. CASE EngineWait
      BY <1>11 DEF EngineWait, Closed
<1>12. CASE PrinterStop
      BY <1>12 DEF PrinterStop
<1>13. CASE PrinterJoin
      BY <1>13 DEF PrinterJoin
<1>14. CASE DestroyDnr
  <2>1. UNCHANGED running /\ (Step(Main, "~th", "terminated") \/ Step(Main, "~th", "estop"))
        BY <1>14 DEF DestroyDnr
  <2> QED BY <2>1, ZenonT(40)
<1>15. CASE DestroyEngine
      BY <1>15 DEF DestroyEngine, Closed
<1> QED BY <1>1, <1>2, <1>3, <1>4, <1>5, <1>6, <1>7, <1>8,
           <1>9, <1>10, <1>11, <1>12, <1>13, <1>14, <1>15 DEF mainStep

LEMMA StopTearsOnce ==
    ASSUME LifecycleAssumption, TypeInv, OneInv, NEW t \in Thread, StopStep(t)
    PROVE  OneInv'
<1> USE Threads DEF TypeInv, TypeOK, OneInv, OneTeardown, Unclaimed, Closing, Step, Part
<1>1. CASE EngineStop(t)
      BY <1>1 DEF EngineStop, Exchange, afterEngine
<1>2. CASE EngineShut(t)
      BY <1>2 DEF EngineShut, Shut, afterEngine
<1>3. CASE Stop(t)
      BY <1>3 DEF Stop, Exchange, afterDnr
<1>4. CASE StopShut(t)
      BY <1>4 DEF StopShut, Shut
<1>5. CASE StopJoin(t)
      BY <1>5 DEF StopJoin
<1>6. CASE StopClose(t)
      BY <1>6 DEF StopClose, Closed, afterDnr
<1> QED BY <1>1, <1>2, <1>3, <1>4, <1>5, <1>6 DEF StopStep

LEMMA NextTearsOnce ==
    ASSUME LifecycleAssumption, TypeInv, OneInv, [LifeNext]_lifeVars
    PROVE  OneInv'
<1>1. CASE mainStep
      BY <1>1, MainTearsOnce
<1>2. CASE PrinterExit
      BY <1>2 DEF PrinterExit, OneInv, OneTeardown, Unclaimed, Closing
<1>3. ASSUME NEW c \in Part, CheckRunning(c) \/ RecvPacket(c) \/ RecvFails(c)
      PROVE  OneInv'
      BY <1>3 DEF CheckRunning, RecvPacket, RecvFails, OneInv, OneTeardown, Unclaimed, Closing, Part, TypeInv, TypeOK
<1>4. ASSUME NEW h \in Handler, Press(h)
      PROVE  OneInv'
      BY <1>4, Threads DEF Press, Step, OneInv, OneTeardown, Unclaimed, Closing, TypeInv, TypeOK
<1>5. ASSUME NEW t \in Thread, StopStep(t)
      PROVE  OneInv'
      BY <1>5, StopTearsOnce
<1>6. CASE UNCHANGED lifeVars
      BY <1>6 DEF lifeVars, OneInv, OneTeardown, Unclaimed, Closing
<1> QED BY <1>1, <1>2, <1>3, <1>4, <1>5, <1>6 DEF LifeNext

\* However many handlers and destructors call dnr.stop(), at most one of them is
\* between the exchange of the flag and the end (dns_redirect.cpp:50-57).
THEOREM TeardownIsExclusive == LifeSpec => []OneTeardown
<1>1. LifeInit => TypeInv /\ OneInv
      BY InitTyped, LifecycleAssumption, Threads
         DEF LifeInit, OneInv, OneTeardown, Closing, Part
<1>2. TypeInv /\ OneInv /\ [LifeNext]_lifeVars => (TypeInv /\ OneInv)'
      BY NextTyped, NextTearsOnce, LifecycleAssumption
<1>3. OneInv => OneTeardown
      BY DEF OneInv
<1> QED BY <1>1, <1>2, <1>3, PTL DEF LifeSpec

-----------------------------------------------------------------------------
(* A process that returns from main leaves nothing behind *)

\* Before the redirector's thread is made there is none, and from its assignment on
\* th_ stands for it; once the members of dnr are destroyed the thread is gone and the
\* handle closed; the printer runs only between its start and its join.
Printing  == {"wait", "pstop", "pjoin"}
Destroyed == {"estop", "eshut", "~ewait", "exited"}
CleanInv ==
    /\ place[Main] \in Unassigned \ {"assign"} => worker_["dnr"] = "none"
    /\ place[Main] \notin Unassigned /\ worker_["dnr"] # "none" => th_ # "none"
    /\ place[Main] \in Destroyed => /\ th_ # "joinable"
                                 /\ divert_["dnr"] \in {"none", "closed"}
    /\ printer # "none" => place[Main] \in Printing
    /\ ExitIsClean

LEMMA MainLeavesClean ==
    ASSUME LifecycleAssumption, TypeInv, CleanInv, mainStep
    PROVE  CleanInv'
<1> USE Threads DEF TypeInv, TypeOK, CleanInv, ExitIsClean, Unassigned, Printing, Destroyed, Closing, Step, Part
<1>1. CASE Build
      BY <1>1 DEF Build
<1>2. CASE DnrClaim
      BY <1>2 DEF DnrClaim
<1>3. CASE DnrParse
      BY <1>3 DEF DnrParse, Exchange
<1>4. CASE DnrOpen
      BY <1>4 DEF DnrOpen
<1>5. CASE DnrSpawn
      BY <1>5 DEF DnrSpawn
<1>6. CASE DnrAssign
      BY <1>6 DEF DnrAssign
<1>7. CASE EngineOpen
      BY <1>7 DEF EngineOpen
<1>8. CASE EngineRun
      BY <1>8 DEF EngineRun
<1>9. CASE EngineSpawn
      BY <1>9 DEF EngineSpawn
<1>10. CASE PrinterStart
      BY <1>10 DEF PrinterStart
<1>11. CASE EngineWait
      BY <1>11 DEF EngineWait, Closed
<1>12. CASE PrinterStop
      BY <1>12 DEF PrinterStop
<1>13. CASE PrinterJoin
      BY <1>13 DEF PrinterJoin
<1>14. CASE DestroyDnr
      BY <1>14, ZenonT(40) DEF DestroyDnr, Closed
<1>15. CASE DestroyEngine
      BY <1>15 DEF DestroyEngine, Closed
<1> QED BY <1>1, <1>2, <1>3, <1>4, <1>5, <1>6, <1>7, <1>8,
           <1>9, <1>10, <1>11, <1>12, <1>13, <1>14, <1>15 DEF mainStep

LEMMA StopLeavesClean ==
    ASSUME LifecycleAssumption, TypeInv, CleanInv, NEW t \in Thread, StopStep(t)
    PROVE  CleanInv'
<1> USE Threads DEF TypeInv, TypeOK, CleanInv, ExitIsClean, Unassigned, Printing, Destroyed, Closing, Step, Part, Ended
<1>1. CASE EngineStop(t)
      BY <1>1 DEF EngineStop, Exchange, afterEngine
<1>2. CASE EngineShut(t)
      BY <1>2 DEF EngineShut, Shut, afterEngine
<1>3. CASE Stop(t)
      BY <1>3 DEF Stop, Exchange, afterDnr
<1>4. CASE StopShut(t)
      BY <1>4 DEF StopShut, Shut
<1>5. CASE StopJoin(t)
      BY <1>5 DEF StopJoin
<1>6. CASE StopClose(t)
      BY <1>6 DEF StopClose, Closed, afterDnr
<1> QED BY <1>1, <1>2, <1>3, <1>4, <1>5, <1>6 DEF StopStep

LEMMA NextLeavesClean ==
    ASSUME LifecycleAssumption, TypeInv, CleanInv, [LifeNext]_lifeVars
    PROVE  CleanInv'
<1>1. CASE mainStep
      BY <1>1, MainLeavesClean
<1>2. CASE PrinterExit
      BY <1>2 DEF PrinterExit, CleanInv, ExitIsClean, Unassigned, Printing, Destroyed, Ended
<1>3. ASSUME NEW c \in Part, CheckRunning(c) \/ RecvPacket(c) \/ RecvFails(c)
      PROVE  CleanInv'
      BY <1>3 DEF CheckRunning, RecvPacket, RecvFails, CleanInv, ExitIsClean, Unassigned, Printing, Destroyed, Ended, Part, TypeInv, TypeOK
<1>4. ASSUME NEW h \in Handler, Press(h)
      PROVE  CleanInv'
      BY <1>4, Threads DEF Press, Step, CleanInv, ExitIsClean, Unassigned, Printing, Destroyed, Ended, TypeInv, TypeOK
<1>5. ASSUME NEW t \in Thread, StopStep(t)
      PROVE  CleanInv'
      BY <1>5, StopLeavesClean
<1>6. CASE UNCHANGED lifeVars
      BY <1>6 DEF lifeVars, CleanInv, ExitIsClean, Unassigned, Printing, Destroyed, Ended
<1> QED BY <1>1, <1>2, <1>3, <1>4, <1>5, <1>6 DEF LifeNext

\* A process that returns from main has no thread of the engine, the redirector or the
\* printer running and both handles closed, whatever failed during the start and
\* however many handlers were at it (main.cpp:157-180).
THEOREM CleanExit == LifeSpec => []ExitIsClean
<1>1. LifeInit => TypeInv /\ CleanInv
      BY InitTyped, LifecycleAssumption, Threads
         DEF LifeInit, CleanInv, ExitIsClean, Unassigned, Printing, Destroyed, Part
<1>2. TypeInv /\ CleanInv /\ [LifeNext]_lifeVars => (TypeInv /\ CleanInv)'
      BY NextTyped, NextLeavesClean, LifecycleAssumption
<1>3. CleanInv => ExitIsClean
      BY DEF CleanInv
<1> QED BY <1>1, <1>2, <1>3, PTL DEF LifeSpec
=============================================================================
