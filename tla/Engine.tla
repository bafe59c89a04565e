------------------------------- MODULE Engine -------------------------------
(***************************************************************************)
(* The packet engine of src/engine.cpp: worker threads that take packets   *)
(* from a WinDivert handle, decide about each and inject it again, whole,  *)
(* replaced by the pieces a strategy made, or not at all; the thread that  *)
(* starts the engine and waits for it; and the threads (console control    *)
(* handlers) that call stop().  The flow table is the module FlowTable,    *)
(* its callers the workers.                                                *)
(*                                                                         *)
(* The driver (external).  Packets are numbered in the order the driver    *)
(* queues them and the queue is first-in first-out, so its content is      *)
(* received + 1 .. captured.  After WinDivertShutdown(RECV) nothing new is *)
(* queued and recv fails once the queue is empty.  A send may fail.        *)
(*                                                                         *)
(* A strategy pipeline run is modelled by its result: not claimed, or      *)
(* claimed with some number of pieces to inject.                           *)
(*                                                                         *)
(* A definition marked "mutant" is a faulty variant of the one after it;   *)
(* nothing uses it but the mutation runs listed in PROJECT.json.           *)
(*                                                                         *)
(* Bounds: MaxPackets packets are captured, recv fails for a transient     *)
(* reason at most MaxRecvErrors times.                                     *)
(***************************************************************************)
EXTENDS Naturals, FiniteSets

CONSTANTS
    Worker, Stopper,
    Flow, Stripe, bucket_for, NoFlow, TTL, Budget, MaxLag,     \* flow table
    Traffic,            \* kinds of packet that may arrive
    NoKind,             \* "not captured yet"
    DomainMode,         \* cfg_.domain_mode
    FlowTracking,       \* cfg_.flow_tracking
    RstDrop,            \* cfg_.inbound_rst_drop
    MaxPieces,          \* most packets a strategy puts in the OutQueue
    MaxPackets, MaxRecvErrors

Class == {"raw", "rst", "pass", "data", "tls", "http"}
Host  == {"none", "listed", "unlisted"}
Kind  == [class : Class, flow : Flow, host : Host]

Packet    == 1 .. MaxPackets
NoPacket  == 0

ASSUME EngineAssumption ==
    /\ bucket_for \in [Flow -> Stripe] /\ NoFlow \notin Flow
    /\ TTL \in Nat /\ Budget \in Nat \ {0} /\ MaxLag \in Nat
    /\ Traffic \subseteq Kind
    /\ NoKind \notin Kind
    /\ DomainMode \in {"Off", "Allowlist", "Blocklist"}
    /\ FlowTracking \in BOOLEAN /\ RstDrop \in BOOLEAN
    /\ MaxPieces \in Nat \ {0}
    /\ MaxPackets \in Nat /\ MaxRecvErrors \in Nat

VARIABLES
    running,            \* running_
    divert,             \* the WinDivert handle
    pkt,                \* the packets the driver captured
    captured, received, \* how many were queued, how many recv returned
    pc, cur, left,      \* per worker: place, packet held, pieces to send
    map, state, before, fh,                                 \* flow table
    stats,              \* stats_
    mpc,                \* the thread in start() and wait()
    spc,                \* the threads in stop()
    verdict, wire,      \* history: what became of each packet
    claims              \* history: times a worker marked a flow since its
                        \* table entry was created

FT == INSTANCE FlowTable WITH Key <- Flow, NoKey <- NoFlow, Caller <- Worker

flowVars   == <<map, state, before, fh>>
packetVars == <<verdict, wire>>
workerVars == <<pc, cur, left>>
ctlVars    == <<running, divert, mpc, spc>>
driverVars == <<pkt, captured, received>>
vars == <<ctlVars, driverVars, workerVars, flowVars, packetVars, stats, claims>>

Counter == {"recv", "passthrough", "emitted", "modified", "dropped",
            "errors_recv", "errors_send"}
BumpNoModified(C) ==                                                \* mutant
    stats' = [c \in Counter |-> stats[c] + IF c \in C \ {"modified"} THEN 1 ELSE 0]
Bump(C) == stats' = [c \in Counter |-> stats[c] + IF c \in C THEN 1 ELSE 0]

\* The packet a worker holds.
held(w) == pkt[cur[w]]

\* DomainFilter::should_apply and the caller's treatment of a missing host.
should_apply(host) == \/ DomainMode = "Off"
                      \/ DomainMode = "Allowlist" /\ host = "listed"
                      \/ DomainMode = "Blocklist" /\ host = "unlisted"
allowNoHost(k) == k.host = "none" \/ should_apply(k.host)            \* mutant
allow(k) == IF k.host = "none" THEN DomainMode \in {"Off", "Blocklist"}
                               ELSE should_apply(k.host)

flow_relevant(k) == k.class \in {"tls", "http"}
tracked(k)       == FlowTracking /\ flow_relevant(k)

\* Packets that get as far as the flow table and the pipeline.
eligible(k) == k.class \in {"data", "tls", "http"} /\ allow(k)
droppable(k) == k.class = "rst" /\ RstDrop
-----------------------------------------------------------------------------
(* The driver *)

Capture == /\ divert = "open" /\ captured < MaxPackets
           /\ captured' = captured + 1
           /\ \E k \in Traffic : pkt' = [pkt EXCEPT ![captured + 1] = k]
           /\ UNCHANGED <<ctlVars, received, workerVars, flowVars, packetVars,
                          stats, claims>>
-----------------------------------------------------------------------------
(* worker_loop *)

Goto(w, from, to) == pc[w] = from /\ pc' = [pc EXCEPT ![w] = to]

CheckRunning(w) ==
    /\ Goto(w, "guard", IF running THEN "recv" ELSE "done")
    /\ UNCHANGED <<ctlVars, driverVars, cur, left, flowVars, packetVars, stats,
                   claims>>

Recv(w) == /\ Goto(w, "recv", "classify")
           /\ divert \in {"open", "shut"} /\ received < captured
           /\ received' = received + 1
           /\ cur' = [cur EXCEPT ![w] = received + 1]
           /\ Bump({"recv"})
           /\ UNCHANGED <<ctlVars, pkt, captured, left, flowVars, packetVars,
                          claims>>

\* recv fails because the handle was shut down, or for a transient reason.
RecvFails(w) == /\ Goto(w, "recv", "failed")
                /\ UNCHANGED <<ctlVars, driverVars, cur, left, flowVars,
                               packetVars, stats, claims>>
RecvShut(w)      == divert = "shut" /\ received = captured /\ RecvFails(w)
RecvTransient(w) == divert = "open" /\ stats["errors_recv"] < MaxRecvErrors
                    /\ RecvFails(w)

RecvFailed(w) ==
    /\ Goto(w, "failed", IF running THEN "guard" ELSE "done")
    /\ IF running THEN Bump({"errors_recv"}) ELSE UNCHANGED stats
    /\ UNCHANGED <<ctlVars, driverVars, cur, left, flowVars, packetVars, claims>>

\* Inject the packet as it was captured and go back to the loop.
SendOriginal(w) ==
    /\ pc'  = [pc EXCEPT ![w] = "guard"]
    /\ cur' = [cur EXCEPT ![w] = NoPacket]
    /\ \/ /\ Bump({"passthrough", "emitted"})
          /\ verdict' = [verdict EXCEPT ![cur[w]] = "pass"]
          /\ wire'    = [wire EXCEPT ![cur[w]].orig = @ + 1]
       \/ /\ Bump({"errors_send"})
          /\ verdict' = [verdict EXCEPT ![cur[w]] = "lost"]
          /\ UNCHANGED wire
    /\ UNCHANGED <<ctlVars, driverVars, left, claims>>

DropRst(w) == /\ pc[w] = "classify" /\ droppable(held(w))
              /\ pc'  = [pc EXCEPT ![w] = "guard"]
              /\ cur' = [cur EXCEPT ![w] = NoPacket]
              /\ verdict' = [verdict EXCEPT ![cur[w]] = "drop"]
              /\ Bump({"dropped"})
              /\ UNCHANGED <<ctlVars, driverVars, left, flowVars, wire, claims>>

\* Not TCP, not outbound, no payload, or excluded by the domain filter.
PassUntouched(w) == /\ pc[w] = "classify"
                    /\ ~droppable(held(w)) /\ ~eligible(held(w))
                    /\ SendOriginal(w)
                    /\ UNCHANGED flowVars

\* A sweep that erases an entry ends the lifetime "claims" counts over.
Probe(w) == /\ Goto(w, "classify", "probed")
            /\ eligible(held(w)) /\ tracked(held(w))
            /\ \E lag \in 0 .. MaxLag :
                 LET f == held(w).flow
                     gone == FT!Swept(bucket_for[f], lag)
                 IN  /\ FT!probe(w, f, lag)
                     /\ claims' = [g \in Flow |-> IF g \in gone
                                                  THEN [x \in Worker |-> 0]
                                                  ELSE claims[g]]
            /\ UNCHANGED <<ctlVars, driverVars, cur, left, packetVars, stats>>

PassHandled(w) == /\ pc[w] = "probed" /\ fh[w].fs.first_handled
                  /\ SendOriginal(w)
                  /\ FT!release(w)

\* The worker is about to run the pipeline.
AtPipelineTracked(w) == pc[w] = "probed" /\ ~fh[w].fs.first_handled  \* mutant
AtPipeline(w) == \/ pc[w] = "probed" /\ ~fh[w].fs.first_handled
                 \/ pc[w] = "classify" /\ eligible(held(w)) /\ ~tracked(held(w))

PassUnclaimed(w) == /\ AtPipeline(w)
                    /\ SendOriginal(w)
                    /\ IF pc[w] = "probed" THEN FT!release(w)
                                           ELSE UNCHANGED flowVars

Claim(w) == /\ AtPipeline(w)
            /\ pc' = [pc EXCEPT ![w] = IF pc[w] = "probed" THEN "update"
                                                           ELSE "send"]
            /\ \E n \in 1 .. MaxPieces : left' = [left EXCEPT ![w] = n]
            /\ verdict' = [verdict EXCEPT ![cur[w]] = "claim"]
            /\ Bump({"modified"})
            /\ UNCHANGED <<ctlVars, driverVars, cur, flowVars, wire, claims>>

Update(w) == /\ Goto(w, "update", "send")
             /\ FT!update(w)
             /\ claims' = [claims EXCEPT ![fh[w].key][w] = @ + 1]
             /\ UNCHANGED <<ctlVars, driverVars, cur, left, packetVars, stats>>

\* The loop over the OutQueue ends after this piece.
LastPieceLate(n) == n = 0                                           \* mutant
LastPiece(n)     == n = 1

SendPiece(w) ==
    /\ pc[w] = "send"
    /\ left' = [left EXCEPT ![w] = @ - 1]
    /\ pc'   = [pc EXCEPT ![w] = IF LastPiece(left[w]) THEN "guard" ELSE "send"]
    /\ cur'  = [cur EXCEPT ![w] = IF LastPiece(left[w]) THEN NoPacket ELSE @]
    /\ \/ Bump({"emitted"}) /\ wire' = [wire EXCEPT ![cur[w]].pieces = @ + 1]
       \/ Bump({"errors_send"}) /\ UNCHANGED wire
    /\ UNCHANGED <<ctlVars, driverVars, flowVars, verdict, claims>>

WorkerStep(w) == \/ CheckRunning(w) \/ Recv(w) \/ RecvShut(w) \/ RecvFailed(w)
                 \/ DropRst(w) \/ PassUntouched(w) \/ Probe(w) \/ PassHandled(w)
                 \/ PassUnclaimed(w) \/ Claim(w) \/ Update(w) \/ SendPiece(w)
-----------------------------------------------------------------------------
(* The owner of the engine: start(), wait(), ~Engine() *)

OwnerGoto(from, to) ==
    /\ mpc = from /\ mpc' = to
    /\ UNCHANGED <<spc, driverVars, cur, left, flowVars, packetVars, stats, claims>>

\* divert_.open; when it throws, the destructor finds nothing to stop.
Open == /\ \/ OwnerGoto("start", "opened") /\ divert' = "open"
           \/ OwnerGoto("start", "failed") /\ UNCHANGED divert
        /\ UNCHANGED <<running, pc>>

SetRunning == /\ OwnerGoto("opened", "spawning")
              /\ running' = TRUE
              /\ UNCHANGED <<divert, pc>>

Spawn(w) == /\ OwnerGoto("spawning", "spawning")
            /\ Goto(w, "unborn", "guard")
            /\ UNCHANGED <<running, divert>>

StartReturns == /\ OwnerGoto("spawning", "waiting")
                /\ \A w \in Worker : pc[w] # "unborn"
                /\ UNCHANGED <<running, divert, pc>>

\* std::thread throws; the destructor's stop() runs, in two steps.
SpawnFails == /\ OwnerGoto("spawning", IF running THEN "unwinding" ELSE "waiting")
              /\ \E w \in Worker : pc[w] = "unborn"
              /\ running' = FALSE
              /\ UNCHANGED <<divert, pc>>

Unwind == /\ OwnerGoto("unwinding", "waiting")
          /\ divert' = "shut"
          /\ UNCHANGED <<running, pc>>

\* wait(): join every thread, then close the handle.
JoinNothing == /\ OwnerGoto("waiting", "joined")                    \* mutant
               /\ UNCHANGED <<running, divert, pc>>
Join == /\ OwnerGoto("waiting", "joined")
        /\ \A w \in Worker : pc[w] \in {"unborn", "done"}
        /\ UNCHANGED <<running, divert, pc>>

Close == /\ OwnerGoto("joined", "closed")
         /\ divert' = "closed"
         /\ UNCHANGED <<running, pc>>

OwnerStep == Open \/ SetRunning \/ (\E w \in Worker : Spawn(w)) \/ StartReturns
             \/ SpawnFails \/ Unwind \/ Join \/ Close
-----------------------------------------------------------------------------
(* stop(), and shutdown_recv() with its unlocked test of the handle *)

StopGoto(s, from, to) ==
    /\ spc[s] = from /\ spc' = [spc EXCEPT ![s] = to]
    /\ UNCHANGED <<mpc, driverVars, workerVars, flowVars, packetVars, stats,
                   claims>>

StopCall(s) == /\ StopGoto(s, "idle", IF running THEN "test" ELSE "returned")
               /\ running' = FALSE
               /\ UNCHANGED divert

TestHandle(s) == /\ StopGoto(s, "test", IF divert \in {"open", "shut"}
                                        THEN "shutdown" ELSE "returned")
                 /\ UNCHANGED <<running, divert>>

ShutdownNothing(s) == /\ StopGoto(s, "shutdown", "returned")        \* mutant
                      /\ UNCHANGED <<running, divert>>
Shutdown(s) == /\ StopGoto(s, "shutdown", "returned")
               /\ divert' = IF divert = "open" THEN "shut" ELSE divert
               /\ UNCHANGED running

StopStep(s) == TestHandle(s) \/ Shutdown(s)
-----------------------------------------------------------------------------
Tick == /\ FT!Tick
        /\ UNCHANGED <<ctlVars, driverVars, workerVars, packetVars, stats, claims>>

Init == /\ running = FALSE /\ divert = "none"
        /\ pkt = [p \in Packet |-> NoKind] /\ captured = 0 /\ received = 0
        /\ pc = [w \in Worker |-> "unborn"]
        /\ cur = [w \in Worker |-> NoPacket] /\ left = [w \in Worker |-> 0]
        /\ FT!TableInit
        /\ stats = [c \in Counter |-> 0]
        /\ mpc = "start" /\ spc = [s \in Stopper |-> "idle"]
        /\ verdict = [p \in Packet |-> "none"]
        /\ wire = [p \in Packet |-> [orig |-> 0, pieces |-> 0]]
        /\ claims = [f \in Flow |-> [w \in Worker |-> 0]]

Next == \/ Capture \/ OwnerStep \/ Tick
        \/ \E w \in Worker : WorkerStep(w) \/ RecvTransient(w)
        \/ \E s \in Stopper : StopCall(s) \/ StopStep(s)

Spec == Init /\ [][Next]_vars

\* Threads that can run do; a stop() that was called goes on.  Nothing obliges
\* anyone to call stop(), the driver to capture, or recv to fail while open.
Fairness == /\ WF_vars(OwnerStep)
            /\ \A w \in Worker : WF_vars(WorkerStep(w))
            /\ \A s \in Stopper : WF_vars(StopStep(s))

FairSpec == Spec /\ Fairness
-----------------------------------------------------------------------------
(* Properties *)

WorkerPlace == {"unborn", "guard", "recv", "failed", "classify", "probed",
                "update", "send", "done"}

\* Type invariant.
TypeOK ==
    /\ running \in BOOLEAN
    /\ divert \in {"none", "open", "shut", "closed"}
    /\ captured \in 0 .. MaxPackets /\ received \in 0 .. captured
    /\ pkt \in [Packet -> Kind \cup {NoKind}]
    /\ pc \in [Worker -> WorkerPlace]
    /\ cur \in [Worker -> Packet \cup {NoPacket}]
    /\ left \in [Worker -> 0 .. MaxPieces]
    /\ FT!FlowTypeOK
    /\ stats \in [Counter -> Nat]
    /\ mpc \in {"start", "opened", "spawning", "waiting", "unwinding", "joined",
                "closed", "failed"}
    /\ spc \in [Stopper -> {"idle", "test", "shutdown", "returned"}]
    /\ verdict \in [Packet -> {"none", "pass", "lost", "drop", "claim"}]
    /\ wire \in [Packet -> [orig : 0 .. 1, pieces : 0 .. MaxPieces]]
    /\ claims \in [Flow -> [Worker -> Nat]]

\* The engine keeps the promise of PacketService: whatever its workers do
\* concurrently, every captured packet gets one verdict, its original is never
\* injected next to its replacement or twice, and only kinds the configuration
\* allows are replaced or dropped (worker_loop, engine.cpp:86-218).
PS == INSTANCE PacketService WITH
        Modifiable <- {k \in Kind :
            /\ k.class \in {"data", "tls", "http"}
            /\ DomainMode = "Allowlist" => k.host = "listed"
            /\ DomainMode = "Blocklist" => k.host # "listed"},
        Droppable  <- {k \in Kind : RstDrop /\ k.class = "rst"}
ImplementsPacketService == PS!Spec

\* The WinDivert handle outlives every use of it by a worker: wait() closes it
\* only when no worker can be in recv or send (engine.cpp:55-64).
HandleOutlivesWorkers ==
    divert \in {"none", "closed"} => \A w \in Worker : pc[w] \in {"unborn", "done"}

\* A worker runs strategies on a flow at most once in the lifetime of the flow's
\* table entry, however probe and update of other workers interleave with its
\* own (engine.cpp:166-199): what is left of "we don't re-apply expensive
\* strategies on every subsequent segment" with several workers.
ClaimOncePerWorker == \A f \in Flow : \A w \in Worker : claims[f][w] <= 1

\* The packets in the hands of a worker that has not decided, those a failing send
\* lost, and the pieces that were injected, numbered packet by packet.
Held   == {p \in Packet : verdict[p] = "none" /\ \E w \in Worker : cur[w] = p}
Lost   == {p \in Packet : verdict[p] = "lost"}
Pieces == {e \in Packet \X (1 .. MaxPieces) : e[2] <= wire[e[1]].pieces}

\* The counters of the statistics line add up: every packet received was passed,
\* modified, dropped, lost to a failing send, or is in the hands of a worker that
\* has not decided; what was emitted is the originals passed and the pieces of
\* the packets modified (engine.cpp:86-216).
CountersBalance ==
    /\ stats["recv"] = stats["passthrough"] + stats["modified"] + stats["dropped"]
                       + Cardinality(Lost) + Cardinality(Held)
    /\ stats["emitted"] = stats["passthrough"] + Cardinality(Pieces)

\* Once a stop() has taken effect, wait() joins every worker and closes the
\* handle: a worker blocked in recv is unblocked by shutdown_recv, whoever is
\* between its test of running_ and recv included (engine.cpp:47-64).
StopTerminates == (mpc \in {"spawning", "waiting"} /\ ~running) ~> mpc = "closed"

\* Every packet a worker received gets its verdict, whether or not the engine is
\* being stopped meanwhile: no received packet is left in a worker's buffer.
ReceivedIsDecided ==
    \A p \in Packet : (p <= received) ~> (verdict[p] # "none")

\* "so we don't re-apply expensive strategies (or re-issue fake decoys) on every
\* subsequent segment of the same TCP connection" (flow_table.hpp:4-6): a flow is
\* claimed once in the lifetime of its table entry.
ClaimOncePerFlow ==
    \A f \in Flow : \A v, w \in Worker :
        claims[f][v] > 0 /\ claims[f][w] > 0 => v = w

-----------------------------------------------------------------------------
(* The inductive invariant behind the safety properties. *)

\* The handle exists while the owner is between open and close, and no thread of
\* the engine is in worker_loop before start() spawned it or after join.
ControlInv ==
    /\ divert = "none"   => mpc \in {"start", "failed"}
    /\ divert = "closed" => mpc = "closed"
    /\ mpc \in {"start", "failed", "opened"} => \A w \in Worker : pc[w] = "unborn"
    /\ mpc \in {"joined", "closed"} => \A w \in Worker : pc[w] \in {"unborn", "done"}

\* A packet past recv is in the hands of at most one worker, and its verdict and
\* what was injected for it agree with the place of that worker.
PacketInv ==
    /\ \A p \in Packet : (p > captured) <=> (pkt[p] = NoKind)
    /\ \A p \in Packet : p > received => verdict[p] = "none"
    /\ \A p \in Packet : verdict[p] = "none" => wire[p] = [orig |-> 0, pieces |-> 0]
    /\ \A v, w \in Worker : v # w /\ cur[v] = cur[w] => cur[v] = NoPacket
    /\ \A w \in Worker :
        /\ cur[w] # NoPacket <=> pc[w] \in {"classify", "probed", "update", "send"}
        /\ cur[w] <= received
        /\ pc[w] \in {"classify", "probed"} => verdict[cur[w]] = "none"
        /\ pc[w] = "probed" => eligible(held(w))
        /\ pc[w] \in {"update", "send"} =>
             /\ verdict[cur[w]] = "claim"
             /\ left[w] > 0 /\ wire[cur[w]].pieces + left[w] <= MaxPieces

\* A worker holds a handle exactly between probe and update, commits only flows
\* it saw unmarked, and a flow it has claimed is marked, in the table and in any
\* copy the worker has since taken of it.
FlowInv ==
    /\ \A w \in Worker :
        /\ fh[w].key # NoFlow <=> pc[w] \in {"probed", "update"}
        /\ pc[w] = "update" => ~fh[w].fs.first_handled
    /\ \A f \in Flow : \A w \in Worker : claims[f][w] > 0 =>
        /\ claims[f][w] = 1
        /\ f \in map /\ state[f].first_handled
        /\ fh[w].key = f => fh[w].fs.first_handled

EngineInv == ControlInv /\ PacketInv /\ FlowInv

\* With the types it is inductive.
Inv == TypeOK /\ EngineInv
=============================================================================
