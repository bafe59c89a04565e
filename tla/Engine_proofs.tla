--------------------------- MODULE Engine_proofs ---------------------------
(***************************************************************************)
(* What holds of Engine for every number of workers, flows, packets, stop  *)
(* callers and every setting: its types, its inductive invariant, that the *)
(* handle outlives its users, that a worker claims a flow at most once per *)
(* lifetime of its table entry, that the counters add up, and that Engine  *)
(* implements PacketService.                                               *)
(***************************************************************************)
EXTENDS Engine, FiniteSetTheorems, TLAPS

USE DEF NoPacket

-----------------------------------------------------------------------------
(* The flow table: what its three calls do to types and marks. *)

\* Placing a key keeps the iteration order within the stripes of present keys.
LEMMA PlaceType ==
    ASSUME EngineAssumption, NEW S \in SUBSET Flow, NEW k \in Flow,
           \A e \in before : bucket_for[e[1]] = bucket_for[e[2]],
           before \subseteq Flow \X Flow,
           FT!Place(k, S)
    PROVE  /\ before' \subseteq (S \cup {k}) \X (S \cup {k})
           /\ \A e \in before' : bucket_for[e[1]] = bucket_for[e[2]]
<1> DEFINE T == FT!InStripe(bucket_for[k], S \cup {k})
<1>1. PICK o \in FT!Orders(T) :
        before' = {e \in before : e \in S \X S /\ bucket_for[e[1]] # bucket_for[k]} \cup o
      BY DEF FT!Place
<1>2. o \subseteq T \X T
      BY <1>1 DEF FT!Orders
<1>3. T \subseteq S \cup {k} /\ \A j \in T : bucket_for[j] = bucket_for[k]
      BY DEF FT!InStripe
<1>4. \A e \in o : e \in (S \cup {k}) \X (S \cup {k}) /\ bucket_for[e[1]] = bucket_for[e[2]]
      BY <1>2, <1>3
<1> QED BY <1>1, <1>4

\* probe() keeps the types, and gives the caller a handle of the probed flow.
LEMMA ProbeType ==
    ASSUME EngineAssumption, FT!FlowTypeOK,
           NEW w \in Worker, NEW f \in Flow, NEW lag \in 0 .. MaxLag,
           FT!probe(w, f, lag)
    PROVE  /\ FT!FlowTypeOK'
           /\ fh' = [fh EXCEPT ![w] = fh'[w]]
           /\ fh'[w].key = f
           /\ fh'[w].fs.first_handled = state'[f].first_handled
<1> DEFINE gone == FT!Swept(bucket_for[f], lag)
           rest == map \ gone
           fs   == [first_handled |-> f \in rest /\ state[f].first_handled, age |-> lag]
<1>1. /\ map'   = rest \cup {f}
      /\ state' = [j \in Flow |-> IF j = f THEN fs
                                  ELSE IF j \in gone THEN FT!Fresh ELSE state[j]]
      /\ fh' = [fh EXCEPT ![w] = [key |-> f, fs |-> fs]]
      /\ \/ f \in rest /\ before' = before \cap (rest \X rest)
         \/ f \notin rest /\ FT!Place(f, rest)
      BY DEF FT!probe
<1>2. /\ map \subseteq Flow /\ before \subseteq map \X map
      /\ state \in [Flow -> FT!FlowState] /\ fh \in [Worker -> FT!Handle]
      /\ \A e \in before : bucket_for[e[1]] = bucket_for[e[2]]
      BY DEF FT!FlowTypeOK
<1>3. lag \in FT!Age /\ 0 \in FT!Age
      BY DEF FT!Age, FT!MaxAge, EngineAssumption
<1>4. state[f].first_handled \in BOOLEAN
      BY <1>2 DEF FT!FlowState
<1>5. fs \in FT!FlowState /\ FT!Fresh \in FT!FlowState
      BY <1>3, <1>4 DEF FT!FlowState, FT!Fresh
<1>6. state' \in [Flow -> FT!FlowState]
      BY <1>1, <1>2, <1>5
<1>7. fh' \in [Worker -> FT!Handle]
      BY <1>1, <1>2, <1>5 DEF FT!Handle
<1>8. before' \subseteq map' \X map' /\ \A e \in before' : bucket_for[e[1]] = bucket_for[e[2]]
  <2>1. CASE before' = before \cap (rest \X rest)
        BY <1>1, <1>2, <2>1
  <2>2. CASE FT!Place(f, rest)
        <3>1. rest \in SUBSET Flow /\ before \subseteq Flow \X Flow
              BY <1>2
        <3> HIDE DEF rest
        <3> QED BY <1>1, <1>2, <2>2, <3>1, PlaceType
  <2> QED BY <1>1, <2>1, <2>2
<1>9. map' \subseteq Flow
      BY <1>1, <1>2
<1>10. fh'[w] = [key |-> f, fs |-> fs] /\ state'[f] = fs
      BY <1>1, <1>2
<1> QED BY <1>1, <1>2, <1>6, <1>7, <1>8, <1>9, <1>10 DEF FT!FlowTypeOK

\* update() keeps the types, marks the flow and gives the handle up.
LEMMA UpdateType ==
    ASSUME EngineAssumption, FT!FlowTypeOK, NEW w \in Worker, FT!update(w)
    PROVE  /\ FT!FlowTypeOK'
           /\ fh[w].key \in Flow
           /\ fh' = [fh EXCEPT ![w] = FT!NoHandle]
           /\ map' = map \cup {fh[w].key}
           /\ state'[fh[w].key].first_handled
           /\ \A j \in Flow : j # fh[w].key => state'[j] = state[j]
<1> DEFINE k == fh[w].key
           s == FT!marked(fh[w].fs)
<1>1. /\ map \subseteq Flow /\ before \subseteq map \X map
      /\ state \in [Flow -> FT!FlowState] /\ fh \in [Worker -> FT!Handle]
      /\ \A e \in before : bucket_for[e[1]] = bucket_for[e[2]]
      BY DEF FT!FlowTypeOK
<1>2. k \in Flow /\ fh[w].fs \in FT!FlowState
      BY <1>1 DEF FT!update, FT!Handle
<1>3. s \in FT!FlowState /\ s.first_handled
      BY <1>2 DEF FT!marked, FT!FlowState
<1>4. [s EXCEPT !.age = 0] \in FT!FlowState /\ [s EXCEPT !.age = 0].first_handled
      BY <1>3 DEF FT!FlowState, FT!Age, FT!MaxAge, EngineAssumption
<1>5. FT!NoHandle \in FT!Handle
      BY DEF FT!NoHandle, FT!Handle, FT!Fresh, FT!FlowState, FT!Age, FT!MaxAge,
             EngineAssumption
<1>6. fh' = [fh EXCEPT ![w] = FT!NoHandle] /\ fh' \in [Worker -> FT!Handle]
      BY <1>1, <1>5 DEF FT!update
<1>7. CASE /\ k \notin map /\ map' = map \cup {k}
           /\ state' = [state EXCEPT ![k] = s] /\ FT!Place(k, map)
  <2>1. before' \subseteq map' \X map' /\ \A e \in before' : bucket_for[e[1]] = bucket_for[e[2]]
    <3>1. before \subseteq Flow \X Flow
          BY <1>1
    <3> HIDE DEF k
    <3> QED BY <1>1, <1>2, <1>7, <3>1, PlaceType
  <2> QED BY <1>1, <1>2, <1>3, <1>6, <1>7, <2>1 DEF FT!FlowTypeOK
<1>8. CASE /\ k \in map /\ state' = [state EXCEPT ![k] = [s EXCEPT !.age = 0]]
           /\ UNCHANGED <<map, before>>
  <2> DEFINE s0 == [s EXCEPT !.age = 0]
  <2> HIDE DEF s
  <2>1. s0 \in FT!FlowState /\ s0.first_handled /\ state' = [state EXCEPT ![k] = s0]
        BY <1>4, <1>8
  <2> HIDE DEF s0, k
  <2>2. /\ state' \in [Flow -> FT!FlowState] /\ state'[k].first_handled
        /\ \A j \in Flow : j # k => state'[j] = state[j]
        BY <1>1, <1>2, <2>1
  <2>3. map' = map /\ map' = map \cup {k} /\ before' = before
        BY <1>8
  <2>4. FT!FlowTypeOK'
        BY <1>1, <1>6, <2>2, <2>3 DEF FT!FlowTypeOK
  <2> QED BY <1>2, <1>6, <2>2, <2>3, <2>4 DEF k
<1> QED BY <1>7, <1>8 DEF FT!update

\* Dropping a handle touches nothing else.
LEMMA ReleaseType ==
    ASSUME EngineAssumption, FT!FlowTypeOK, NEW w \in Worker, FT!release(w)
    PROVE  FT!FlowTypeOK'
<1>1. FT!NoHandle \in FT!Handle
      BY DEF FT!NoHandle, FT!Handle, FT!Fresh, FT!FlowState, FT!Age, FT!MaxAge,
             EngineAssumption
<1> QED BY <1>1 DEF FT!FlowTypeOK, FT!release

\* Time changes ages only.
LEMMA TickType ==
    ASSUME EngineAssumption, FT!FlowTypeOK, FT!Tick
    PROVE  /\ FT!FlowTypeOK'
           /\ map' = map
           /\ \A f \in Flow : state'[f].first_handled = state[f].first_handled
           /\ \A w \in Worker : /\ fh'[w].key = fh[w].key
                                /\ fh'[w].fs.first_handled = fh[w].fs.first_handled
<1>1. /\ state \in [Flow -> FT!FlowState] /\ fh \in [Worker -> FT!Handle]
      BY DEF FT!FlowTypeOK
<1>2. \A a \in FT!Age : FT!Older(a) \in FT!Age
      BY DEF FT!Older, FT!Age, FT!MaxAge, EngineAssumption
<1>3. \A x \in FT!FlowState :
        /\ [x EXCEPT !.age = FT!Older(@)] \in FT!FlowState
        /\ [x EXCEPT !.age = FT!Older(@)].first_handled = x.first_handled
      BY <1>2 DEF FT!FlowState
<1>4. \A h \in FT!Handle :
        /\ [h EXCEPT !.fs.age = FT!Older(@)] \in FT!Handle
        /\ [h EXCEPT !.fs.age = FT!Older(@)].key = h.key
        /\ [h EXCEPT !.fs.age = FT!Older(@)].fs.first_handled = h.fs.first_handled
      BY <1>2 DEF FT!Handle, FT!FlowState
<1>5. /\ state' \in [Flow -> FT!FlowState]
      /\ \A f \in Flow : state'[f].first_handled = state[f].first_handled
      BY <1>1, <1>3 DEF FT!Tick
<1>6. /\ fh' \in [Worker -> FT!Handle]
      /\ \A w \in Worker : /\ fh'[w].key = fh[w].key
                           /\ fh'[w].fs.first_handled = fh[w].fs.first_handled
      BY <1>1, <1>4 DEF FT!Tick
<1> QED BY <1>5, <1>6 DEF FT!FlowTypeOK, FT!Tick
-----------------------------------------------------------------------------
(* Types. *)

USE DEF ctlVars, driverVars, workerVars, packetVars, flowVars, vars

LEMMA FlowUnchanged ==
    ASSUME FT!FlowTypeOK, UNCHANGED flowVars PROVE FT!FlowTypeOK'
BY DEF FT!FlowTypeOK

\* Counters stay natural numbers.
LEMMA BumpType ==
    ASSUME stats \in [Counter -> Nat], NEW C, Bump(C)
    PROVE  stats' \in [Counter -> Nat]
BY DEF Bump

\* Sending the original keeps the types of everything but the flow table, which
\* its caller settles.
LEMMA SendOriginalType ==
    ASSUME EngineAssumption, TypeOK, PacketInv, NEW w \in Worker,
           pc[w] \in {"classify", "probed"}, SendOriginal(w), FT!FlowTypeOK'
    PROVE  TypeOK'
<1>1. cur[w] \in Packet /\ wire[cur[w]] = [orig |-> 0, pieces |-> 0]
      BY DEF TypeOK, PacketInv
<1>2. wire' \in [Packet -> [orig : 0 .. 1, pieces : 0 .. MaxPieces]]
  <2>1. [orig |-> 1, pieces |-> 0] \in [orig : 0 .. 1, pieces : 0 .. MaxPieces]
        BY DEF EngineAssumption
  <2>2. CASE wire' = [wire EXCEPT ![cur[w]].orig = @ + 1]
        BY <1>1, <2>1, <2>2 DEF TypeOK
  <2>3. CASE UNCHANGED wire
        BY <2>3 DEF TypeOK
  <2> QED BY <2>2, <2>3 DEF SendOriginal
<1>3. stats' \in [Counter -> Nat]
      BY BumpType DEF TypeOK, SendOriginal
<1>4. pc' \in [Worker -> WorkerPlace] /\ cur' \in [Worker -> Packet \cup {NoPacket}]
      BY DEF TypeOK, SendOriginal, WorkerPlace
<1>5. verdict' \in [Packet -> {"none", "pass", "lost", "drop", "claim"}]
      BY DEF TypeOK, SendOriginal
<1> QED BY <1>2, <1>3, <1>4, <1>5 DEF TypeOK, SendOriginal

LEMMA WorkerType ==
    ASSUME EngineAssumption, TypeOK, EngineInv, NEW w \in Worker,
           WorkerStep(w) \/ RecvTransient(w)
    PROVE  TypeOK'
<1> USE DEF EngineInv
<1>1. CASE CheckRunning(w)
      BY <1>1, FlowUnchanged DEF TypeOK, CheckRunning, Goto, WorkerPlace
<1>2. CASE Recv(w)
  <2>1. stats' \in [Counter -> Nat]
        BY <1>2, BumpType DEF TypeOK, Recv
  <2>2. received + 1 \in Packet /\ received' \in 0 .. captured'
        BY <1>2 DEF TypeOK, Recv, Packet, EngineAssumption
  <2> QED BY <1>2, <2>1, <2>2, FlowUnchanged DEF TypeOK, Recv, Goto, WorkerPlace
<1>3. CASE RecvFails(w)
      BY <1>3, FlowUnchanged DEF TypeOK, RecvFails, Goto, WorkerPlace
<1>4. CASE RecvFailed(w)
  <2>1. stats' \in [Counter -> Nat]
        BY <1>4, BumpType DEF TypeOK, RecvFailed
  <2> QED BY <1>4, <2>1, FlowUnchanged DEF TypeOK, RecvFailed, Goto, WorkerPlace
<1>5. CASE DropRst(w)
  <2>1. stats' \in [Counter -> Nat]
        BY <1>5, BumpType DEF TypeOK, DropRst
  <2> QED BY <1>5, <2>1, FlowUnchanged DEF TypeOK, DropRst, WorkerPlace
<1>6. CASE PassUntouched(w)
      BY <1>6, FlowUnchanged, SendOriginalType DEF TypeOK, PassUntouched
<1>7. CASE Probe(w)
  <2>1. cur[w] \in Packet /\ cur[w] <= captured
    <3>1. cur[w] \in Packet /\ cur[w] <= received
          BY <1>7 DEF Probe, Goto, PacketInv, TypeOK
    <3>2. received <= captured /\ captured \in Nat /\ received \in Nat /\ cur[w] \in Nat
          BY <3>1 DEF TypeOK, Packet, EngineAssumption
    <3> QED BY <3>1, <3>2
  <2>2. held(w).flow \in Flow
        BY <2>1 DEF held, TypeOK, PacketInv, Kind, Packet
  <2>3. FT!FlowTypeOK'
        BY <1>7, <2>2, ProbeType DEF Probe, TypeOK
  <2>4. claims' \in [Flow -> [Worker -> Nat]]
        BY <1>7 DEF Probe, TypeOK
  <2> QED BY <1>7, <2>3, <2>4 DEF TypeOK, Probe, Goto, WorkerPlace
<1>8. CASE PassHandled(w)
      BY <1>8, ReleaseType, SendOriginalType DEF TypeOK, PassHandled
<1>9. CASE PassUnclaimed(w)
      BY <1>9, ReleaseType, FlowUnchanged, SendOriginalType
      DEF TypeOK, PassUnclaimed, AtPipeline
<1>10. CASE Claim(w)
  <2>1. stats' \in [Counter -> Nat]
        BY <1>10, BumpType DEF TypeOK, Claim
  <2>2. left' \in [Worker -> 0 .. MaxPieces]
        BY <1>10 DEF TypeOK, Claim, EngineAssumption
  <2>3. pc' \in [Worker -> WorkerPlace]
        BY <1>10 DEF TypeOK, Claim, WorkerPlace
  <2> QED BY <1>10, <2>1, <2>2, <2>3, FlowUnchanged DEF TypeOK, Claim
<1>11. CASE Update(w)
  <2>1. FT!FlowTypeOK' /\ fh[w].key \in Flow
        BY <1>11, UpdateType DEF Update, TypeOK
  <2>2. claims' \in [Flow -> [Worker -> Nat]]
        BY <1>11, <2>1 DEF Update, TypeOK
  <2> QED BY <1>11, <2>1, <2>2 DEF TypeOK, Update, Goto, WorkerPlace
<1>12. CASE SendPiece(w)
  <2>1. /\ cur[w] \in Packet /\ left[w] > 0
        /\ wire[cur[w]].pieces + left[w] <= MaxPieces
        BY <1>12 DEF SendPiece, PacketInv, TypeOK
  <2>2. wire' \in [Packet -> [orig : 0 .. 1, pieces : 0 .. MaxPieces]]
    <3>1. wire[cur[w]].pieces + 1 \in 0 .. MaxPieces
          BY <2>1 DEF TypeOK, EngineAssumption
    <3>2. CASE wire' = [wire EXCEPT ![cur[w]].pieces = @ + 1]
          BY <2>1, <3>1, <3>2, SMTT(20) DEF TypeOK
    <3>3. CASE UNCHANGED wire
          BY <3>3 DEF TypeOK
    <3> QED BY <1>12, <3>2, <3>3 DEF SendPiece
  <2>3. left' \in [Worker -> 0 .. MaxPieces]
        BY <1>12, <2>1 DEF SendPiece, TypeOK, EngineAssumption
  <2>4. stats' \in [Counter -> Nat]
        BY <1>12, BumpType DEF TypeOK, SendPiece
  <2>5. /\ pc' \in [Worker -> WorkerPlace]
        /\ cur' \in [Worker -> Packet \cup {NoPacket}]
        BY <1>12 DEF TypeOK, SendPiece, WorkerPlace
  <2> QED BY <1>12, <2>2, <2>3, <2>4, <2>5, FlowUnchanged DEF TypeOK, SendPiece
<1> QED BY <1>1, <1>2, <1>3, <1>4, <1>5, <1>6, <1>7, <1>8, <1>9, <1>10, <1>11, <1>12
        DEF WorkerStep, RecvShut, RecvTransient

LEMMA TypeStep ==
    ASSUME EngineAssumption, TypeOK, EngineInv, [Next]_vars PROVE TypeOK'
<1>1. CASE Capture
  <2>1. captured + 1 \in Packet /\ captured' \in 0 .. MaxPackets
        BY <1>1 DEF Capture, TypeOK, Packet, EngineAssumption
  <2>2. pkt' \in [Packet -> Kind \cup {NoKind}]
        BY <1>1, <2>1 DEF Capture, TypeOK, EngineAssumption
  <2>3. received' \in 0 .. captured'
        BY <1>1 DEF Capture, TypeOK, EngineAssumption
  <2> QED BY <1>1, <2>1, <2>2, <2>3, FlowUnchanged DEF TypeOK, Capture
<1>2. CASE OwnerStep
  <2>1. /\ running' \in BOOLEAN
        /\ divert' \in {"none", "open", "shut", "closed"}
        /\ pc' \in [Worker -> WorkerPlace]
        /\ mpc' \in {"start", "opened", "spawning", "waiting", "unwinding", "joined",
                     "closed", "failed"}
        BY <1>2 DEF TypeOK, OwnerStep, Open, SetRunning, Spawn, StartReturns, SpawnFails,
                    Unwind, Join, Close, OwnerGoto, Goto, WorkerPlace
  <2>2. UNCHANGED <<spc, driverVars, cur, left, flowVars, packetVars, stats, claims>>
        BY <1>2 DEF OwnerStep, Open, SetRunning, Spawn, StartReturns, SpawnFails,
                    Unwind, Join, Close, OwnerGoto
  <2> QED BY <2>1, <2>2, FlowUnchanged DEF TypeOK
<1>3. CASE Tick
      BY <1>3, TickType DEF TypeOK, Tick
<1>4. CASE \E w \in Worker : WorkerStep(w) \/ RecvTransient(w)
      BY <1>4, WorkerType
<1>5. CASE \E s \in Stopper : StopCall(s) \/ StopStep(s)
  <2>1. /\ running' \in BOOLEAN
        /\ divert' \in {"none", "open", "shut", "closed"}
        /\ spc' \in [Stopper -> {"idle", "test", "shutdown", "returned"}]
        BY <1>5 DEF TypeOK, StopStep, StopCall, TestHandle, Shutdown, StopGoto
  <2>2. UNCHANGED <<mpc, driverVars, workerVars, flowVars, packetVars, stats, claims>>
        BY <1>5 DEF StopStep, StopCall, TestHandle, Shutdown, StopGoto
  <2> QED BY <2>1, <2>2, FlowUnchanged DEF TypeOK
<1>6. CASE UNCHANGED vars
      BY <1>6, FlowUnchanged DEF TypeOK
<1> QED BY <1>1, <1>2, <1>3, <1>4, <1>5, <1>6 DEF Next
-----------------------------------------------------------------------------
(* Control: the handle and the places of the threads. *)

LEMMA WorkerControl ==
    ASSUME EngineAssumption, TypeOK, ControlInv, NEW w \in Worker,
           WorkerStep(w) \/ RecvTransient(w)
    PROVE  ControlInv'
<1>1. /\ UNCHANGED ctlVars
      /\ pc[w] \notin {"unborn", "done"}
      /\ \A v \in Worker : v # w => pc'[v] = pc[v]
  BY DEF WorkerStep, CheckRunning, Recv, RecvShut, RecvTransient, RecvFails, RecvFailed,
         DropRst, PassUntouched, Probe, PassHandled, PassUnclaimed, AtPipeline, Claim,
         Update, SendPiece, SendOriginal, Goto, TypeOK
<1> QED BY <1>1 DEF ControlInv

LEMMA ControlStep ==
    ASSUME EngineAssumption, TypeOK, ControlInv, [Next]_vars PROVE ControlInv'
<1>1. CASE Capture
      BY <1>1 DEF ControlInv, Capture
<1>2. CASE OwnerStep
      BY <1>2 DEF TypeOK, ControlInv, OwnerStep, Open, SetRunning, Spawn, StartReturns,
                  SpawnFails, Unwind, Join, Close, OwnerGoto, Goto
<1>3. CASE Tick
      BY <1>3 DEF ControlInv, Tick
<1>4. CASE \E w \in Worker : WorkerStep(w) \/ RecvTransient(w)
      BY <1>4, WorkerControl
<1>5. CASE \E s \in Stopper : StopCall(s) \/ StopStep(s)
      BY <1>5 DEF ControlInv, StopStep, StopCall, TestHandle, Shutdown, StopGoto
<1>6. CASE UNCHANGED vars
      BY <1>6 DEF ControlInv
<1> QED BY <1>1, <1>2, <1>3, <1>4, <1>5, <1>6 DEF Next
-----------------------------------------------------------------------------
(* Packets: who holds what, and what was decided. *)

\* A worker that is through with its packet gives it a verdict and lets it go.
LEMMA ReleasePacket ==
    ASSUME EngineAssumption, TypeOK, PacketInv, NEW w \in Worker, cur[w] # NoPacket,
           UNCHANGED <<driverVars, left>>,
           pc'  = [pc EXCEPT ![w] = "guard"],
           cur' = [cur EXCEPT ![w] = NoPacket],
           verdict'[cur[w]] # "none",
           \A p \in Packet : p # cur[w] => verdict'[p] = verdict[p] /\ wire'[p] = wire[p]
    PROVE  PacketInv'
<1>1. /\ cur'[w] = NoPacket /\ pc'[w] = "guard" /\ cur[w] \in Packet /\ cur[w] <= received
      /\ \A v \in Worker : v # w => /\ cur'[v] = cur[v] /\ pc'[v] = pc[v]
                                    /\ left'[v] = left[v] /\ cur[v] # cur[w]
                                    /\ held(v)' = held(v)
      BY DEF TypeOK, PacketInv, held
<1>2. \A p \in Packet : (p > captured') <=> (pkt'[p] = NoKind)
      BY DEF PacketInv
<1>3. \A p \in Packet : p > received' => verdict'[p] = "none"
      BY <1>1 DEF PacketInv, TypeOK, Packet, EngineAssumption
<1>4. \A p \in Packet : verdict'[p] = "none" => wire'[p] = [orig |-> 0, pieces |-> 0]
      BY DEF PacketInv
<1>5. \A u, v \in Worker : u # v /\ cur'[u] = cur'[v] => cur'[u] = NoPacket
      BY <1>1 DEF PacketInv
<1>6. ASSUME NEW v \in Worker
      PROVE  /\ cur'[v] # NoPacket <=> pc'[v] \in {"classify", "probed", "update", "send"}
             /\ cur'[v] <= received'
             /\ pc'[v] \in {"classify", "probed"} => verdict'[cur'[v]] = "none"
             /\ pc'[v] = "probed" => eligible(held(v)')
             /\ pc'[v] \in {"update", "send"} =>
                  /\ verdict'[cur'[v]] = "claim"
                  /\ left'[v] > 0 /\ wire'[cur'[v]].pieces + left'[v] <= MaxPieces
  <2>1. CASE v = w
        BY <1>1, <2>1 DEF TypeOK, EngineAssumption
  <2>2. CASE v # w
    <3>1. cur[v] # NoPacket => cur[v] \in Packet
          BY DEF TypeOK
    <3> QED BY <1>1, <2>2, <3>1 DEF PacketInv
  <2> QED BY <2>1, <2>2
<1> QED BY <1>2, <1>3, <1>4, <1>5, <1>6 DEF PacketInv, eligible, allow, should_apply

\* A worker that goes on without a packet disturbs nobody else's.
LEMMA IdleMove ==
    ASSUME EngineAssumption, TypeOK, PacketInv, NEW w \in Worker, NEW to,
           UNCHANGED <<driverVars, cur, left, packetVars>>,
           pc[w] \in {"unborn", "guard", "recv", "failed"},
           to \in {"guard", "recv", "failed", "done"},
           pc' = [pc EXCEPT ![w] = to]
    PROVE  PacketInv'
<1>1. pc'[w] = to /\ \A v \in Worker : v # w => pc'[v] = pc[v]
      BY DEF TypeOK
<1> QED BY <1>1 DEF PacketInv, held, eligible, allow, should_apply

LEMMA SendOriginalPacket ==
    ASSUME EngineAssumption, TypeOK, PacketInv, NEW w \in Worker,
           pc[w] \in {"classify", "probed"}, SendOriginal(w)
    PROVE  PacketInv'
<1>1. cur[w] # NoPacket /\ cur[w] \in Packet
      BY DEF TypeOK, PacketInv
<1>2. /\ verdict'[cur[w]] # "none"
      /\ \A p \in Packet : p # cur[w] => verdict'[p] = verdict[p] /\ wire'[p] = wire[p]
      BY <1>1 DEF SendOriginal, TypeOK
<1> QED BY <1>1, <1>2, ReleasePacket DEF SendOriginal

LEMMA WorkerPacket ==
    ASSUME EngineAssumption, TypeOK, EngineInv, NEW w \in Worker,
           WorkerStep(w) \/ RecvTransient(w)
    PROVE  PacketInv'
<1> USE DEF EngineInv
<1>1. CASE CheckRunning(w)
      BY <1>1, IdleMove DEF CheckRunning, Goto
<1>2. CASE Recv(w)
  <2>1. /\ received + 1 \in Packet /\ received + 1 # NoPacket /\ received + 1 <= captured
        /\ received \in Nat /\ verdict[received + 1] = "none"
        BY <1>2 DEF Recv, TypeOK, PacketInv, Packet, EngineAssumption
  <2>2. /\ cur'[w] = received + 1 /\ pc'[w] = "classify" /\ received' = received + 1
        /\ \A v \in Worker : v # w => cur'[v] = cur[v] /\ pc'[v] = pc[v]
        /\ UNCHANGED <<pkt, captured, left, packetVars>>
        BY <1>2 DEF Recv, Goto, TypeOK
  <2>3. \A v \in Worker : cur[v] <= received /\ cur[v] \in Nat
        BY DEF PacketInv, TypeOK, Packet
  <2>4. \A p \in Packet : p \in Nat
        BY DEF Packet
  <2> QED BY <2>1, <2>2, <2>3, <2>4 DEF PacketInv, held, eligible, allow, should_apply
<1>3. CASE RecvFails(w)
      BY <1>3, IdleMove DEF RecvFails, Goto
<1>4. CASE RecvFailed(w)
      BY <1>4, IdleMove DEF RecvFailed, Goto
<1>5. CASE DropRst(w)
  <2>1. cur[w] # NoPacket /\ cur[w] \in Packet
        BY <1>5 DEF DropRst, TypeOK, PacketInv
  <2>2. /\ verdict'[cur[w]] # "none"
        /\ \A p \in Packet : p # cur[w] => verdict'[p] = verdict[p] /\ wire'[p] = wire[p]
        BY <1>5, <2>1 DEF DropRst, TypeOK
  <2> QED BY <1>5, <2>1, <2>2, ReleasePacket DEF DropRst
<1>6. CASE PassUntouched(w)
      BY <1>6, SendOriginalPacket DEF PassUntouched
<1>7. CASE Probe(w)
  <2>1. /\ pc'[w] = "probed" /\ pc[w] = "classify" /\ eligible(held(w))
        /\ \A v \in Worker : v # w => pc'[v] = pc[v]
        /\ UNCHANGED <<driverVars, cur, left, packetVars>>
        BY <1>7 DEF Probe, Goto, TypeOK
  <2> QED BY <2>1 DEF PacketInv, held, eligible, allow, should_apply
<1>8. CASE PassHandled(w)
      BY <1>8, SendOriginalPacket DEF PassHandled
<1>9. CASE PassUnclaimed(w)
      BY <1>9, SendOriginalPacket DEF PassUnclaimed, AtPipeline
<1>10. CASE Claim(w)
  <2>1. /\ cur[w] # NoPacket /\ cur[w] \in Packet /\ cur[w] <= received
        /\ verdict[cur[w]] = "none" /\ wire[cur[w]] = [orig |-> 0, pieces |-> 0]
        BY <1>10 DEF Claim, AtPipeline, TypeOK, PacketInv
  <2>2. /\ pc'[w] \in {"update", "send"} /\ left'[w] \in 1 .. MaxPieces
        /\ verdict'[cur[w]] = "claim"
        /\ \A v \in Worker : v # w => pc'[v] = pc[v] /\ left'[v] = left[v] /\ cur[v] # cur[w]
        /\ \A p \in Packet : p # cur[w] => verdict'[p] = verdict[p]
        /\ UNCHANGED <<driverVars, cur, wire>>
        BY <1>10, <2>1 DEF Claim, TypeOK, PacketInv
  <2>3. \A p \in Packet : p > received => p # cur[w]
        BY <2>1 DEF Packet, TypeOK, EngineAssumption
  <2>4. wire[cur[w]].pieces + left'[w] <= MaxPieces /\ left'[w] > 0
        BY <2>1, <2>2 DEF EngineAssumption
  <2>5. \A v \in Worker : cur[v] # NoPacket => cur[v] \in Packet
        BY DEF TypeOK
  <2> QED BY <2>1, <2>2, <2>3, <2>4, <2>5
          DEF PacketInv, held, eligible, allow, should_apply
<1>11. CASE Update(w)
  <2>1. /\ pc'[w] = "send" /\ pc[w] = "update"
        /\ \A v \in Worker : v # w => pc'[v] = pc[v]
        /\ UNCHANGED <<driverVars, cur, left, packetVars>>
        BY <1>11 DEF Update, Goto, TypeOK
  <2> QED BY <2>1 DEF PacketInv, held, eligible, allow, should_apply
<1>12. CASE SendPiece(w)
  <2>1. /\ cur[w] # NoPacket /\ cur[w] \in Packet /\ cur[w] <= received
        /\ verdict[cur[w]] = "claim"
        /\ left[w] \in Nat /\ left[w] > 0 /\ wire[cur[w]].pieces + left[w] <= MaxPieces
        BY <1>12 DEF SendPiece, TypeOK, PacketInv, EngineAssumption
  <2>2. /\ \A p \in Packet : p # cur[w] => wire'[p] = wire[p]
        /\ UNCHANGED <<driverVars, verdict>>
        BY <1>12, <2>1 DEF SendPiece, TypeOK
  <2>3. CASE left[w] = 1
    <3>1. UNCHANGED driverVars /\ pc' = [pc EXCEPT ![w] = "guard"]
          /\ cur' = [cur EXCEPT ![w] = NoPacket]
          BY <1>12, <2>3 DEF SendPiece, LastPiece
    <3>2. /\ cur'[w] = NoPacket /\ pc'[w] = "guard"
          /\ \A v \in Worker : v # w => /\ cur'[v] = cur[v] /\ pc'[v] = pc[v]
                                        /\ left'[v] = left[v] /\ cur[v] # cur[w]
          BY <1>12, <2>1, <3>1 DEF SendPiece, TypeOK, PacketInv
    <3>3. \A v \in Worker : cur[v] # NoPacket => cur[v] \in Packet
          BY DEF TypeOK
    <3>4. received \in Nat /\ 0 <= received
          BY DEF TypeOK, EngineAssumption
    <3>5. \A p \in Packet : verdict[p] = "none" => p # cur[w]
          BY <2>1
    <3> QED BY <2>1, <2>2, <3>2, <3>3, <3>4, <3>5
            DEF PacketInv, held, eligible, allow, should_apply
  <2>4. CASE left[w] # 1
    <3>1. /\ UNCHANGED cur /\ pc'[w] = "send" /\ left'[w] = left[w] - 1
          /\ pc[w] = "send"
          /\ \A v \in Worker : v # w => /\ pc'[v] = pc[v] /\ left'[v] = left[v]
                                        /\ cur[v] # cur[w]
          BY <1>12, <2>1, <2>4 DEF SendPiece, LastPiece, TypeOK, PacketInv
    <3>2. wire'[cur[w]].pieces <= wire[cur[w]].pieces + 1 /\ wire'[cur[w]].pieces \in Nat
          BY <1>12, <2>1 DEF SendPiece, TypeOK, EngineAssumption
    <3>3. left'[w] > 0 /\ wire'[cur[w]].pieces + left'[w] <= MaxPieces
          BY <2>1, <2>4, <3>1, <3>2 DEF TypeOK, EngineAssumption
    <3>4. \A v \in Worker : cur[v] # NoPacket => cur[v] \in Packet
          BY DEF TypeOK
    <3>5. \A p \in Packet : verdict[p] = "none" => p # cur[w]
          BY <2>1
    <3> QED BY <2>1, <2>2, <3>1, <3>3, <3>4, <3>5
            DEF PacketInv, held, eligible, allow, should_apply
  <2> QED BY <2>3, <2>4
<1> QED BY <1>1, <1>2, <1>3, <1>4, <1>5, <1>6, <1>7, <1>8, <1>9, <1>10, <1>11, <1>12
        DEF WorkerStep, RecvShut, RecvTransient

\* Nothing but worker_loop and the driver touches packets.
LEMMA PacketStep ==
    ASSUME EngineAssumption, TypeOK, EngineInv, [Next]_vars PROVE PacketInv'
<1> USE DEF EngineInv
<1>1. CASE Capture
  <2>1. /\ captured + 1 \in Packet /\ captured' = captured + 1 /\ captured \in Nat
        /\ pkt'[captured + 1] # NoKind
        /\ \A p \in Packet : p # captured + 1 => pkt'[p] = pkt[p]
        /\ UNCHANGED <<received, workerVars, packetVars>>
        BY <1>1 DEF Capture, TypeOK, Packet, EngineAssumption
  <2>2. \A w \in Worker : cur[w] <= received /\ cur[w] \in Nat /\ received <= captured
                          /\ received \in Nat
        BY DEF PacketInv, TypeOK, Packet, EngineAssumption
  <2>3. \A w \in Worker : cur[w] # captured + 1
        BY <2>1, <2>2
  <2>4. \A w \in Worker : cur[w] # NoPacket => cur[w] \in Packet
        BY DEF TypeOK
  <2>5. \A p \in Packet : p \in Nat
        BY DEF Packet
  <2> QED BY <2>1, <2>3, <2>4, <2>5 DEF PacketInv, held, eligible, allow, should_apply
<1>2. CASE OwnerStep
  <2>1. UNCHANGED <<driverVars, cur, left, packetVars>>
        BY <1>2 DEF OwnerStep, Open, SetRunning, Spawn, StartReturns, SpawnFails, Unwind,
                    Join, Close, OwnerGoto
  <2>2. CASE UNCHANGED pc
        BY <2>1, <2>2 DEF PacketInv, held, eligible, allow, should_apply
  <2>3. CASE \E w \in Worker : Goto(w, "unborn", "guard")
        BY <2>1, <2>3, IdleMove DEF Goto
  <2> QED BY <1>2, <2>2, <2>3 DEF OwnerStep, Open, SetRunning, Spawn, StartReturns,
                    SpawnFails, Unwind, Join, Close
<1>3. CASE Tick
      BY <1>3 DEF Tick, PacketInv, held, eligible, allow, should_apply
<1>4. CASE \E w \in Worker : WorkerStep(w) \/ RecvTransient(w)
      BY <1>4, WorkerPacket
<1>5. CASE \E s \in Stopper : StopCall(s) \/ StopStep(s)
  <2>1. UNCHANGED <<driverVars, workerVars, packetVars>>
        BY <1>5 DEF StopStep, StopCall, TestHandle, Shutdown, StopGoto
  <2> QED BY <2>1 DEF PacketInv, held, eligible, allow, should_apply
<1>6. CASE UNCHANGED vars
      BY <1>6 DEF PacketInv, held, eligible, allow, should_apply
<1> QED BY <1>1, <1>2, <1>3, <1>4, <1>5, <1>6 DEF Next
-----------------------------------------------------------------------------
(* Flows: handles, marks and claims. *)

\* A worker that neither enters nor leaves the stretch between probe and update.
LEMMA FlowFrame ==
    ASSUME TypeOK, FlowInv, UNCHANGED <<flowVars, claims>>,
           \A w \in Worker : \/ pc'[w] = pc[w]
                            \/ /\ pc[w] \notin {"probed", "update"}
                               /\ pc'[w] \notin {"probed", "update"}
                            \/ /\ pc[w] = "probed" /\ pc'[w] = "update"
                               /\ ~fh[w].fs.first_handled
    PROVE  FlowInv'
BY DEF FlowInv

\* A worker that is done with a flow without committing gives its handle up.
LEMMA FlowRelease ==
    ASSUME EngineAssumption, TypeOK, FlowInv, NEW w \in Worker, FT!release(w),
           UNCHANGED claims, pc' = [pc EXCEPT ![w] = "guard"]
    PROVE  FlowInv'
<1>1. /\ UNCHANGED <<map, state>> /\ fh'[w].key = NoFlow /\ pc'[w] = "guard"
      /\ \A v \in Worker : v # w => fh'[v] = fh[v] /\ pc'[v] = pc[v]
      BY DEF FT!release, FT!NoHandle, FT!FlowTypeOK, TypeOK
<1>2. \A f \in Flow : f # NoFlow
      BY DEF EngineAssumption
<1> QED BY <1>1, <1>2 DEF FlowInv

LEMMA WorkerFlow ==
    ASSUME EngineAssumption, TypeOK, EngineInv, NEW w \in Worker,
           WorkerStep(w) \/ RecvTransient(w)
    PROVE  FlowInv'
<1> USE DEF EngineInv
<1>0. FT!FlowTypeOK /\ \A f \in Flow : f # NoFlow
      BY DEF TypeOK, EngineAssumption
<1>1. CASE CheckRunning(w)
      BY <1>1, FlowFrame DEF CheckRunning, Goto, TypeOK
<1>2. CASE Recv(w)
      BY <1>2, FlowFrame DEF Recv, Goto, TypeOK
<1>3. CASE RecvFails(w)
      BY <1>3, FlowFrame DEF RecvFails, Goto, TypeOK
<1>4. CASE RecvFailed(w)
      BY <1>4, FlowFrame DEF RecvFailed, Goto, TypeOK
<1>5. CASE DropRst(w)
      BY <1>5, FlowFrame DEF DropRst, TypeOK
<1>6. CASE PassUntouched(w)
      BY <1>6, FlowFrame DEF PassUntouched, SendOriginal, TypeOK
<1>7. CASE Probe(w)
  <2>1. cur[w] \in Packet /\ cur[w] <= received
        BY <1>7 DEF Probe, Goto, PacketInv, TypeOK
  <2>2. received <= captured /\ captured \in Nat /\ received \in Nat /\ cur[w] \in Nat
        BY <2>1 DEF TypeOK, Packet, EngineAssumption
  <2>3. held(w).flow \in Flow
        BY <2>1, <2>2 DEF held, TypeOK, PacketInv, Kind
  <2> DEFINE f == held(w).flow
  <2>4. PICK lag \in 0 .. MaxLag :
          /\ FT!probe(w, f, lag)
          /\ claims' = [g \in Flow |-> IF g \in FT!Swept(bucket_for[f], lag)
                                       THEN [x \in Worker |-> 0] ELSE claims[g]]
        BY <1>7 DEF Probe
  <2> DEFINE gone == FT!Swept(bucket_for[f], lag)
  <2>5. /\ fh' = [fh EXCEPT ![w] = fh'[w]] /\ fh'[w].key = f
        /\ fh'[w].fs.first_handled = state'[f].first_handled
        BY <1>0, <2>3, <2>4, ProbeType
  <2>6. /\ map' = (map \ gone) \cup {f}
        /\ \A g \in Flow : g \in map /\ g \notin gone /\ state[g].first_handled =>
              state'[g].first_handled
    <3> HIDE DEF f
    <3> QED BY <2>3, <2>4 DEF FT!probe, f
  <2>7. /\ pc'[w] = "probed" /\ \A v \in Worker : v # w => pc'[v] = pc[v] /\ fh'[v] = fh[v]
        BY <1>0, <1>7, <2>5 DEF Probe, Goto, TypeOK, FT!FlowTypeOK
  <2>8. \A g \in Flow : \A v \in Worker :
          claims'[g][v] > 0 => g \notin gone /\ claims'[g][v] = claims[g][v]
        BY <2>4
  <2> HIDE DEF f, gone
  <2> QED BY <1>0, <2>3, <2>5, <2>6, <2>7, <2>8 DEF FlowInv, f
<1>8. CASE PassHandled(w)
      BY <1>8, FlowRelease DEF PassHandled, SendOriginal
<1>9. CASE PassUnclaimed(w)
  <2>1. CASE pc[w] = "probed"
        BY <1>9, <2>1, FlowRelease DEF PassUnclaimed, SendOriginal
  <2>2. CASE pc[w] = "classify"
        BY <1>9, <2>2, FlowFrame DEF PassUnclaimed, SendOriginal, TypeOK
  <2> QED BY <1>9, <2>1, <2>2 DEF PassUnclaimed, AtPipeline
<1>10. CASE Claim(w)
      BY <1>10, FlowFrame DEF Claim, AtPipeline, TypeOK
<1>11. CASE Update(w)
  <2> DEFINE k == fh[w].key
  <2>1. /\ k \in Flow /\ fh' = [fh EXCEPT ![w] = FT!NoHandle]
        /\ map' = map \cup {k} /\ state'[k].first_handled
        /\ \A j \in Flow : j # k => state'[j] = state[j]
        BY <1>0, <1>11, UpdateType DEF Update
  <2>2. /\ pc[w] = "update" /\ pc'[w] = "send" /\ fh'[w].key = NoFlow
        /\ \A v \in Worker : v # w => pc'[v] = pc[v] /\ fh'[v] = fh[v]
        BY <1>0, <1>11, <2>1 DEF Update, Goto, TypeOK, FT!FlowTypeOK, FT!NoHandle
  <2>3. claims[k][w] = 0
    <3>1. ~fh[w].fs.first_handled
          BY <2>2 DEF FlowInv
    <3>2. ~(claims[k][w] > 0)
          BY <2>1, <3>1 DEF FlowInv
    <3>3. claims[k][w] \in Nat
          BY <2>1 DEF TypeOK
    <3> QED BY <3>2, <3>3
  <2>4. /\ claims'[k][w] = 1
        /\ \A g \in Flow : \A v \in Worker : ~(g = k /\ v = w) => claims'[g][v] = claims[g][v]
        BY <1>11, <2>1, <2>3 DEF Update, TypeOK
  <2> HIDE DEF k
  <2> QED BY <1>0, <2>1, <2>2, <2>4 DEF FlowInv
<1>12. CASE SendPiece(w)
      BY <1>12, FlowFrame DEF SendPiece, TypeOK
<1> QED BY <1>1, <1>2, <1>3, <1>4, <1>5, <1>6, <1>7, <1>8, <1>9, <1>10, <1>11, <1>12
        DEF WorkerStep, RecvShut, RecvTransient

LEMMA FlowStep ==
    ASSUME EngineAssumption, TypeOK, EngineInv, [Next]_vars PROVE FlowInv'
<1> USE DEF EngineInv
<1>1. CASE Capture
      BY <1>1, FlowFrame DEF Capture
<1>2. CASE OwnerStep
      BY <1>2, FlowFrame DEF OwnerStep, Open, SetRunning, Spawn, StartReturns, SpawnFails,
                    Unwind, Join, Close, OwnerGoto, Goto, TypeOK
<1>3. CASE Tick
  <2>1. /\ map' = map
        /\ \A f \in Flow : state[f].first_handled => state'[f].first_handled
        /\ \A w \in Worker : /\ fh'[w].key = fh[w].key
                             /\ fh[w].fs.first_handled <=> fh'[w].fs.first_handled
        BY <1>3, TickType DEF Tick, TypeOK
  <2>2. UNCHANGED <<pc, claims>>
        BY <1>3 DEF Tick
  <2> QED BY <2>1, <2>2 DEF FlowInv
<1>4. CASE \E w \in Worker : WorkerStep(w) \/ RecvTransient(w)
      BY <1>4, WorkerFlow
<1>5. CASE \E s \in Stopper : StopCall(s) \/ StopStep(s)
      BY <1>5, FlowFrame DEF StopStep, StopCall, TestHandle, Shutdown, StopGoto
<1>6. CASE UNCHANGED vars
      BY <1>6, FlowFrame
<1> QED BY <1>1, <1>2, <1>3, <1>4, <1>5, <1>6 DEF Next
-----------------------------------------------------------------------------
(* Theorems. *)

LEMMA InitInv == ASSUME EngineAssumption, Init PROVE TypeOK /\ EngineInv
<1>1. FT!FlowTypeOK
      BY DEF Init, FT!TableInit, FT!FlowTypeOK, FT!Fresh, FT!FlowState, FT!Age, FT!MaxAge,
             FT!NoHandle, FT!Handle, EngineAssumption
<1>2. TypeOK
  <2>1. MaxPieces \in Nat /\ MaxPackets \in Nat
        BY DEF EngineAssumption
  <2>2. [orig |-> 0, pieces |-> 0] \in [orig : 0 .. 1, pieces : 0 .. MaxPieces]
        BY <2>1
  <2>3. wire \in [Packet -> [orig : 0 .. 1, pieces : 0 .. MaxPieces]]
        BY <2>2 DEF Init
  <2>4. /\ captured \in 0 .. MaxPackets /\ received \in 0 .. captured
        /\ left \in [Worker -> 0 .. MaxPieces]
        BY <2>1 DEF Init
  <2>5. claims \in [Flow -> [Worker -> Nat]] /\ stats \in [Counter -> Nat]
        BY DEF Init
  <2> QED BY <1>1, <2>3, <2>4, <2>5 DEF Init, TypeOK, WorkerPlace
<1>3. ControlInv
      BY DEF Init, ControlInv
<1>4. PacketInv
  <2>1. \A p \in Packet : p > 0
        BY DEF Packet
  <2>2. \A w \in Worker : cur[w] = NoPacket /\ pc[w] = "unborn"
        BY DEF Init
  <2>3. captured = 0 /\ received = 0
        BY DEF Init
  <2> QED BY <2>1, <2>2, <2>3 DEF Init, PacketInv
<1>5. FlowInv
      BY DEF Init, FT!TableInit, FT!NoHandle, FlowInv
<1> QED BY <1>2, <1>3, <1>4, <1>5 DEF EngineInv

\* The conjunction of the types and of EngineInv is inductive (each of the two
\* needs the other: the bounds on pieces come from PacketInv).
LEMMA TypesAndInv == Spec => [](TypeOK /\ EngineInv)
<1>1. Init => TypeOK /\ EngineInv
      BY InitInv, EngineAssumption
<1>2. TypeOK /\ EngineInv /\ [Next]_vars => (TypeOK /\ EngineInv)'
  <2> SUFFICES ASSUME TypeOK, EngineInv, [Next]_vars PROVE (TypeOK /\ EngineInv)'
      OBVIOUS
  <2>1. TypeOK'
        BY TypeStep, EngineAssumption
  <2>2. ControlInv'
        BY ControlStep, EngineAssumption DEF EngineInv
  <2>3. PacketInv' /\ FlowInv'
        BY PacketStep, FlowStep, EngineAssumption
  <2> QED BY <2>1, <2>2, <2>3 DEF EngineInv
<1> QED BY <1>1, <1>2, PTL DEF Spec

\* The inductive invariant, types included, holds for any number of threads, flows
\* and packets (engine.cpp:12-222).
THEOREM Invariance == Spec => []Inv
BY TypesAndInv, PTL DEF Inv

\* wait() never closes the handle under a worker that is in recv or send
\* (engine.cpp:55-64).
THEOREM HandleIsSafe == Spec => []HandleOutlivesWorkers
<1>1. EngineInv => HandleOutlivesWorkers
      BY DEF EngineInv, ControlInv, HandleOutlivesWorkers
<1> QED BY <1>1, TypesAndInv, PTL

\* No worker applies strategies twice to a flow whose table entry has not been
\* erased in between (engine.cpp:166-199, flow_table.cpp:32-59).
THEOREM ClaimedOnce == Spec => []ClaimOncePerWorker
<1>1. TypeOK /\ EngineInv => ClaimOncePerWorker
  <2> SUFFICES ASSUME TypeOK, EngineInv, NEW f \in Flow, NEW w \in Worker
               PROVE  claims[f][w] <= 1
      BY DEF ClaimOncePerWorker
  <2> QED BY DEF TypeOK, EngineInv, FlowInv
<1> QED BY <1>1, TypesAndInv, PTL

-----------------------------------------------------------------------------
(* The counters. *)

\* What is counted is finite.
LEMMA CountedIsFinite ==
    ASSUME EngineAssumption
    PROVE  /\ IsFiniteSet(Held) /\ IsFiniteSet(Lost) /\ IsFiniteSet(Pieces)
           /\ Cardinality(Held) \in Nat /\ Cardinality(Lost) \in Nat
           /\ Cardinality(Pieces) \in Nat
<1>1. IsFiniteSet(Packet) /\ IsFiniteSet(1 .. MaxPieces)
      BY FS_Interval DEF Packet, EngineAssumption
<1>2. IsFiniteSet(Packet \X (1 .. MaxPieces))
      BY <1>1, FS_Product
<1>3. /\ Held \in SUBSET Packet /\ Lost \in SUBSET Packet
      /\ Pieces \in SUBSET (Packet \X (1 .. MaxPieces))
      BY DEF Held, Lost, Pieces
<1>4. IsFiniteSet(Held) /\ IsFiniteSet(Lost) /\ IsFiniteSet(Pieces)
      BY <1>1, <1>2, <1>3, FS_Subset
<1> QED BY <1>4, FS_CardinalityType

LEMMA CountersFrame ==
    ASSUME CountersBalance, UNCHANGED packetVars, Held' = Held,
           \A c \in {"recv", "passthrough", "modified", "dropped", "emitted"} :
             stats'[c] = stats[c]
    PROVE  CountersBalance'
<1>1. Lost' = Lost /\ Pieces' = Pieces
      BY DEF Lost, Pieces
<1> QED BY <1>1 DEF CountersBalance

\* A worker that decides about its packet takes it out of those that are held.
LEMMA HeldLess ==
    ASSUME EngineAssumption, TypeOK, PacketInv, NEW w \in Worker,
           pc[w] \in {"classify", "probed"}, verdict'[cur[w]] # "none",
           \A p \in Packet : p # cur[w] => verdict'[p] = verdict[p],
           \A x \in Worker : cur'[x] = cur[x] \/ (x = w /\ cur'[x] = NoPacket)
    PROVE  /\ Cardinality(Held') \in Nat /\ Cardinality(Held) = Cardinality(Held') + 1
           /\ verdict'[cur[w]] # "lost" => Lost' = Lost
           /\ verdict'[cur[w]] = "lost" => Cardinality(Lost') = Cardinality(Lost) + 1
<1> DEFINE q == cur[w]
           v == verdict'[cur[w]]
<1>1. q \in Packet /\ q # NoPacket /\ verdict[q] = "none"
      BY DEF TypeOK, PacketInv
<1>2. q \in Held /\ q \notin Lost
      BY <1>1 DEF Held, Lost
<1>3. \A p \in Packet : verdict'[p] = IF p = q THEN v ELSE verdict[p]
      BY <1>1
<1>4. Held' = Held \ {q}
  <2>1. ASSUME NEW p \in Packet, p # q
        PROVE  (\E x \in Worker : cur'[x] = p) <=> \E x \in Worker : cur[x] = p
    <3>1. \A x \in Worker : cur'[x] = p <=> cur[x] = p
          BY <2>1 DEF TypeOK, Packet, NoPacket
    <3> QED BY <3>1
  <2>2. v # "none"
        OBVIOUS
  <2> HIDE DEF q, v
  <2> QED BY <1>3, <2>1, <2>2 DEF Held
<1>5. Lost' = IF v = "lost" THEN Lost \cup {q} ELSE Lost
  <2> HIDE DEF q, v
  <2> QED BY <1>1, <1>3 DEF Lost
<1>6. Cardinality(Held \ {q}) = Cardinality(Held) - 1 /\ Cardinality(Held) \in Nat
      BY <1>2, CountedIsFinite, FS_RemoveElement
<1>7. Cardinality(Held \ {q}) \in Nat
      BY CountedIsFinite, FS_RemoveElement, FS_CardinalityType
<1>8. Cardinality(Lost \cup {q}) = Cardinality(Lost) + 1
      BY <1>2, CountedIsFinite, FS_AddElement
<1>9. Cardinality(Held') \in Nat /\ Cardinality(Held) = Cardinality(Held') + 1
  <2> HIDE DEF q
  <2> QED BY <1>4, <1>6, <1>7
<1>10. v = "lost" => Cardinality(Lost') = Cardinality(Lost) + 1
  <2> HIDE DEF q, v
  <2> QED BY <1>5, <1>8
<1> QED BY <1>5, <1>9, <1>10

\* A worker lets its packet go.
LEMMA LetGo ==
    ASSUME TypeOK, NEW w \in Worker, cur' = [cur EXCEPT ![w] = NoPacket]
    PROVE  \A x \in Worker : cur'[x] = cur[x] \/ (x = w /\ cur'[x] = NoPacket)
<1>1. DOMAIN cur = Worker
      BY DEF TypeOK
<1> QED BY <1>1

\* The worker's packet, decided in the table of verdicts.
LEMMA Decided ==
    ASSUME TypeOK, PacketInv, NEW w \in Worker, pc[w] \in {"classify", "probed"},
           NEW v, verdict' = [verdict EXCEPT ![cur[w]] = v]
    PROVE  /\ cur[w] \in Packet /\ verdict'[cur[w]] = v
           /\ \A p \in Packet : p # cur[w] => verdict'[p] = verdict[p]
<1>1. cur[w] \in Packet
      BY DEF TypeOK, PacketInv
<1> QED BY <1>1 DEF TypeOK

LEMMA SendOriginalBalances ==
    ASSUME EngineAssumption, TypeOK, PacketInv, CountersBalance, NEW w \in Worker,
           pc[w] \in {"classify", "probed"}, SendOriginal(w)
    PROVE  CountersBalance'
<1>1. stats \in [Counter -> Nat] /\ cur' = [cur EXCEPT ![w] = NoPacket]
      BY DEF TypeOK, SendOriginal
<1>2. Cardinality(Held) \in Nat /\ Cardinality(Lost) \in Nat /\ Cardinality(Pieces) \in Nat
      BY CountedIsFinite
<1>5. \A x \in Worker : cur'[x] = cur[x] \/ (x = w /\ cur'[x] = NoPacket)
      BY <1>1, LetGo
<1>3. CASE /\ Bump({"passthrough", "emitted"})
           /\ verdict' = [verdict EXCEPT ![cur[w]] = "pass"]
           /\ wire' = [wire EXCEPT ![cur[w]].orig = @ + 1]
  <2>1. /\ Cardinality(Held') \in Nat /\ Cardinality(Held) = Cardinality(Held') + 1
        /\ Lost' = Lost /\ cur[w] \in Packet
    <3>1. /\ cur[w] \in Packet /\ verdict'[cur[w]] = "pass"
          /\ \A p \in Packet : p # cur[w] => verdict'[p] = verdict[p]
          BY <1>3, Decided
    <3> QED BY <1>5, <3>1, HeldLess
  <2>2. \A p \in Packet : wire'[p].pieces = wire[p].pieces
        BY <1>3, <2>1 DEF TypeOK
  <2>3. Pieces' = Pieces
        BY <2>2 DEF Pieces
  <2>4. /\ stats'["passthrough"] = stats["passthrough"] + 1
        /\ stats'["emitted"] = stats["emitted"] + 1 /\ stats'["recv"] = stats["recv"]
        /\ stats'["modified"] = stats["modified"] /\ stats'["dropped"] = stats["dropped"]
        BY <1>1, <1>3 DEF Bump, Counter
  <2> QED BY <1>1, <1>2, <2>1, <2>3, <2>4 DEF CountersBalance, Counter
<1>4. CASE /\ Bump({"errors_send"})
           /\ verdict' = [verdict EXCEPT ![cur[w]] = "lost"]
           /\ UNCHANGED wire
  <2>1. /\ Cardinality(Held') \in Nat /\ Cardinality(Held) = Cardinality(Held') + 1
        /\ Cardinality(Lost') = Cardinality(Lost) + 1
    <3>1. /\ cur[w] \in Packet /\ verdict'[cur[w]] = "lost"
          /\ \A p \in Packet : p # cur[w] => verdict'[p] = verdict[p]
          BY <1>4, Decided
    <3> QED BY <1>5, <3>1, HeldLess
  <2>2. Pieces' = Pieces
        BY <1>4 DEF Pieces
  <2>3. \A c \in Counter \ {"errors_send"} : stats'[c] = stats[c]
        BY <1>1, <1>4 DEF Bump
  <2> QED BY <1>1, <1>2, <2>1, <2>2, <2>3 DEF CountersBalance, Counter
<1> QED BY <1>3, <1>4 DEF SendOriginal

\* A piece more of one packet.
LEMMA PieceMore ==
    ASSUME EngineAssumption, TypeOK, NEW q \in Packet, wire[q].pieces < MaxPieces,
           wire' = [wire EXCEPT ![q].pieces = @ + 1]
    PROVE  Cardinality(Pieces') = Cardinality(Pieces) + 1
<1> DEFINE n == wire[q].pieces + 1
<1>1. n \in 1 .. MaxPieces
      BY DEF TypeOK, EngineAssumption
<1>2. \A p \in Packet : wire'[p].pieces = IF p = q THEN n ELSE wire[p].pieces
      BY DEF TypeOK
<1>3. \A k \in 1 .. MaxPieces : k <= n <=> k <= wire[q].pieces \/ k = n
  <2> DEFINE m == wire[q].pieces
  <2>1. m \in Nat
        BY DEF TypeOK
  <2> HIDE DEF m
  <2>2. \A k \in 1 .. MaxPieces : k <= m + 1 <=> k <= m \/ k = m + 1
        BY <2>1
  <2> QED BY <2>2 DEF m
<1>4. <<q, n>> \notin Pieces
      BY <1>1 DEF Pieces, TypeOK
<1>5. Pieces' = Pieces \cup {<<q, n>>}
  <2> HIDE DEF n
  <2>1. ASSUME NEW p \in Packet, NEW k \in 1 .. MaxPieces
        PROVE  <<p, k>> \in Pieces' <=> <<p, k>> \in Pieces \/ <<p, k>> = <<q, n>>
        BY <1>2, <1>3 DEF Pieces
  <2>2. /\ Pieces' \subseteq Packet \X (1 .. MaxPieces)
        /\ Pieces \cup {<<q, n>>} \subseteq Packet \X (1 .. MaxPieces)
        BY <1>1 DEF Pieces
  <2> QED BY <2>1, <2>2
<1>6. Cardinality(Pieces \cup {<<q, n>>}) = Cardinality(Pieces) + 1
      BY <1>4, CountedIsFinite, FS_AddElement
<1> HIDE DEF n
<1> QED BY <1>5, <1>6

LEMMA WorkerBalances ==
    ASSUME EngineAssumption, TypeOK, EngineInv, CountersBalance, NEW w \in Worker,
           WorkerStep(w) \/ RecvTransient(w)
    PROVE  CountersBalance'
<1> USE DEF EngineInv
<1>0. /\ stats \in [Counter -> Nat] /\ Cardinality(Held) \in Nat
      /\ Cardinality(Lost) \in Nat /\ Cardinality(Pieces) \in Nat
      BY CountedIsFinite DEF TypeOK
<1>1. CASE CheckRunning(w) \/ RecvFails(w) \/ Probe(w) \/ Update(w)
  <2>1. UNCHANGED <<cur, packetVars, stats>>
        BY <1>1 DEF CheckRunning, RecvFails, Probe, Update
  <2>2. Held' = Held
        BY <2>1 DEF Held
  <2> QED BY <2>1, <2>2, CountersFrame
<1>2. CASE Recv(w)
  <2>1. /\ received + 1 \in Packet /\ verdict[received + 1] = "none"
        /\ received \in Nat /\ cur[w] = NoPacket
    <3>1. /\ received \in Nat /\ captured \in 0 .. MaxPackets /\ received < captured
          /\ pc[w] = "recv"
          BY <1>2 DEF Recv, Goto, TypeOK, EngineAssumption
    <3>2. received + 1 \in Packet /\ received + 1 > received
          BY <3>1 DEF Packet, EngineAssumption
    <3>3. verdict[received + 1] = "none"
          BY <3>2 DEF PacketInv
    <3>4. cur[w] = NoPacket
          BY <3>1 DEF PacketInv
    <3> QED BY <3>1, <3>2, <3>3, <3>4
  <2> DEFINE q == received + 1
  <2>2. /\ cur' = [cur EXCEPT ![w] = q] /\ UNCHANGED packetVars
        /\ stats'["recv"] = stats["recv"] + 1
        /\ \A c \in Counter \ {"recv"} : stats'[c] = stats[c]
        BY <1>0, <1>2 DEF Recv, Bump, Counter
  <2>3. \A x \in Worker : cur[x] # q
        BY <2>1 DEF PacketInv, TypeOK, Packet
  <2>4. q \notin Held
        BY <2>3 DEF Held
  <2>5. Held' = Held \cup {q}
    <3>1. ASSUME NEW p \in Packet
          PROVE  (\E x \in Worker : cur'[x] = p) <=> (p = q \/ \E x \in Worker : cur[x] = p)
      <4>1. cur'[w] = q /\ \A x \in Worker \ {w} : cur'[x] = cur[x]
            BY <2>2 DEF TypeOK
      <4>2. cur[w] # p
            BY <2>1 DEF Packet
      <4> HIDE DEF q
      <4> QED BY <4>1, <4>2
    <3> HIDE DEF q
    <3> QED BY <2>1, <2>2, <3>1 DEF Held, q
  <2>6. Cardinality(Held') = Cardinality(Held) + 1
    <3>1. Cardinality(Held \cup {q}) = Cardinality(Held) + 1
          BY <2>4, CountedIsFinite, FS_AddElement
    <3> HIDE DEF q
    <3> QED BY <2>5, <3>1
  <2>7. Lost' = Lost /\ Pieces' = Pieces
        BY <2>2 DEF Lost, Pieces
  <2> QED BY <1>0, <2>2, <2>6, <2>7 DEF CountersBalance, Counter
<1>3. CASE RecvFailed(w)
  <2>1. UNCHANGED <<cur, packetVars>>
        BY <1>3 DEF RecvFailed
  <2>2. Held' = Held
        BY <2>1 DEF Held
  <2>3. \A c \in Counter \ {"errors_recv"} : stats'[c] = stats[c]
        BY <1>0, <1>3 DEF RecvFailed, Bump
  <2> QED BY <2>1, <2>2, <2>3, CountersFrame DEF Counter
<1>4. CASE DropRst(w)
  <2>0. /\ pc[w] = "classify" /\ verdict' = [verdict EXCEPT ![cur[w]] = "drop"]
        /\ cur' = [cur EXCEPT ![w] = NoPacket]
        BY <1>4 DEF DropRst
  <2>1. /\ Cardinality(Held') \in Nat /\ Cardinality(Held) = Cardinality(Held') + 1
        /\ Lost' = Lost
    <3>1. /\ verdict'[cur[w]] = "drop"
          /\ \A p \in Packet : p # cur[w] => verdict'[p] = verdict[p]
          BY <2>0, Decided
    <3>2. \A x \in Worker : cur'[x] = cur[x] \/ (x = w /\ cur'[x] = NoPacket)
          BY <2>0, LetGo
    <3> QED BY <2>0, <3>1, <3>2, HeldLess
  <2>2. Pieces' = Pieces
        BY <1>4 DEF DropRst, Pieces
  <2>3. /\ stats'["dropped"] = stats["dropped"] + 1
        /\ \A c \in Counter \ {"dropped"} : stats'[c] = stats[c]
        BY <1>0, <1>4 DEF DropRst, Bump, Counter
  <2> QED BY <1>0, <2>1, <2>2, <2>3 DEF CountersBalance, Counter
<1>5. CASE PassUntouched(w) \/ PassHandled(w) \/ PassUnclaimed(w)
      BY <1>5, SendOriginalBalances DEF PassUntouched, PassHandled, PassUnclaimed, AtPipeline
<1>6. CASE Claim(w)
  <2>1. /\ Cardinality(Held') \in Nat /\ Cardinality(Held) = Cardinality(Held') + 1
        /\ Lost' = Lost
    <3>1. /\ pc[w] \in {"classify", "probed"} /\ cur' = cur
          /\ verdict' = [verdict EXCEPT ![cur[w]] = "claim"]
          BY <1>6 DEF Claim, AtPipeline
    <3>2. /\ verdict'[cur[w]] = "claim"
          /\ \A p \in Packet : p # cur[w] => verdict'[p] = verdict[p]
          BY <3>1, Decided
    <3>3. \A x \in Worker : cur'[x] = cur[x] \/ (x = w /\ cur'[x] = NoPacket)
          BY <3>1
    <3> QED BY <3>1, <3>2, <3>3, HeldLess
  <2>2. Pieces' = Pieces
        BY <1>6 DEF Claim, Pieces
  <2>3. /\ stats'["modified"] = stats["modified"] + 1
        /\ \A c \in Counter \ {"modified"} : stats'[c] = stats[c]
        BY <1>0, <1>6 DEF Claim, Bump, Counter
  <2> QED BY <1>0, <2>1, <2>2, <2>3 DEF CountersBalance, Counter
<1>7. CASE SendPiece(w)
  <2>1. /\ cur[w] \in Packet /\ verdict[cur[w]] = "claim" /\ UNCHANGED verdict
        /\ \A x \in Worker : cur'[x] = cur[x] \/ (x = w /\ cur'[x] = NoPacket)
    <3>1. cur[w] \in Packet /\ verdict[cur[w]] = "claim"
          BY <1>7 DEF SendPiece, PacketInv, TypeOK
    <3>2. UNCHANGED verdict
          BY <1>7 DEF SendPiece
    <3>3. \A x \in Worker : cur'[x] = cur[x] \/ (x = w /\ cur'[x] = NoPacket)
      <4>1. DOMAIN cur = Worker
            BY DEF TypeOK
      <4>2. \/ cur' = [cur EXCEPT ![w] = NoPacket]
            \/ cur' = [cur EXCEPT ![w] = @]
            BY <1>7 DEF SendPiece
      <4> QED BY <4>1, <4>2
    <3> QED BY <3>1, <3>2, <3>3
  <2>2. Held' = Held
    <3>1. ASSUME NEW p \in Packet, verdict[p] = "none"
          PROVE  (\E x \in Worker : cur'[x] = p) <=> \E x \in Worker : cur[x] = p
      <4>1. p # NoPacket /\ p # cur[w]
            BY <2>1, <3>1 DEF Packet
      <4>2. \A x \in Worker : cur'[x] = p <=> cur[x] = p
            BY <2>1, <4>1 DEF TypeOK
      <4> QED BY <4>2
    <3> QED BY <2>1, <3>1 DEF Held
  <2>3. Lost' = Lost
        BY <2>1 DEF Lost
  <2>4. CASE Bump({"emitted"}) /\ wire' = [wire EXCEPT ![cur[w]].pieces = @ + 1]
    <3>1. wire[cur[w]].pieces < MaxPieces
          BY <1>7, <2>1 DEF SendPiece, PacketInv, TypeOK, EngineAssumption
    <3>2. Cardinality(Pieces') = Cardinality(Pieces) + 1
          BY <2>1, <2>4, <3>1, PieceMore
    <3>3. /\ stats'["emitted"] = stats["emitted"] + 1
          /\ \A c \in Counter \ {"emitted"} : stats'[c] = stats[c]
          BY <1>0, <2>4 DEF Bump, Counter
    <3> QED BY <1>0, <2>2, <2>3, <3>2, <3>3 DEF CountersBalance, Counter
  <2>5. CASE Bump({"errors_send"}) /\ UNCHANGED wire
    <3>1. \A c \in Counter \ {"errors_send"} : stats'[c] = stats[c]
          BY <1>0, <2>5 DEF Bump
    <3> QED BY <2>1, <2>2, <2>5, <3>1, CountersFrame DEF Counter
  <2> QED BY <1>7, <2>4, <2>5 DEF SendPiece
<1> QED BY <1>1, <1>2, <1>3, <1>4, <1>5, <1>6, <1>7 DEF WorkerStep, RecvShut, RecvTransient

LEMMA BalanceStep ==
    ASSUME EngineAssumption, TypeOK, EngineInv, CountersBalance, [Next]_vars
    PROVE  CountersBalance'
<1>1. CASE \E w \in Worker : WorkerStep(w) \/ RecvTransient(w)
      BY <1>1, WorkerBalances
<1>2. CASE \/ Capture \/ OwnerStep \/ Tick \/ UNCHANGED vars
           \/ \E s \in Stopper : StopCall(s) \/ StopStep(s)
  <2>1. UNCHANGED <<cur, packetVars, stats>>
        BY <1>2 DEF Capture, OwnerStep, Open, SetRunning, Spawn, StartReturns, SpawnFails,
                    Unwind, Join, Close, OwnerGoto, Tick, StopStep, StopCall, TestHandle,
                    Shutdown, StopGoto
  <2>2. Held' = Held
        BY <2>1 DEF Held
  <2> QED BY <2>1, <2>2, CountersFrame
<1> QED BY <1>1, <1>2 DEF Next

\* Every packet received is passed, modified, dropped, lost or still held, and every
\* packet emitted an original or a piece (engine.cpp:86-216), for any number of workers.
THEOREM CountersAddUp == Spec => []CountersBalance
<1>1. Init => CountersBalance
  <2> SUFFICES ASSUME Init PROVE CountersBalance
      OBVIOUS
  <2>1. Held = {} /\ Lost = {}
        BY DEF Init, Held, Lost, Packet
  <2>2. Pieces = {}
        BY DEF Init, Pieces
  <2>3. \A c \in Counter : stats[c] = 0
        BY DEF Init
  <2> QED BY <2>1, <2>2, <2>3, FS_EmptySet DEF CountersBalance, Counter
<1>2. CountersBalance /\ (TypeOK /\ EngineInv) /\ [Next]_vars => CountersBalance'
      BY BalanceStep, EngineAssumption
<1> QED BY <1>1, <1>2, TypesAndInv, PTL DEF Spec
-----------------------------------------------------------------------------
(* Refinement. *)

\* A worker that injects the original does what PacketService calls Pass or Lose.
LEMMA SendOriginalRefines ==
    ASSUME EngineAssumption, TypeOK, PacketInv, NEW w \in Worker,
           pc[w] \in {"classify", "probed"}, SendOriginal(w)
    PROVE  PS!Next
<1>1. /\ cur[w] \in Packet /\ verdict[cur[w]] = "none" /\ cur[w] <= received
      /\ wire[cur[w]] = [orig |-> 0, pieces |-> 0]
      BY DEF TypeOK, PacketInv
<1>2. ~(cur[w] > captured)
      BY <1>1 DEF TypeOK, Packet, EngineAssumption
<1>3. PS!Undecided(cur[w])
      BY <1>1, <1>2 DEF PacketInv, PS!Undecided
<1>4. CASE /\ verdict' = [verdict EXCEPT ![cur[w]] = "pass"]
           /\ wire' = [wire EXCEPT ![cur[w]].orig = @ + 1]
  <2>1. wire' = [wire EXCEPT ![cur[w]].orig = 1]
    <3>1. wire[cur[w]].orig + 1 = 1
          BY <1>1
    <3> QED BY <1>4, <3>1
  <2> QED BY <1>1, <1>3, <1>4, <2>1 DEF PS!Next, PS!Pass, SendOriginal
<1>5. CASE verdict' = [verdict EXCEPT ![cur[w]] = "lost"] /\ UNCHANGED wire
      BY <1>1, <1>3, <1>5 DEF PS!Next, PS!Lose, SendOriginal
<1> QED BY <1>4, <1>5 DEF SendOriginal

\* Every step of the engine is a step of PacketService or changes nothing of it.
LEMMA RefinementStep ==
    ASSUME EngineAssumption, TypeOK, EngineInv, [Next]_vars
    PROVE  [PS!Next]_<<pkt, verdict, wire>>
<1> USE DEF EngineInv
<1>1. CASE Capture
  <2>1. PICK k \in Traffic : pkt' = [pkt EXCEPT ![captured + 1] = k]
        BY <1>1 DEF Capture
  <2>2. captured + 1 \in Packet /\ k \in Kind /\ pkt[captured + 1] = NoKind
        BY <1>1 DEF Capture, TypeOK, PacketInv, Packet, EngineAssumption
  <2> QED BY <1>1, <2>1, <2>2 DEF Capture, PS!Next, PS!Arrive
<1>2. CASE OwnerStep
      BY <1>2 DEF OwnerStep, Open, SetRunning, Spawn, StartReturns, SpawnFails, Unwind,
                  Join, Close, OwnerGoto
<1>3. CASE Tick
      BY <1>3 DEF Tick
<1>4. ASSUME NEW w \in Worker, WorkerStep(w) \/ RecvTransient(w)
      PROVE  [PS!Next]_<<pkt, verdict, wire>>
  <2>0. ASSUME cur[w] # NoPacket
        PROVE  /\ cur[w] \in Packet /\ pkt[cur[w]] # NoKind /\ pkt[cur[w]] \in Kind
    <3>1. cur[w] \in Packet /\ cur[w] <= received
          BY <2>0 DEF TypeOK, PacketInv
    <3>2. ~(cur[w] > captured)
          BY <3>1 DEF TypeOK, Packet, EngineAssumption
    <3> QED BY <3>1, <3>2 DEF TypeOK, PacketInv
  <2>1. CASE CheckRunning(w) \/ Recv(w) \/ RecvFails(w) \/ RecvFailed(w)
             \/ Probe(w) \/ Update(w)
        BY <2>1 DEF CheckRunning, Recv, RecvFails, RecvFailed, Probe, Update
  <2>2. CASE DropRst(w)
    <3>1. /\ cur[w] # NoPacket /\ verdict[cur[w]] = "none"
          /\ pkt[cur[w]].class = "rst" /\ RstDrop
          BY <2>2 DEF DropRst, PacketInv, droppable, held
    <3> QED BY <2>0, <2>2, <3>1 DEF DropRst, PS!Next, PS!Drop, PS!Undecided
  <2>3. CASE PassUntouched(w) \/ PassHandled(w) \/ PassUnclaimed(w)
        BY <2>3, SendOriginalRefines
        DEF PassUntouched, PassHandled, PassUnclaimed, AtPipeline
  <2>4. CASE Claim(w)
    <3>1. cur[w] # NoPacket /\ verdict[cur[w]] = "none" /\ eligible(pkt[cur[w]])
          BY <2>4 DEF Claim, AtPipeline, PacketInv, held
    <3>2. /\ pkt[cur[w]].class \in {"data", "tls", "http"}
          /\ DomainMode = "Allowlist" => pkt[cur[w]].host = "listed"
          /\ DomainMode = "Blocklist" => pkt[cur[w]].host # "listed"
          BY <3>1 DEF eligible, allow, should_apply
    <3> QED BY <2>0, <2>4, <3>1, <3>2 DEF Claim, PS!Next, PS!Claim, PS!Undecided
  <2>5. CASE SendPiece(w)
    <3>1. /\ cur[w] # NoPacket /\ verdict[cur[w]] = "claim"
          /\ left[w] > 0 /\ wire[cur[w]].pieces + left[w] <= MaxPieces
          BY <2>5 DEF SendPiece, PacketInv
    <3>2. wire[cur[w]].pieces < MaxPieces
          BY <2>0, <3>1 DEF TypeOK, EngineAssumption
    <3> QED BY <2>0, <2>5, <3>1, <3>2 DEF SendPiece, PS!Next, PS!Emit
  <2> QED BY <1>4, <2>1, <2>2, <2>3, <2>4, <2>5 DEF WorkerStep, RecvShut, RecvTransient
<1>5. CASE \E s \in Stopper : StopCall(s) \/ StopStep(s)
      BY <1>5 DEF StopStep, StopCall, TestHandle, Shutdown, StopGoto
<1>6. CASE UNCHANGED vars
      BY <1>6
<1> QED BY <1>1, <1>2, <1>3, <1>4, <1>5, <1>6 DEF Next

\* Engine implements PacketService: one verdict per packet, the original at most
\* once and never next to its replacement, and only permitted packets replaced
\* or dropped, for any number of workers.
THEOREM Refinement == Spec => ImplementsPacketService
<1>1. Init => PS!Init
      BY DEF Init, PS!Init, PS!Nothing
<1>2. TypeOK /\ EngineInv /\ [Next]_vars => [PS!Next]_<<pkt, verdict, wire>>
      BY RefinementStep, EngineAssumption
<1> QED BY <1>1, <1>2, TypesAndInv, PTL DEF Spec, ImplementsPacketService, PS!Spec
=============================================================================
