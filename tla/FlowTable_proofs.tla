-------------------------- MODULE FlowTable_proofs --------------------------
(***************************************************************************)
(* What holds of FlowTable for every number of callers, flows, stripes,    *)
(* every TTL, budget and clock lag: a marked flow keeps its mark until it  *)
(* expires, and a probe reports an expired mark only of a flow that a      *)
(* sweep's budget of others lies ahead of.  The first five lemmas say what *)
(* the calls do to types and marks; Engine_proofs has them for its         *)
(* instance of the table.                                                  *)
(***************************************************************************)
EXTENDS FlowTable, FiniteSetTheorems, TLAPS

-----------------------------------------------------------------------------
\* Placing a key keeps the iteration order within the stripes of present keys.
LEMMA PlaceType ==
    ASSUME FlowTableAssumption, NEW S \in SUBSET Key, NEW k \in Key,
           \A e \in before : bucket_for[e[1]] = bucket_for[e[2]],
           before \subseteq Key \X Key,
           Place(k, S)
    PROVE  /\ before' \subseteq (S \cup {k}) \X (S \cup {k})
           /\ \A e \in before' : bucket_for[e[1]] = bucket_for[e[2]]
<1> DEFINE T == InStripe(bucket_for[k], S \cup {k})
<1>1. PICK o \in Orders(T) :
        before' = {e \in before : e \in S \X S /\ bucket_for[e[1]] # bucket_for[k]} \cup o
      BY DEF Place
<1>2. o \subseteq T \X T
      BY <1>1 DEF Orders
<1>3. T \subseteq S \cup {k} /\ \A j \in T : bucket_for[j] = bucket_for[k]
      BY DEF InStripe
<1>4. \A e \in o : e \in (S \cup {k}) \X (S \cup {k}) /\ bucket_for[e[1]] = bucket_for[e[2]]
      BY <1>2, <1>3
<1> QED BY <1>1, <1>4

\* probe() keeps the types, and gives the caller a handle of the probed flow.
LEMMA ProbeType ==
    ASSUME FlowTableAssumption, FlowTypeOK,
           NEW c \in Caller, NEW k \in Key, NEW lag \in 0 .. MaxLag,
           probe(c, k, lag)
    PROVE  /\ FlowTypeOK'
           /\ fh' = [fh EXCEPT ![c] = fh'[c]]
           /\ fh'[c].key = k
           /\ fh'[c].fs.first_handled = state'[k].first_handled
<1> DEFINE gone == Swept(bucket_for[k], lag)
           rest == map \ gone
           fs   == [first_handled |-> k \in rest /\ state[k].first_handled, age |-> lag]
<1>1. /\ map'   = rest \cup {k}
      /\ state' = [j \in Key |-> IF j = k THEN fs
                                  ELSE IF j \in gone THEN Fresh ELSE state[j]]
      /\ fh' = [fh EXCEPT ![c] = [key |-> k, fs |-> fs]]
      /\ \/ k \in rest /\ before' = before \cap (rest \X rest)
         \/ k \notin rest /\ Place(k, rest)
      BY DEF probe
<1>2. /\ map \subseteq Key /\ before \subseteq map \X map
      /\ state \in [Key -> FlowState] /\ fh \in [Caller -> Handle]
      /\ \A e \in before : bucket_for[e[1]] = bucket_for[e[2]]
      BY DEF FlowTypeOK
<1>3. lag \in Age /\ 0 \in Age
      BY DEF Age, MaxAge, FlowTableAssumption
<1>4. state[k].first_handled \in BOOLEAN
      BY <1>2 DEF FlowState
<1>5. fs \in FlowState /\ Fresh \in FlowState
      BY <1>3, <1>4 DEF FlowState, Fresh
<1>6. state' \in [Key -> FlowState]
      BY <1>1, <1>2, <1>5
<1>7. fh' \in [Caller -> Handle]
      BY <1>1, <1>2, <1>5 DEF Handle
<1>8. before' \subseteq map' \X map' /\ \A e \in before' : bucket_for[e[1]] = bucket_for[e[2]]
  <2>1. CASE before' = before \cap (rest \X rest)
        BY <1>1, <1>2, <2>1
  <2>2. CASE Place(k, rest)
        <3>1. rest \in SUBSET Key /\ before \subseteq Key \X Key
              BY <1>2
        <3> HIDE DEF rest
        <3> QED BY <1>1, <1>2, <2>2, <3>1, PlaceType
  <2> QED BY <1>1, <2>1, <2>2
<1>9. map' \subseteq Key
      BY <1>1, <1>2
<1>10. fh'[c] = [key |-> k, fs |-> fs] /\ state'[k] = fs
      BY <1>1, <1>2
<1> QED BY <1>1, <1>2, <1>6, <1>7, <1>8, <1>9, <1>10 DEF FlowTypeOK

\* update() keeps the types, marks the flow and gives the handle up.
LEMMA UpdateType ==
    ASSUME FlowTableAssumption, FlowTypeOK, NEW c \in Caller, update(c)
    PROVE  /\ FlowTypeOK'
           /\ fh[c].key \in Key
           /\ fh' = [fh EXCEPT ![c] = NoHandle]
           /\ map' = map \cup {fh[c].key}
           /\ state'[fh[c].key].first_handled
           /\ \A j \in Key : j # fh[c].key => state'[j] = state[j]
<1> DEFINE k == fh[c].key
           s == marked(fh[c].fs)
<1>1. /\ map \subseteq Key /\ before \subseteq map \X map
      /\ state \in [Key -> FlowState] /\ fh \in [Caller -> Handle]
      /\ \A e \in before : bucket_for[e[1]] = bucket_for[e[2]]
      BY DEF FlowTypeOK
<1>2. k \in Key /\ fh[c].fs \in FlowState
      BY <1>1 DEF update, Handle
<1>3. s \in FlowState /\ s.first_handled
      BY <1>2 DEF marked, FlowState
<1>4. [s EXCEPT !.age = 0] \in FlowState /\ [s EXCEPT !.age = 0].first_handled
      BY <1>3 DEF FlowState, Age, MaxAge, FlowTableAssumption
<1>5. NoHandle \in Handle
      BY DEF NoHandle, Handle, Fresh, FlowState, Age, MaxAge,
             FlowTableAssumption
<1>6. fh' = [fh EXCEPT ![c] = NoHandle] /\ fh' \in [Caller -> Handle]
      BY <1>1, <1>5 DEF update
<1>7. CASE /\ k \notin map /\ map' = map \cup {k}
           /\ state' = [state EXCEPT ![k] = s] /\ Place(k, map)
  <2>1. before' \subseteq map' \X map' /\ \A e \in before' : bucket_for[e[1]] = bucket_for[e[2]]
    <3>1. before \subseteq Key \X Key
          BY <1>1
    <3> HIDE DEF k
    <3> QED BY <1>1, <1>2, <1>7, <3>1, PlaceType
  <2> QED BY <1>1, <1>2, <1>3, <1>6, <1>7, <2>1 DEF FlowTypeOK
<1>8. CASE /\ k \in map /\ state' = [state EXCEPT ![k] = [s EXCEPT !.age = 0]]
           /\ UNCHANGED <<map, before>>
  <2> DEFINE s0 == [s EXCEPT !.age = 0]
  <2> HIDE DEF s
  <2>1. s0 \in FlowState /\ s0.first_handled /\ state' = [state EXCEPT ![k] = s0]
        BY <1>4, <1>8
  <2> HIDE DEF s0, k
  <2>2. /\ state' \in [Key -> FlowState] /\ state'[k].first_handled
        /\ \A j \in Key : j # k => state'[j] = state[j]
        BY <1>1, <1>2, <2>1
  <2>3. map' = map /\ map' = map \cup {k} /\ before' = before
        BY <1>8
  <2>4. FlowTypeOK'
        BY <1>1, <1>6, <2>2, <2>3 DEF FlowTypeOK
  <2> QED BY <1>2, <1>6, <2>2, <2>3, <2>4 DEF k
<1> QED BY <1>7, <1>8 DEF update

\* Dropping a handle touches nothing else.
LEMMA ReleaseType ==
    ASSUME FlowTableAssumption, FlowTypeOK, NEW c \in Caller, release(c)
    PROVE  FlowTypeOK'
<1>1. NoHandle \in Handle
      BY DEF NoHandle, Handle, Fresh, FlowState, Age, MaxAge,
             FlowTableAssumption
<1> QED BY <1>1 DEF FlowTypeOK, release

\* Time changes ages only.
LEMMA TickType ==
    ASSUME FlowTableAssumption, FlowTypeOK, Tick
    PROVE  /\ FlowTypeOK'
           /\ map' = map
           /\ \A k \in Key : state'[k].first_handled = state[k].first_handled
           /\ \A c \in Caller : /\ fh'[c].key = fh[c].key
                                /\ fh'[c].fs.first_handled = fh[c].fs.first_handled
<1>1. /\ state \in [Key -> FlowState] /\ fh \in [Caller -> Handle]
      BY DEF FlowTypeOK
<1>2. \A a \in Age : Older(a) \in Age
      BY DEF Older, Age, MaxAge, FlowTableAssumption
<1>3. \A x \in FlowState :
        /\ [x EXCEPT !.age = Older(@)] \in FlowState
        /\ [x EXCEPT !.age = Older(@)].first_handled = x.first_handled
      BY <1>2 DEF FlowState
<1>4. \A h \in Handle :
        /\ [h EXCEPT !.fs.age = Older(@)] \in Handle
        /\ [h EXCEPT !.fs.age = Older(@)].key = h.key
        /\ [h EXCEPT !.fs.age = Older(@)].fs.first_handled = h.fs.first_handled
      BY <1>2 DEF Handle, FlowState
<1>5. /\ state' \in [Key -> FlowState]
      /\ \A k \in Key : state'[k].first_handled = state[k].first_handled
      BY <1>1, <1>3 DEF Tick
<1>6. /\ fh' \in [Caller -> Handle]
      /\ \A c \in Caller : /\ fh'[c].key = fh[c].key
                           /\ fh'[c].fs.first_handled = fh[c].fs.first_handled
      BY <1>1, <1>4 DEF Tick
<1> QED BY <1>5, <1>6 DEF FlowTypeOK, Tick

LEMMA NextType ==
    ASSUME FlowTableAssumption, FlowTypeOK, [TableNext]_flowVars
    PROVE  FlowTypeOK'
<1>1. ASSUME NEW c \in Caller, Call(c)
      PROVE  FlowTypeOK'
  <2>1. ASSUME NEW k \in Key, NEW lag \in 0 .. MaxLag, probe(c, k, lag)
        PROVE  FlowTypeOK'
        BY <2>1, ProbeType
  <2> QED BY <1>1, <2>1, UpdateType, ReleaseType DEF Call, Lookup, Commit
<1>2. CASE Tick
      BY <1>2, TickType
<1>3. CASE UNCHANGED flowVars
      BY <1>3 DEF flowVars, FlowTypeOK
<1> QED BY <1>1, <1>2, <1>3 DEF TableNext

\* The types of the table: above all, it orders present keys only, stripe by stripe.
THEOREM TypeCorrect == TableSpec => []FlowTypeOK
<1>1. TableInit => FlowTypeOK
      BY FlowTableAssumption DEF TableInit, FlowTypeOK, NoHandle, Handle, Fresh, FlowState, Age,
                                 MaxAge, FlowTableAssumption
<1>2. FlowTypeOK /\ [TableNext]_flowVars => FlowTypeOK'
      BY NextType, FlowTableAssumption
<1> QED BY <1>1, <1>2, PTL DEF TableSpec
-----------------------------------------------------------------------------
(* Marks *)

\* A probe erases expired entries only, and no other step erases any.
LEMMA NextMark ==
    ASSUME FlowTableAssumption, FlowTypeOK, [TableNext]_flowVars, NEW k \in map,
           state[k].first_handled, state[k].age <= TTL
    PROVE  k \in map' /\ state'[k].first_handled
<1>1. /\ map \subseteq Key /\ k \in Key /\ state[k].age \in Nat /\ TTL \in Nat
      /\ MaxLag \in Nat
      BY DEF FlowTypeOK, FlowState, Age, MaxAge, FlowTableAssumption
<1>2. ASSUME NEW c \in Caller, NEW j \in Key, NEW lag \in 0 .. MaxLag, probe(c, j, lag)
      PROVE  k \in map' /\ state'[k].first_handled
  <2>1. k \notin Swept(bucket_for[j], lag)
        BY <1>1 DEF Swept, Expired
  <2> QED BY <1>1, <1>2, <2>1 DEF probe
<1>3. ASSUME NEW c \in Caller, update(c)
      PROVE  k \in map' /\ state'[k].first_handled
      BY <1>1, <1>3, UpdateType
<1>4. ASSUME NEW c \in Caller, release(c)
      PROVE  k \in map' /\ state'[k].first_handled
      BY <1>4 DEF release
<1>5. CASE Tick
      BY <1>1, <1>5, TickType
<1>6. CASE UNCHANGED flowVars
      BY <1>6 DEF flowVars
<1> QED BY <1>2, <1>3, <1>4, <1>5, <1>6 DEF TableNext, Call, Lookup, Commit

\* However probes and updates of any number of callers interleave, a marked flow stays
\* marked until it has been idle for longer than the TTL (flow_table.cpp:32-59).
THEOREM MarksLast == TableSpec => MarkedUntilExpired
<1>1. FlowTypeOK /\ [TableNext]_flowVars
        => [\A k \in map : state[k].first_handled /\ state[k].age <= TTL
              => k \in map' /\ state'[k].first_handled]_flowVars
      BY NextMark, FlowTableAssumption
<1> QED BY <1>1, TypeCorrect, PTL DEF TableSpec, MarkedUntilExpired
-----------------------------------------------------------------------------
(* Expired marks *)

\* The table never holds infinitely many flows.
LEMMA NextFinite ==
    ASSUME FlowTableAssumption, FlowTypeOK, IsFiniteSet(map), [TableNext]_flowVars
    PROVE  IsFiniteSet(map')
<1>1. ASSUME NEW c \in Caller, NEW k \in Key, NEW lag \in 0 .. MaxLag, probe(c, k, lag)
      PROVE  IsFiniteSet(map')
  <2> DEFINE rest == map \ Swept(bucket_for[k], lag)
  <2>1. IsFiniteSet(rest)
        BY FS_Subset
  <2>2. map' = rest \cup {k}
        BY <1>1 DEF probe
  <2> QED BY <2>1, <2>2, FS_AddElement
<1>2. ASSUME NEW c \in Caller, update(c)
      PROVE  IsFiniteSet(map')
      BY <1>2, UpdateType, FS_AddElement
<1>3. CASE map' = map
      BY <1>3
<1> QED BY <1>1, <1>2, <1>3 DEF TableNext, Call, Lookup, Commit, release, Tick, flowVars

\* What a sweep does not look at lies out of its reach.
LEMMA NotExamined ==
    ASSUME FlowTableAssumption, FlowTypeOK, IsFiniteSet(map), NEW k \in map,
           k \notin Examined(bucket_for[k])
    PROVE  OutOfReach(k)
<1>1. Ahead(k) = {j \in map : <<j, k>> \in before}
  <2>1. \A j \in map : <<j, k>> \in before => bucket_for[j] = bucket_for[k]
        BY DEF FlowTypeOK
  <2> QED BY <2>1 DEF Ahead
<1>2. ~(Cardinality(Ahead(k)) < Budget)
      BY <1>1 DEF Examined, InStripe
<1>3. Cardinality(Ahead(k)) \in Nat
  <2>1. Ahead(k) \subseteq map
        BY DEF Ahead
  <2> QED BY <2>1, FS_Subset, FS_CardinalityType
<1> QED BY <1>2, <1>3 DEF OutOfReach, FlowTableAssumption

LEMMA NextHit ==
    ASSUME FlowTableAssumption, FlowTypeOK, IsFiniteSet(map), [TableNext]_flowVars,
           NEW c \in Caller, fh[c].key = NoKey, fh'[c].key # NoKey, fh'[c].fs.first_handled
    PROVE  state[fh'[c].key].age <= TTL + MaxLag \/ OutOfReach(fh'[c].key)
<1>1. ASSUME NEW d \in Caller, NEW k \in Key, NEW lag \in 0 .. MaxLag, probe(d, k, lag)
      PROVE  state[fh'[c].key].age <= TTL + MaxLag \/ OutOfReach(fh'[c].key)
  <2>1. d = c
        BY <1>1 DEF probe, FlowTypeOK
  <2>2. /\ fh'[c].key = k
        /\ k \in map /\ k \notin Swept(bucket_for[k], lag)
        BY <1>1, <2>1 DEF probe, FlowTypeOK
  <2>3. CASE k \in Examined(bucket_for[k])
    <3>1. ~Expired(k, lag)
          BY <2>2, <2>3 DEF Swept
    <3>2. state[k].age \in Nat /\ TTL \in Nat /\ MaxLag \in Nat
          BY <2>2 DEF FlowTypeOK, FlowState, Age, MaxAge, FlowTableAssumption
    <3> QED BY <2>2, <3>1, <3>2 DEF Expired
  <2>4. CASE k \notin Examined(bucket_for[k])
        BY <2>2, <2>4, NotExamined
  <2> QED BY <2>3, <2>4
<1>2. ASSUME NEW d \in Caller, update(d) \/ release(d)
      PROVE  FALSE
  <2>1. fh' = [fh EXCEPT ![d] = NoHandle] /\ fh \in [Caller -> Handle]
        BY <1>2 DEF update, release, FlowTypeOK
  <2> QED BY <2>1 DEF NoHandle
<1>3. CASE Tick
      BY <1>3, TickType
<1>4. CASE UNCHANGED flowVars
      BY <1>4 DEF flowVars
<1> QED BY <1>1, <1>2, <1>3, <1>4 DEF TableNext, Call, Lookup, Commit

\* A probe reports an expired mark only of a flow that lies behind at least as many
\* others of its stripe as one sweep looks at, for any size of the stripe: sweep() looks
\* at all entries nearer than that before probe() does (flow_table.cpp:19-30, 39).
THEOREM StaleHitsOnlyBehind == TableSpec => StaleHitsOutOfReach
<1>1. TableInit => IsFiniteSet(map)
      BY FS_EmptySet DEF TableInit
<1>2. FlowTypeOK /\ IsFiniteSet(map) /\ [TableNext]_flowVars => IsFiniteSet(map)'
      BY NextFinite, FlowTableAssumption
<1>3. FlowTypeOK /\ IsFiniteSet(map) /\ [TableNext]_flowVars
        => [\A c \in Caller :
              fh[c].key = NoKey /\ fh'[c].key # NoKey /\ fh'[c].fs.first_handled
                 => \/ state[fh'[c].key].age <= TTL + MaxLag
                    \/ OutOfReach(fh'[c].key)]_flowVars
      BY NextHit, FlowTableAssumption
<1> QED BY <1>1, <1>2, <1>3, TypeCorrect, PTL DEF TableSpec, StaleHitsOutOfReach
=============================================================================
