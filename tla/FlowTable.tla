----------------------------- MODULE FlowTable -----------------------------
(***************************************************************************)
(* FlowTable of include/sgdpi/flow_table.hpp and src/flow_table.cpp: a     *)
(* striped hash map from flow keys to flow states, shared by the engine's  *)
(* workers.  A caller probes a flow, keeps a copy of its state together    *)
(* with a handle, and later commits the copy with update().  Each of the   *)
(* two holds the stripe's mutex, so each is one step; nothing is locked    *)
(* between them.                                                           *)
(*                                                                         *)
(* Time.  last_seen is modelled by its age, now - last_seen, which Tick    *)
(* advances.  Ages saturate at MaxAge, past which no comparison of the     *)
(* code tells two of them apart.  probe() reads the clock BEFORE it takes  *)
(* the mutex (flow_table.cpp:36-38), so the time it works with may be old  *)
(* by any lag up to MaxLag ticks.                                          *)
(*                                                                         *)
(* Iteration order.  sweep() walks the stripe's unordered_map from begin().*)
(* "before" is that order.  Erasing keeps the order of what remains;       *)
(* inserting may rehash, so the order after an insertion is unspecified.   *)
(*                                                                         *)
(* A definition marked "mutant" is a faulty variant of the one after it;   *)
(* nothing uses it but the mutation runs listed in PROJECT.json.           *)
(***************************************************************************)
EXTENDS Naturals, FiniteSets

CONSTANTS
    Key,            \* flow keys (FlowKey)
    Stripe,         \* stripes, each with its own mutex and map
    bucket_for,     \* the stripe a key hashes to
    Caller,         \* threads that call the table
    NoKey,          \* "no handle", not a key
    TTL,            \* ttl_
    Budget,         \* entries one sweep looks at (8 in the code)
    MaxLag          \* bound on how old the time read by probe() may be

ASSUME FlowTableAssumption ==
    /\ bucket_for \in [Key -> Stripe]
    /\ NoKey \notin Key
    /\ TTL \in Nat
    /\ Budget \in Nat \ {0}
    /\ MaxLag \in Nat

VARIABLES
    map,            \* keys present in the table
    state,          \* the FlowState of every present key
    before,         \* iteration order of the present keys of a stripe
    fh              \* per caller: the probed key and the copied state

flowVars == <<map, state, before, fh>>

MaxAge    == TTL + MaxLag + 1
Age       == 0 .. MaxAge
FlowState == [first_handled : BOOLEAN, age : Age]
Fresh     == [first_handled |-> FALSE, age |-> 0]
Handle    == [key : Key \cup {NoKey}, fs : FlowState]
NoHandle  == [key |-> NoKey, fs |-> Fresh]

InStripe(s, S) == {k \in S : bucket_for[k] = s}

\* The keys the budget of one sweep of stripe s reaches.
ExaminedOneLess(s) == {k \in InStripe(s, map) :                      \* mutant
                  Cardinality({j \in map : <<j, k>> \in before}) < Budget - 1}
Examined(s) == {k \in InStripe(s, map) :
                  Cardinality({j \in map : <<j, k>> \in before}) < Budget}

\* now - last_seen > ttl_, for a clock reading that is lag ticks old.
ExpiredAtTTL(k, lag) == state[k].age >= TTL + lag                   \* mutant
Expired(k, lag) == state[k].age > TTL + lag

\* The keys a sweep of stripe s erases.
SweptNone(s, lag) == {}                                             \* mutant
Swept(s, lag) == {k \in Examined(s) : Expired(k, lag)}

\* Iteration orders the map of a stripe holding the keys S may have.
Orders(S) ==
    {{e \in S \X S : pos[e[1]] < pos[e[2]]} :
        pos \in {f \in [S -> 1 .. Cardinality(S)] :
                   \A a, b \in S : f[a] = f[b] => a = b}}

\* Insert k into the map holding the keys S, in any resulting order.
Place(k, S) ==
    LET s == bucket_for[k] IN
    \E o \in Orders(InStripe(s, S \cup {k})) :
        before' = {e \in before : e \in S \X S /\ bucket_for[e[1]] # s} \cup o

\* sweep, then find or create the entry, refresh it and copy it out.
probeKeepsOrder(c, k, lag) ==                                       \* mutant
    LET gone == Swept(bucket_for[k], lag)
        rest == map \ gone
        fs   == [first_handled |-> k \in rest /\ state[k].first_handled,
                 age           |-> lag]
    IN  /\ map'   = rest \cup {k}
        /\ state' = [j \in Key |-> IF j = k THEN fs
                                   ELSE IF j \in gone THEN Fresh ELSE state[j]]
        /\ \/ k \in rest /\ UNCHANGED before
           \/ k \notin rest /\ Place(k, rest)
        /\ fh' = [fh EXCEPT ![c] = [key |-> k, fs |-> fs]]
probe(c, k, lag) ==
    LET gone == Swept(bucket_for[k], lag)
        rest == map \ gone
        fs   == [first_handled |-> k \in rest /\ state[k].first_handled,
                 age           |-> lag]
    IN  /\ map'   = rest \cup {k}
        /\ state' = [j \in Key |-> IF j = k THEN fs
                                   ELSE IF j \in gone THEN Fresh ELSE state[j]]
        /\ \/ k \in rest /\ before' = before \cap (rest \X rest)
           \/ k \notin rest /\ Place(k, rest)
        /\ fh' = [fh EXCEPT ![c] = [key |-> k, fs |-> fs]]

\* The engine sets first_handled in its copy before it commits it.
unmarked(fs) == fs                                                  \* mutant
marked(fs)   == [fs EXCEPT !.first_handled = TRUE]

\* Commit the caller's copy, marked.  An entry that is gone is created again with
\* the copy's own last_seen; an entry that is there is overwritten and refreshed.
update(c) ==
    LET k == fh[c].key
        s == marked(fh[c].fs)
    IN  /\ k # NoKey
        /\ \/ /\ k \notin map
              /\ map'   = map \cup {k}
              /\ state' = [state EXCEPT ![k] = s]
              /\ Place(k, map)
           \/ /\ k \in map
              /\ state' = [state EXCEPT ![k] = [s EXCEPT !.age = 0]]
              /\ UNCHANGED <<map, before>>
        /\ fh' = [fh EXCEPT ![c] = NoHandle]

\* The caller's copy and handle go out of scope without an update.
release(c) == /\ fh[c].key # NoKey
              /\ fh' = [fh EXCEPT ![c] = NoHandle]
              /\ UNCHANGED <<map, state, before>>

Older(a) == IF a < MaxAge THEN a + 1 ELSE a

Tick == /\ state' = [k \in Key |-> IF k \in map
                                   THEN [state[k] EXCEPT !.age = Older(@)]
                                   ELSE state[k]]
        /\ fh' = [c \in Caller |-> IF fh[c].key # NoKey
                                   THEN [fh[c] EXCEPT !.fs.age = Older(@)]
                                   ELSE fh[c]]
        /\ UNCHANGED <<map, before>>

TableInit == /\ map    = {}
             /\ state  = [k \in Key |-> Fresh]
             /\ before = {}
             /\ fh     = [c \in Caller |-> NoHandle]

Lookup(c, k) == fh[c].key = NoKey /\ \E lag \in 0 .. MaxLag : probe(c, k, lag)

\* A caller finishes: only a flow it saw unmarked is ever committed.
Commit(c)  == ~fh[c].fs.first_handled /\ update(c)

Call(c) == (\E k \in Key : Lookup(c, k)) \/ Commit(c) \/ release(c)

TableNext == (\E c \in Caller : Call(c)) \/ Tick

TableSpec == TableInit /\ [][TableNext]_flowVars

\* One of the flows of a stripe is looked up.
StripeCall(s) == \E c \in Caller : \E k \in InStripe(s, Key) : Lookup(c, k)
-----------------------------------------------------------------------------
\* Type invariant.  The iteration order relates present keys of one stripe.
FlowTypeOK ==
    /\ map \subseteq Key
    /\ state \in [Key -> FlowState]
    /\ before \subseteq map \X map
    /\ \A e \in before : bucket_for[e[1]] = bucket_for[e[2]]
    /\ fh \in [Caller -> Handle]

\* No caller can take the mark of a live flow away: whatever the interleaving
\* of the unlocked gap between probe() and update(), a marked flow stays marked
\* until it has been idle for longer than the TTL (flow_table.cpp:32-59).
MarkedUntilExpired ==
    [][\A k \in map : state[k].first_handled /\ state[k].age <= TTL
          => k \in map' /\ state'[k].first_handled]_flowVars

\* "Per-flow state with TTL-based expiry" (flow_table.hpp:1): a probe never reports
\* "already handled" for a flow that has been idle for longer than the TTL plus the age
\* of the clock reading, so that a new connection on the same 5-tuple is treated as new.
NoStaleHit ==
    [][\A c \in Caller :
          fh[c].key = NoKey /\ fh'[c].key # NoKey /\ fh'[c].fs.first_handled
             => state[fh'[c].key].age <= TTL + MaxLag]_flowVars

\* What a sweep of its stripe meets before k.
Ahead(k) == {j \in map : bucket_for[j] = bucket_for[k] /\ <<j, k>> \in before}
OutOfReach(k) == Cardinality(Ahead(k)) >= Budget

\* What is left of NoStaleHit: a probe reports an expired mark only of a flow that as
\* many others of its stripe lie ahead of as one sweep looks at (flow_table.cpp:19-46).
StaleHitsOutOfReach ==
    [][\A c \in Caller :
          fh[c].key = NoKey /\ fh'[c].key # NoKey /\ fh'[c].fs.first_handled
             => \/ state[fh'[c].key].age <= TTL + MaxLag
                \/ OutOfReach(fh'[c].key)]_flowVars

\* While its stripe keeps being looked up, an expired entry that a sweep reaches does not
\* stay: it is erased, used again, or insertions move it out of reach.  That is all there
\* is to "keeps the data structure bounded even under churn" (flow_table.hpp:8-11): out of
\* reach, behind entries in use, it stays.
ReachableIsSwept ==
    \A k \in Key : (k \in map /\ Expired(k, MaxLag))
                     ~> (~(k \in map /\ Expired(k, MaxLag)) \/ OutOfReach(k))
=============================================================================
