------------------------------ MODULE AutoTune ------------------------------
(***************************************************************************)
(* The tuner of src/auto_tune.cpp: for every candidate strategy a Worker   *)
(* opens a WinDivert handle for the target and applies the strategy to     *)
(* what it captures, while the tuner connects, sends a ClientHello and     *)
(* waits for the first byte; the best score wins.                          *)
(*                                                                         *)
(* The network, external, decides about every attempt: no connection, no   *)
(* answer, an answer that is not TLS, or a ServerHello after some latency. *)
(* The handle captures the hello when it goes to the address the filter    *)
(* names: the tuner resolves the host once for the filter and again for    *)
(* every connection.                                                       *)
(*                                                                         *)
(* A definition marked "mutant" is a faulty variant of the one after it;   *)
(* nothing uses it but the mutation runs listed in PROJECT.json.           *)
(*                                                                         *)
(* Bounds: the candidates, Attempts per strategy, the latencies Latency.   *)
(***************************************************************************)
EXTENDS Naturals, Sequences

CONSTANTS candidates, Attempts, Latency     \* see StartupAssumption

Names == {candidates[k] : k \in DOMAIN candidates}

VARIABLES
    at,             \* place of the tuner
    sc,             \* score of the candidate under test
    scores,         \* the scores so far
    divert, running_, worker,       \* the Worker
    hello,          \* the ClientHello: "none", "queued", "out"
    best, seen      \* the best of the first scores, and how many these are
workVars   == <<divert, running_, worker>>
choiceVars == <<best, seen>>
vars == <<at, sc, scores, workVars, hello, choiceVars>>

Score   == [name : Names, attempts : Nat, successes : Nat, total : Nat]
current == candidates[Len(scores) + 1]
Zero    == [attempts |-> 0, successes |-> 0, total |-> 0]
None    == [name |-> "none", attempts |-> 1, successes |-> 0, total |-> 0]

\* getaddrinfo for the filter's address.
Resolve == /\ at = "resolve" /\ at' \in {"next", "done"}
           /\ UNCHANGED <<sc, scores, workVars, hello, choiceVars>>
-----------------------------------------------------------------------------
(* The Worker *)

\* Worker::start(): a failing open is logged and otherwise ignored.
Start == /\ at = "next" /\ Len(scores) < Len(candidates)
         /\ at' = "attempt" /\ sc' = Zero
         /\ \/ divert' = "open" /\ running_' = TRUE /\ worker' = "guard"
            \/ UNCHANGED workVars
         /\ UNCHANGED <<scores, hello, choiceVars>>

Guard == /\ worker = "guard"
         /\ worker' = IF running_ THEN "recv" ELSE "done"
         /\ UNCHANGED <<at, sc, scores, divert, running_, hello, choiceVars>>

\* What the strategy declines goes out as it is.
Apply == /\ worker = "recv" /\ hello = "queued" /\ worker' = "guard"
         /\ hello' = "out"
         /\ UNCHANGED <<at, sc, scores, divert, running_, choiceVars>>

RecvFails == /\ worker = "recv" /\ divert = "shut" /\ hello # "queued"
             /\ worker' = IF running_ THEN "guard" ELSE "done"
             /\ UNCHANGED <<at, sc, scores, divert, running_, hello, choiceVars>>
-----------------------------------------------------------------------------
(* test_connection() *)

\* A hello still queued when its attempt is over goes out unnoticed.
Record(ok, ms) ==
    /\ at' = "attempted" /\ hello' = "none"
    /\ sc' = [attempts  |-> sc.attempts + 1,
              successes |-> sc.successes + (IF ok THEN 1 ELSE 0),
              total     |-> sc.total + (IF ok THEN ms ELSE 0)]
    /\ UNCHANGED <<scores, workVars, choiceVars>>

\* Name resolution, the socket, connect or send fails, or connect times out.
NoConnection == at = "attempt" /\ Record(FALSE, 0)

\* The hello is sent; the handle catches it if it goes to the filter's address.
Send == /\ at = "attempt" /\ at' = "response"
        /\ \/ divert = "open" /\ hello' = "queued"
           \/ hello' = "out"
        /\ UNCHANGED <<sc, scores, workVars, choiceVars>>

\* select times out, recv fails, or the first byte is not 0x16.
NoServerHello == at = "response" /\ Record(FALSE, 0)
ServerHello == /\ at = "response" /\ hello = "out"
               /\ \E ms \in Latency : Record(TRUE, ms)

Again == /\ at = "attempted"
         /\ at' = IF sc.attempts < Attempts THEN "attempt" ELSE "stop"
         /\ UNCHANGED <<sc, scores, workVars, hello, choiceVars>>
-----------------------------------------------------------------------------
(* Worker::stop() and the choice *)

StopNot == /\ at = "stop" /\ at' = "join" /\ running_' = FALSE      \* mutant
           /\ UNCHANGED <<divert, sc, scores, worker, hello, choiceVars>>
Stop == /\ at = "stop" /\ at' = "join" /\ running_' = FALSE
        /\ divert' = IF divert = "open" THEN "shut" ELSE divert
        /\ UNCHANGED <<sc, scores, worker, hello, choiceVars>>

Scored == [name |-> current, attempts |-> sc.attempts, successes |-> sc.successes,
           total |-> sc.total]

\* Join, close, and the score joins the others.
Join == /\ at = "join" /\ at' = "next" /\ worker \in {"none", "done"}
        /\ divert' = "none" /\ worker' = "none"
        /\ scores' = Append(scores, Scored)
        /\ UNCHANGED <<sc, running_, hello, choiceVars>>

\* Higher success rate, then lower average latency.
BetterRate(s, b) ==                                                 \* mutant
    s.successes * b.attempts > b.successes * s.attempts
Better(s, b) ==
    \/ s.successes * b.attempts > b.successes * s.attempts
    \/ /\ s.successes * b.attempts = b.successes * s.attempts
       /\ s.total * b.successes < b.total * s.successes
\* The loop over the scores, one of them a step.
Choose == /\ at = "choose" /\ seen < Len(scores) /\ seen' = seen + 1
          /\ LET s == scores[seen + 1]
             IN  best' = IF s.successes > 0 /\ (best = None \/ Better(s, best))
                         THEN s ELSE best
          /\ UNCHANGED <<at, sc, scores, workVars, hello>>

Finish == /\ \/ at = "next" /\ Len(scores) = Len(candidates) /\ at' = "choose"
             \/ at = "choose" /\ seen = Len(scores) /\ at' = "done"
          /\ UNCHANGED <<sc, scores, workVars, hello, choiceVars>>
-----------------------------------------------------------------------------
Init == /\ at = "resolve" /\ sc = Zero /\ scores = <<>>
        /\ divert = "none" /\ running_ = FALSE /\ worker = "none"
        /\ hello = "none" /\ best = None /\ seen = 0

tuner == \/ Resolve \/ Start \/ NoConnection \/ Send \/ NoServerHello \/ ServerHello
         \/ Again \/ Stop \/ Join \/ Choose \/ Finish
workerStep == Guard \/ Apply \/ RecvFails

Next == tuner \/ workerStep

Spec == Init /\ [][Next]_vars
-----------------------------------------------------------------------------
\* The loop over the scores finds a maximum of the order of the comment at
\* auto_tune.cpp:356, and finds one exactly if a strategy had a success.
BestIsBest ==
    at = "done" =>
        /\ (best = None) <=> \A k \in DOMAIN scores : scores[k].successes = 0
        /\ best # None => \A k \in DOMAIN scores :
              /\ scores[k].successes <= best.successes
              /\ scores[k].successes = best.successes =>
                     scores[k].total >= best.total
=============================================================================
