------------------------------- MODULE DnsNat -------------------------------
(***************************************************************************)
(* The address translation of src/dns_redirect.cpp: one worker takes the   *)
(* UDP port 53 packets of both directions from its own WinDivert handle,   *)
(* sends every query to the upstream resolver and puts the address the     *)
(* client had asked back into the answer.  Around it, external: a client   *)
(* that may use a (port, query id) pair for several queries (a retry, or   *)
(* the same query to a second resolver), resolvers, and a network that     *)
(* delays, reorders, duplicates and loses.                                 *)
(*                                                                         *)
(* A packet has the key (client port, query id), or NoKey when it has no   *)
(* DNS header, and the peer's address: where a query goes, where an answer *)
(* says it is from.  Entry ages are as in FlowTable.  The map's iteration  *)
(* order is unspecified, so the entries a sweep's budget reaches are any   *)
(* set of that size.                                                       *)
(*                                                                         *)
(* A definition marked "mutant" is a faulty variant of the one after it;   *)
(* nothing uses it but the mutation runs listed in PROJECT.json.           *)
(*                                                                         *)
(* Bounds: MaxAsks queries, MaxDups duplicated answers, MaxLosses packets  *)
(* lost in the network or by a failing send.                               *)
(***************************************************************************)
EXTENDS Naturals, Sequences, FiniteSets

CONSTANTS Key, NoKey, Resolver, upstream_, kNatTtl, Budget,
          MayStop, MaxAsks, MaxDups, MaxLosses

ASSUME DnsNatAssumption ==
    /\ IsFiniteSet(Key) /\ NoKey \notin Key
    /\ upstream_ \in Resolver
    /\ kNatTtl \in Nat /\ Budget \in Nat /\ MayStop \in BOOLEAN
    /\ MaxAsks \in Nat /\ MaxDups \in Nat /\ MaxLosses \in Nat

VARIABLES
    on,             \* the handle is open and the worker runs
    queue,          \* packets the driver captured
    nat_,           \* original destination and age by key
    queries_, responses_,
    net,            \* packets under way outside the host
    asked,          \* per key: the resolvers the client has asked
    inbox,          \* per key: the answers the client was given
    asks, dups, losses                                      \* bounded choices

boundVars == <<asks, dups, losses>>
vars == <<on, queue, nat_, queries_, responses_, net, asked, inbox, boundVars>>

Packet  == [type : {"query", "answer"}, key : Key \cup {NoKey}, peer : Resolver]
NoEntry == [dst |-> "none", age |-> kNatTtl + 2]
NatEntry == [dst : Resolver, age : 0 .. kNatTtl + 1]
present == {k \in Key : nat_[k] # NoEntry}

Query(k, r)  == [type |-> "query",  key |-> k, peer |-> r]
Answer(k, r) == [type |-> "answer", key |-> k, peer |-> r]

\* The answers a client sees carry a source; translated tells who put it there.
Delivered == [src : Resolver, translated : BOOLEAN]
GiveKnown(k, r, t) == inbox' = IF t THEN [inbox EXCEPT ![k] =           \* mutant
                           @ \cup {[src |-> r, translated |-> t]}] ELSE inbox
Give(k, r, t) == inbox' = [inbox EXCEPT ![k] = @ \cup {[src |-> r, translated |-> t]}]
-----------------------------------------------------------------------------
(* The client, the resolvers and the network *)

Ask(k, r) == /\ asks < MaxAsks /\ asks' = asks + 1
             /\ asked' = IF k \in Key THEN [asked EXCEPT ![k] = @ \cup {r}] ELSE asked
             /\ IF on THEN queue' = Append(queue, Query(k, r)) /\ UNCHANGED net
                      ELSE net' = net \cup {Query(k, r)} /\ UNCHANGED queue
             /\ UNCHANGED <<on, nat_, queries_, responses_, inbox, dups, losses>>

Resolve(p) == /\ p \in net /\ p.type = "query" /\ p.key # NoKey
              /\ net' = (net \ {p}) \cup {Answer(p.key, p.peer)}
              /\ UNCHANGED <<on, queue, nat_, queries_, responses_, asked, inbox,
                             boundVars>>

\* An answer reaches the host: captured while the redirector is on.
Arrive(p) == /\ p \in net /\ p.type = "answer"
             /\ \/ net' = net \ {p} /\ UNCHANGED dups
                \/ UNCHANGED net /\ dups < MaxDups /\ dups' = dups + 1
             /\ IF on THEN queue' = Append(queue, p) /\ UNCHANGED inbox
                      ELSE Give(p.key, p.peer, FALSE) /\ UNCHANGED queue
             /\ UNCHANGED <<on, nat_, queries_, responses_, asked, asks, losses>>

Lose(p) == /\ p \in net /\ losses < MaxLosses /\ losses' = losses + 1
           /\ net' = net \ {p}
           /\ UNCHANGED <<on, queue, nat_, queries_, responses_, asked, inbox,
                          asks, dups>>

Tick == /\ nat_' = [k \in Key |-> IF k \in present /\ nat_[k].age <= kNatTtl
                                  THEN [nat_[k] EXCEPT !.age = @ + 1] ELSE nat_[k]]
        /\ UNCHANGED <<on, queue, queries_, responses_, net, asked, inbox, boundVars>>
-----------------------------------------------------------------------------
(* The worker *)

\* divert_.send of a packet that leaves for the network, its result ignored.
SendOut(p) == \/ net' = net \cup {p} /\ UNCHANGED losses
              \/ UNCHANGED net /\ losses < MaxLosses /\ losses' = losses + 1

\* divert_.send of an answer towards the client, its result ignored.
SendIn(k, r, t) == \/ Give(k, r, t) /\ UNCHANGED losses
                   \/ UNCHANGED inbox /\ losses < MaxLosses /\ losses' = losses + 1

\* The entries the sweep erases: those expired among the ones it looks at.
Looked == {S \in SUBSET present :
             \/ S = present /\ Cardinality(present) <= Budget
             \/ Cardinality(S) = Budget}
expired(k) == nat_[k].age > kNatTtl

Redirects(p) == p.type = "query" /\ p.key \in Key

handle_outbound(p) ==
    /\ Redirects(p)
    /\ \E S \in Looked :
         nat_' = [k \in Key |-> IF k = p.key THEN [dst |-> p.peer, age |-> 0]
                                ELSE IF k \in S /\ expired(k) THEN NoEntry
                                ELSE nat_[k]]
    /\ queries_' = queries_ + 1
    /\ SendOut(Query(p.key, upstream_))
    /\ UNCHANGED <<responses_, inbox>>

\* The answers that are translated: from the upstream, with an entry.
Translates(p) == p.type = "answer" /\ p.peer = upstream_ /\ p.key \in present

\* What is left of the table once the answer to k went through.
Kept(k)     == nat_                                                     \* mutant
Consumed(k) == [nat_ EXCEPT ![k] = NoEntry]

\* Which address the answer shows the client.
Unrestored(k)   == upstream_                                            \* mutant
ErasedDst(k)    == Consumed(k)[k].dst                                   \* mutant
original_dst(k) == nat_[k].dst

handle_inbound(p) ==
    /\ Translates(p)
    /\ nat_' = Consumed(p.key)
    /\ responses_' = responses_ + 1
    /\ SendIn(p.key, original_dst(p.key), TRUE)
    /\ UNCHANGED <<queries_, net>>

\* Not DNS, not from the upstream, or no entry: sent on as it is.
PassThrough(p) ==
    /\ ~Redirects(p) /\ ~Translates(p)
    /\ \/ p.type = "query" /\ SendOut(p) /\ UNCHANGED inbox
       \/ p.type = "answer" /\ SendIn(p.key, p.peer, FALSE) /\ UNCHANGED net
    /\ UNCHANGED <<nat_, queries_, responses_>>

worker == /\ on /\ queue # <<>>
          /\ LET p == Head(queue)
             IN  handle_outbound(p) \/ handle_inbound(p) \/ PassThrough(p)
          /\ queue' = Tail(queue)
          /\ UNCHANGED <<on, asked, asks, dups>>

\* stop(): what is still queued is lost with the handle, the table is cleared.
stop == /\ MayStop /\ on /\ on' = FALSE
        /\ queue' = <<>>
        /\ nat_' = [k \in Key |-> NoEntry]
        /\ UNCHANGED <<queries_, responses_, net, asked, inbox, boundVars>>
-----------------------------------------------------------------------------
Init == /\ on = TRUE /\ queue = <<>> /\ net = {}
        /\ nat_ = [k \in Key |-> NoEntry] /\ queries_ = 0 /\ responses_ = 0
        /\ asked = [k \in Key |-> {}] /\ inbox = [k \in Key |-> {}]
        /\ asks = 0 /\ dups = 0 /\ losses = 0

Next == \/ \E k \in Key \cup {NoKey}, r \in Resolver : Ask(k, r)
        \/ \E p \in Packet : Resolve(p) \/ Arrive(p) \/ Lose(p)
        \/ Tick \/ worker \/ stop

Spec == Init /\ [][Next]_vars

\* The worker runs, resolvers answer and answers arrive; nobody has to ask or to
\* stop, and nothing has to get lost.
Fairness == /\ WF_vars(worker)
            /\ \A p \in Packet : WF_vars(Resolve(p)) /\ WF_vars(Arrive(p))
FairSpec == Spec /\ Fairness
-----------------------------------------------------------------------------
\* Type invariant.
TypeOK ==
    /\ on \in BOOLEAN /\ queue \in Seq(Packet) /\ net \subseteq Packet
    /\ nat_ \in [Key -> NatEntry \cup {NoEntry}]
    /\ queries_ \in Nat /\ responses_ \in Nat
    /\ asked \in [Key -> SUBSET Resolver] /\ inbox \in [Key -> SUBSET Delivered]
    /\ asks \in 0 .. MaxAsks /\ dups \in 0 .. MaxDups /\ losses \in 0 .. MaxLosses

\* A translated answer names a resolver the client did ask under that port and id:
\* whatever is reused, duplicated or late, no query's address leaks into the
\* answer to another (dns_redirect.cpp:84-149).
TranslatedWasAsked ==
    \A k \in Key : \A d \in inbox[k] : d.translated => d.src \in asked[k]

\* Each redirected query pays for at most one translated answer: a duplicate of
\* an answer finds no entry (dns_redirect.cpp:131-137).
AnswersArePaidFor == responses_ + Cardinality(present) <= queries_

\* The redirector keeps the promise of RedirectService: while it runs no query leaves
\* for the resolver it was meant for, every translated answer uses up one redirected
\* query of its own port and id and names its resolver, and nothing is owed after stop()
\* (dns_redirect.hpp:3-7; dns_redirect.cpp:40-149).
Direct == {<<p.key, p.peer>> : p \in {p \in net : /\ p.type = "query" /\ p.key \in Key
                                                  /\ p.peer # upstream_}}
Owed   == {<<k, nat_[k].dst>> : k \in present}
RS == INSTANCE RedirectService WITH direct <- Direct, owed <- Owed
ImplementsRedirectService == RS!Spec

\* Every key that was used for a query is given an answer, translated or not, unless
\* something got lost or the redirector was stopped: whatever was in the table before,
\* no answer is swallowed (dns_redirect.cpp:77-80, 118-149).
EventuallyAnswered ==
    \A k \in Key : (asked[k] # {}) ~> (inbox[k] # {} \/ losses > 0 \/ ~on)
=============================================================================
