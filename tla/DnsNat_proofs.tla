--------------------------- MODULE DnsNat_proofs ---------------------------
(***************************************************************************)
(* What holds of DnsNat for every set of clients' keys and resolvers, and  *)
(* for any number of queries, duplicates and losses: its types, that a     *)
(* translated answer names a resolver that was asked, and that queries pay *)
(* for translated answers.                                                 *)
(***************************************************************************)
EXTENDS DnsNat, FiniteSetTheorems, TLAPS

-----------------------------------------------------------------------------
(* Lemmas on the table and on the packets *)

\* An entry is not the absence of one.
LEMMA EntryIsPresent ==
    ASSUME DnsNatAssumption
    PROVE  NoEntry \notin NatEntry
BY DEF NoEntry, NatEntry, DnsNatAssumption

\* The destination of a present entry is a resolver.
LEMMA PresentEntry ==
    ASSUME TypeOK, NEW k \in present
    PROVE  k \in Key /\ nat_[k] \in NatEntry /\ nat_[k].dst \in Resolver
BY DEF TypeOK, present, NatEntry

LEMMA PacketFields ==
    ASSUME NEW p \in Packet
    PROVE  /\ p.type \in {"query", "answer"} /\ p.key \in Key \cup {NoKey}
           /\ p.peer \in Resolver
BY DEF Packet

LEMMA HeadIsPacket ==
    ASSUME TypeOK, queue # <<>>
    PROVE  Head(queue) \in Packet /\ Tail(queue) \in Seq(Packet)
BY DEF TypeOK

\* Ageing keeps the entries, their types and their destinations.
LEMMA Ageing ==
    ASSUME DnsNatAssumption, TypeOK, Tick
    PROVE  /\ nat_' \in [Key -> NatEntry \cup {NoEntry}]
           /\ present' = present
           /\ \A k \in present : nat_'[k].dst = nat_[k].dst
<1>1. /\ nat_ \in [Key -> NatEntry \cup {NoEntry}] /\ kNatTtl \in Nat
      BY DEF TypeOK, DnsNatAssumption
<1>2. nat_' = [k \in Key |-> IF k \in present /\ nat_[k].age <= kNatTtl
                             THEN [nat_[k] EXCEPT !.age = @ + 1] ELSE nat_[k]]
      BY DEF Tick
<1>3. ASSUME NEW k \in Key
      PROVE  /\ nat_'[k] \in NatEntry \cup {NoEntry}
             /\ nat_'[k] = NoEntry <=> nat_[k] = NoEntry
             /\ k \in present => nat_'[k].dst = nat_[k].dst
  <2>1. CASE k \in present /\ nat_[k].age <= kNatTtl
    <3>1. nat_[k] \in NatEntry
          BY <2>1, PresentEntry
    <3>2. nat_'[k] = [nat_[k] EXCEPT !.age = @ + 1]
          BY <1>2, <2>1
    <3>3. nat_[k].age + 1 \in 0 .. kNatTtl + 1
          BY <1>1, <2>1, <3>1 DEF NatEntry
    <3>4. nat_'[k] \in NatEntry /\ nat_'[k].dst = nat_[k].dst
          BY <3>1, <3>2, <3>3 DEF NatEntry
    <3> QED BY <2>1, <3>1, <3>4, EntryIsPresent
  <2>2. CASE ~(k \in present /\ nat_[k].age <= kNatTtl)
        BY <1>1, <1>2, <2>2
  <2> QED BY <2>1, <2>2
<1>4. present' = present
      BY <1>3 DEF present
<1>5. nat_' \in [Key -> NatEntry \cup {NoEntry}]
      BY <1>2, <1>3
<1>6. \A k \in present : nat_'[k].dst = nat_[k].dst
      BY <1>3 DEF present
<1> QED BY <1>4, <1>5, <1>6

\* What handle_outbound leaves in the table.
LEMMA Outbound ==
    ASSUME DnsNatAssumption, TypeOK, NEW p \in Packet, handle_outbound(p)
    PROVE  /\ p.key \in Key /\ p.type = "query"
           /\ nat_' \in [Key -> NatEntry \cup {NoEntry}]
           /\ present' \subseteq present \cup {p.key}
           /\ nat_'[p.key].dst = p.peer
           /\ \A k \in present' : k # p.key => nat_'[k] = nat_[k]
<1>1. p.key \in Key /\ p.type = "query" /\ p.peer \in Resolver
      BY PacketFields DEF handle_outbound, Redirects
<1>2. PICK S \in Looked :
        nat_' = [k \in Key |-> IF k = p.key THEN [dst |-> p.peer, age |-> 0]
                               ELSE IF k \in S /\ expired(k) THEN NoEntry
                               ELSE nat_[k]]
      BY DEF handle_outbound
<1>3. [dst |-> p.peer, age |-> 0] \in NatEntry
      BY <1>1 DEF NatEntry, DnsNatAssumption
<1>4. nat_ \in [Key -> NatEntry \cup {NoEntry}]
      BY DEF TypeOK
<1>5. nat_' \in [Key -> NatEntry \cup {NoEntry}]
      BY <1>2, <1>3, <1>4
<1>6. nat_'[p.key].dst = p.peer
      BY <1>1, <1>2
<1>7. \A k \in present' : k # p.key => nat_'[k] = nat_[k] /\ k \in present
      BY <1>2 DEF present
<1> QED BY <1>1, <1>5, <1>6, <1>7

\* What handle_inbound leaves in the table.
LEMMA Inbound ==
    ASSUME TypeOK, NEW p \in Packet, handle_inbound(p)
    PROVE  /\ p.key \in present
           /\ nat_' \in [Key -> NatEntry \cup {NoEntry}]
           /\ present' = present \ {p.key}
           /\ \A k \in present' : nat_'[k] = nat_[k]
           /\ original_dst(p.key) = nat_[p.key].dst
<1>1. p.key \in present /\ nat_' = [nat_ EXCEPT ![p.key] = NoEntry]
      BY DEF handle_inbound, Translates, Consumed
<1>2. nat_ \in [Key -> NatEntry \cup {NoEntry}]
      BY DEF TypeOK
<1>3. present' = present \ {p.key}
      BY <1>1, <1>2 DEF present
<1>4. nat_' \in [Key -> NatEntry \cup {NoEntry}] /\ \A k \in present' : nat_'[k] = nat_[k]
      BY <1>1, <1>2, <1>3 DEF present
<1> QED BY <1>1, <1>3, <1>4 DEF original_dst

\* What the client is given is a delivery, and is the only change of the inbox.
LEMMA GiveType ==
    ASSUME TypeOK, NEW k \in Key, NEW r \in Resolver, NEW b \in BOOLEAN, Give(k, r, b)
    PROVE  /\ inbox' \in [Key -> SUBSET Delivered]
           /\ \A j \in Key : \A d \in inbox'[j] :
                d \in inbox[j] \/ (j = k /\ d = [src |-> r, translated |-> b])
<1>1. [src |-> r, translated |-> b] \in Delivered
      BY DEF Delivered
<1>2. inbox \in [Key -> SUBSET Delivered]
      BY DEF TypeOK
<1>3. inbox' = [inbox EXCEPT ![k] = inbox[k] \cup {[src |-> r, translated |-> b]}]
      BY DEF Give
<1> HIDE DEF Give
<1> QED BY <1>1, <1>2, <1>3

-----------------------------------------------------------------------------
\* The initial state is typed.
LEMMA InitTyped ==
    ASSUME DnsNatAssumption, Init
    PROVE  TypeOK
BY DEF Init, TypeOK, DnsNatAssumption

\* A captured packet of type p joins the queue.
LEMMA QueueGrows ==
    ASSUME TypeOK, NEW p \in Packet
    PROVE  Append(queue, p) \in Seq(Packet)
BY DEF TypeOK

\* Every step keeps the types.
LEMMA NextTyped ==
    ASSUME DnsNatAssumption, TypeOK, [Next]_vars
    PROVE  TypeOK'
<1> USE DEF boundVars
<1>1. ASSUME NEW k \in Key \cup {NoKey}, NEW r \in Resolver, Ask(k, r)
      PROVE  TypeOK'
  <2>1. Query(k, r) \in Packet
        BY DEF Query, Packet
  <2>2. queue' \in Seq(Packet) /\ net' \subseteq Packet
        BY <1>1, <2>1, QueueGrows DEF Ask, TypeOK
  <2>3. asked' \in [Key -> SUBSET Resolver]
        BY <1>1 DEF Ask, TypeOK
  <2>4. asks' \in 0 .. MaxAsks
        BY <1>1 DEF Ask, TypeOK, DnsNatAssumption
  <2> QED BY <1>1, <2>2, <2>3, <2>4 DEF Ask, TypeOK
<1>2. ASSUME NEW p \in Packet, Resolve(p)
      PROVE  TypeOK'
  <2>1. Answer(p.key, p.peer) \in Packet
        BY PacketFields DEF Answer, Packet
  <2> QED BY <1>2, <2>1 DEF Resolve, TypeOK
<1>3. ASSUME NEW p \in Packet, Arrive(p)
      PROVE  TypeOK'
  <2>1. queue' \in Seq(Packet) /\ inbox' \in [Key -> SUBSET Delivered]
    <3>1. CASE on
          BY <1>3, <3>1, QueueGrows DEF Arrive, TypeOK
    <3>2. CASE ~on
      <4>1. Give(p.key, p.peer, FALSE) /\ queue' = queue
            BY <1>3, <3>2 DEF Arrive
      <4>2. [src |-> p.peer, translated |-> FALSE] \in Delivered
            BY PacketFields DEF Delivered
      <4> QED BY <4>1, <4>2 DEF Give, TypeOK
    <3> QED BY <3>1, <3>2
  <2>2. net' \subseteq Packet /\ dups' \in 0 .. MaxDups
        BY <1>3 DEF Arrive, TypeOK, DnsNatAssumption
  <2> QED BY <1>3, <2>1, <2>2 DEF Arrive, TypeOK
<1>4. ASSUME NEW p \in Packet, Lose(p)
      PROVE  TypeOK'
      BY <1>4 DEF Lose, TypeOK, DnsNatAssumption
<1>5. CASE Tick
      BY <1>5, Ageing DEF Tick, TypeOK
<1>6. CASE worker
  <2> DEFINE p == Head(queue)
  <2>1. /\ queue # <<>> /\ p \in Packet /\ queue' \in Seq(Packet)
        /\ UNCHANGED <<on, asked, asks, dups>>
        BY <1>6, HeadIsPacket DEF worker
  <2> HIDE DEF p
  <2>2. CASE handle_outbound(p)
    <3>1. Query(p.key, upstream_) \in Packet
          BY <2>1, PacketFields DEF Query, Packet, DnsNatAssumption
    <3>2. net' \subseteq Packet /\ losses' \in 0 .. MaxLosses
          BY <2>2, <3>1 DEF handle_outbound, SendOut, TypeOK, DnsNatAssumption
    <3>3. nat_' \in [Key -> NatEntry \cup {NoEntry}]
          BY <2>1, <2>2, Outbound
    <3>4. queries_' \in Nat /\ UNCHANGED <<responses_, inbox>>
          BY <2>2 DEF handle_outbound, TypeOK
    <3> QED BY <2>1, <3>2, <3>3, <3>4 DEF TypeOK
  <2>3. CASE handle_inbound(p)
    <3>1. /\ p.key \in present /\ nat_' \in [Key -> NatEntry \cup {NoEntry}]
          /\ original_dst(p.key) \in Resolver /\ p.key \in Key
          BY <2>1, <2>3, Inbound, PresentEntry
    <3>2. inbox' \in [Key -> SUBSET Delivered] /\ losses' \in 0 .. MaxLosses
      <4>1. CASE Give(p.key, original_dst(p.key), TRUE) /\ UNCHANGED losses
            BY <3>1, <4>1, GiveType DEF TypeOK
      <4>2. CASE UNCHANGED inbox /\ losses < MaxLosses /\ losses' = losses + 1
            BY <4>2 DEF TypeOK, DnsNatAssumption
      <4> QED BY <2>3, <4>1, <4>2 DEF handle_inbound, SendIn
    <3>3. responses_' \in Nat /\ UNCHANGED <<queries_, net>>
          BY <2>3 DEF handle_inbound, TypeOK
    <3> QED BY <2>1, <3>1, <3>2, <3>3 DEF TypeOK
  <2>4. CASE PassThrough(p)
    <3>1. UNCHANGED <<nat_, queries_, responses_>>
          BY <2>4 DEF PassThrough
    <3>2. CASE p.type = "query" /\ SendOut(p) /\ UNCHANGED inbox
      <4>1. net' \subseteq Packet /\ losses' \in 0 .. MaxLosses
            BY <2>1, <3>2 DEF SendOut, TypeOK, DnsNatAssumption
      <4> QED BY <2>1, <3>1, <3>2, <4>1 DEF TypeOK
    <3>3. CASE p.type = "answer" /\ SendIn(p.key, p.peer, FALSE) /\ UNCHANGED net
      <4>1. [src |-> p.peer, translated |-> FALSE] \in Delivered
            BY <2>1, PacketFields DEF Delivered
      <4>2. inbox' = inbox \/ Give(p.key, p.peer, FALSE)
            BY <3>3 DEF SendIn
      <4>3. inbox' \in [Key -> SUBSET Delivered]
        <5> DEFINE d == [src |-> p.peer, translated |-> FALSE]
        <5>1. /\ d \in Delivered
              /\ \/ inbox' = inbox
                 \/ inbox' = [inbox EXCEPT ![p.key] = inbox[p.key] \cup {d}]
              BY <4>1, <4>2 DEF Give
        <5> HIDE DEF d
        <5>2. inbox \in [Key -> SUBSET Delivered]
              BY DEF TypeOK
        <5> QED BY <5>1, <5>2
      <4>4. losses' \in 0 .. MaxLosses
            BY <3>3 DEF SendIn, Give, TypeOK, DnsNatAssumption
      <4> QED BY <2>1, <3>1, <3>3, <4>3, <4>4 DEF TypeOK
    <3> QED BY <2>4, <3>2, <3>3 DEF PassThrough
  <2> QED
    <3>1. handle_outbound(p) \/ handle_inbound(p) \/ PassThrough(p)
          BY <1>6 DEF worker, p
    <3> QED BY <3>1, <2>2, <2>3, <2>4
<1>7. CASE stop
  <2>1. on' \in BOOLEAN /\ queue' = <<>> /\ nat_' = [k \in Key |-> NoEntry]
        BY <1>7 DEF stop
  <2>2. UNCHANGED <<queries_, responses_, net, asked, inbox, asks, dups, losses>>
        BY <1>7 DEF stop
  <2> QED BY <2>1, <2>2 DEF TypeOK
<1>8. CASE UNCHANGED vars
      BY <1>8 DEF vars, TypeOK
<1> QED BY <1>1, <1>2, <1>3, <1>4, <1>5, <1>6, <1>7, <1>8 DEF Next

\* The types of the translator's variables, for every number of clients and queries:
\* above all, what the client is given always has a resolver's address
\* (dns_redirect.cpp:84-149).
THEOREM TypeCorrect == Spec => []TypeOK
<1>1. Init => TypeOK
      BY InitTyped, DnsNatAssumption
<1>2. TypeOK /\ [Next]_vars => TypeOK'
      BY NextTyped, DnsNatAssumption
<1> QED BY <1>1, <1>2, PTL DEF Spec

-----------------------------------------------------------------------------
(* No query's address leaks into the answer to another *)

\* The entries of the table, and the queries the worker has still to enter into it,
\* name resolvers that were asked under their keys: what an answer is given comes
\* from there.
QueuedWasAsked  == \A j \in DOMAIN queue :
                     queue[j].type = "query" /\ queue[j].key \in Key
                        => queue[j].peer \in asked[queue[j].key]
EnteredWasAsked == \A k \in present : nat_[k].dst \in asked[k]
AskedInv == TypeOK /\ QueuedWasAsked /\ EnteredWasAsked /\ TranslatedWasAsked

\* Asking only adds: what was asked stays asked.
LEMMA AskedGrows ==
    ASSUME TypeOK, [Next]_vars
    PROVE  \A k \in Key : asked[k] \subseteq asked'[k]
<1>1. ASSUME NEW k \in Key \cup {NoKey}, NEW r \in Resolver, Ask(k, r)
      PROVE  \A j \in Key : asked[j] \subseteq asked'[j]
      BY <1>1 DEF Ask, TypeOK
<1>2. ASSUME NEW p \in Packet, Resolve(p) \/ Arrive(p) \/ Lose(p)
      PROVE  asked' = asked
      BY <1>2 DEF Resolve, Arrive, Lose
<1>3. Tick \/ worker \/ stop \/ UNCHANGED vars => asked' = asked
      BY DEF Tick, worker, stop, vars
<1> QED BY <1>1, <1>2, <1>3 DEF Next

\* Every step keeps the three parts.
LEMMA NextAsked ==
    ASSUME DnsNatAssumption, AskedInv, [Next]_vars
    PROVE  AskedInv'
<1>1. /\ TypeOK /\ QueuedWasAsked /\ EnteredWasAsked /\ TranslatedWasAsked /\ TypeOK'
      /\ \A k \in Key : asked[k] \subseteq asked'[k]
      BY NextTyped, AskedGrows DEF AskedInv
<1>2. ASSUME \/ queue' = queue \/ queue' = <<>>
             \/ queue # <<>> /\ queue' = Tail(queue)
      PROVE  QueuedWasAsked'
  <2>1. queue \in Seq(Packet)
        BY <1>1 DEF TypeOK
  <2>2. \A j \in DOMAIN queue' : \E i \in DOMAIN queue : queue'[j] = queue[i]
    <3>1. CASE queue' = queue
          BY <3>1
    <3>2. CASE queue' = <<>>
          BY <3>2
    <3>3. CASE queue # <<>> /\ queue' = Tail(queue)
          BY <2>1, <3>3
    <3> QED BY <1>2, <3>1, <3>2, <3>3
  <2>3. ASSUME NEW j \in DOMAIN queue', queue'[j].type = "query", queue'[j].key \in Key
        PROVE  queue'[j].peer \in asked'[queue'[j].key]
    <3>1. PICK i \in DOMAIN queue : queue'[j] = queue[i]
          BY <2>2
    <3>2. queue[i].peer \in asked[queue[i].key]
          BY <1>1, <2>3, <3>1 DEF QueuedWasAsked
    <3> QED BY <1>1, <2>3, <3>1, <3>2
  <2> QED BY <2>3 DEF QueuedWasAsked
<1>3. ASSUME NEW q \in Packet, queue' = Append(queue, q),
             q.type = "query" /\ q.key \in Key => q.peer \in asked'[q.key]
      PROVE  QueuedWasAsked'
  <2>1. queue \in Seq(Packet)
        BY <1>1 DEF TypeOK
  <2>2. ASSUME NEW j \in DOMAIN queue', queue'[j].type = "query", queue'[j].key \in Key
        PROVE  queue'[j].peer \in asked'[queue'[j].key]
    <3>1. CASE j \in DOMAIN queue
      <4>1. queue'[j] = queue[j]
            BY <1>3, <2>1, <3>1
      <4>2. queue[j].peer \in asked[queue[j].key]
            BY <1>1, <2>2, <3>1, <4>1 DEF QueuedWasAsked
      <4> QED BY <1>1, <2>2, <4>1, <4>2
    <3>2. CASE j \notin DOMAIN queue
      <4>1. queue'[j] = q
            BY <1>3, <2>1, <2>2, <3>2
      <4> QED BY <1>3, <2>2, <4>1
    <3> QED BY <3>1, <3>2
  <2> QED BY <2>2 DEF QueuedWasAsked
<1>4. UNCHANGED nat_ => EnteredWasAsked'
      BY <1>1 DEF EnteredWasAsked, present
<1>5. UNCHANGED inbox => TranslatedWasAsked'
      BY <1>1 DEF TranslatedWasAsked
<1>6. ASSUME NEW k \in Key \cup {NoKey}, NEW r \in Resolver, Give(k, r, FALSE)
      PROVE  TranslatedWasAsked'
  <2>1. \A j \in Key : \A d \in inbox'[j] : d \in inbox[j] \/ ~d.translated
        BY <1>1, <1>6 DEF Give, TypeOK
  <2> QED BY <1>1, <2>1 DEF TranslatedWasAsked
<1>7. ASSUME NEW k \in Key \cup {NoKey}, NEW r \in Resolver, Ask(k, r)
      PROVE  AskedInv'
  <2>1. UNCHANGED <<nat_, inbox>>
        BY <1>7 DEF Ask
  <2>2. CASE UNCHANGED queue
    <3>1. QueuedWasAsked'
          BY <1>2, <2>2
    <3> QED BY <1>1, <1>4, <1>5, <2>1, <3>1 DEF AskedInv
  <2>3. CASE queue' = Append(queue, Query(k, r))
    <3>1. Query(k, r) \in Packet
          BY DEF Query, Packet
    <3>2. k \in Key => r \in asked'[k]
          BY <1>1, <1>7 DEF Ask, TypeOK
    <3>3. QueuedWasAsked'
          BY <1>3, <2>3, <3>1, <3>2 DEF Query
    <3> QED BY <1>1, <1>4, <1>5, <2>1, <3>3 DEF AskedInv
  <2> QED BY <1>7, <2>2, <2>3 DEF Ask
<1>8. ASSUME NEW p \in Packet, Resolve(p) \/ Lose(p)
      PROVE  AskedInv'
  <2>1. UNCHANGED <<queue, nat_, inbox>>
        BY <1>8 DEF Resolve, Lose
  <2>2. QueuedWasAsked'
        BY <1>2, <2>1
  <2> QED BY <1>1, <1>4, <1>5, <2>1, <2>2 DEF AskedInv
<1>9. ASSUME NEW p \in Packet, Arrive(p)
      PROVE  AskedInv'
  <2>1. UNCHANGED nat_ /\ p.type = "answer"
        BY <1>9 DEF Arrive
  <2>2. CASE on
    <3>1. queue' = Append(queue, p) /\ UNCHANGED inbox
          BY <1>9, <2>2 DEF Arrive
    <3>2. QueuedWasAsked'
          BY <1>3, <2>1, <3>1
    <3> QED BY <1>1, <1>4, <1>5, <2>1, <3>1, <3>2 DEF AskedInv
  <2>3. CASE ~on
    <3>1. Give(p.key, p.peer, FALSE) /\ UNCHANGED queue
          BY <1>9, <2>3 DEF Arrive
    <3>2. TranslatedWasAsked'
          BY <1>6, <3>1, PacketFields
    <3>3. QueuedWasAsked'
          BY <1>2, <3>1
    <3>4. EnteredWasAsked'
          BY <1>4, <2>1
    <3> QED BY <1>1, <3>2, <3>3, <3>4 DEF AskedInv
  <2> QED BY <2>2, <2>3
<1>10. CASE Tick
  <2>1. UNCHANGED <<queue, inbox, asked>>
        BY <1>10 DEF Tick
  <2>2. EnteredWasAsked'
        BY <1>1, <1>10, <2>1, Ageing DEF EnteredWasAsked
  <2>3. QueuedWasAsked'
        BY <1>2, <2>1
  <2> QED BY <1>1, <1>5, <2>1, <2>2, <2>3 DEF AskedInv
<1>11. CASE worker
  <2> DEFINE p == Head(queue)
  <2>1. /\ queue # <<>> /\ queue' = Tail(queue) /\ p \in Packet /\ UNCHANGED asked
        /\ handle_outbound(p) \/ handle_inbound(p) \/ PassThrough(p)
        BY <1>1, <1>11, HeadIsPacket DEF worker
  <2>2. QueuedWasAsked'
        BY <1>2, <2>1
  <2>3. p.type = "query" /\ p.key \in Key => p.peer \in asked[p.key]
    <3>1. 1 \in DOMAIN queue /\ p = queue[1]
          BY <1>1, <2>1 DEF TypeOK
    <3> HIDE DEF p
    <3> QED BY <1>1, <3>1 DEF QueuedWasAsked
  <2> HIDE DEF p
  <2>4. CASE handle_outbound(p)
    <3>1. EnteredWasAsked'
      <4>1. ASSUME NEW k \in present'
            PROVE  nat_'[k].dst \in asked[k]
        <5>1. CASE k = p.key
              BY <1>1, <2>1, <2>3, <2>4, <5>1, Outbound
        <5>2. CASE k # p.key
          <6>1. nat_'[k] = nat_[k] /\ k \in present
                BY <1>1, <2>1, <2>4, <4>1, <5>2, Outbound
          <6> QED BY <1>1, <6>1 DEF EnteredWasAsked
        <5> QED BY <5>1, <5>2
      <4> QED BY <2>1, <4>1 DEF EnteredWasAsked
    <3>2. UNCHANGED inbox
          BY <2>4 DEF handle_outbound
    <3> QED BY <1>1, <1>5, <2>2, <3>1, <3>2 DEF AskedInv
  <2>5. CASE handle_inbound(p)
    <3>1. /\ p.key \in present /\ p.key \in Key /\ original_dst(p.key) \in Resolver
          /\ original_dst(p.key) = nat_[p.key].dst
          /\ present' \subseteq present /\ \A k \in present' : nat_'[k] = nat_[k]
          BY <1>1, <2>1, <2>5, Inbound, PresentEntry
    <3>2. EnteredWasAsked'
          BY <1>1, <2>1, <3>1 DEF EnteredWasAsked
    <3>3. original_dst(p.key) \in asked[p.key]
          BY <1>1, <3>1 DEF EnteredWasAsked
    <3>4. TranslatedWasAsked'
      <4>1. CASE Give(p.key, original_dst(p.key), TRUE)
        <5>1. \A j \in Key : \A d \in inbox'[j] :
                d \in inbox[j] \/ (j = p.key /\ d.src = original_dst(p.key))
              BY <1>1, <3>1, <4>1 DEF Give, TypeOK
        <5> QED BY <1>1, <2>1, <3>3, <5>1 DEF TranslatedWasAsked
      <4>2. CASE UNCHANGED inbox
            BY <1>5, <4>2
      <4> QED BY <2>5, <4>1, <4>2 DEF handle_inbound, SendIn
    <3> QED BY <1>1, <2>2, <3>2, <3>4 DEF AskedInv
  <2>6. CASE PassThrough(p)
    <3>1. EnteredWasAsked'
          BY <1>4, <2>6 DEF PassThrough
    <3>2. TranslatedWasAsked'
      <4>1. UNCHANGED inbox \/ Give(p.key, p.peer, FALSE)
            BY <2>6 DEF PassThrough, SendIn
      <4> QED BY <1>5, <1>6, <2>1, <4>1, PacketFields
    <3> QED BY <1>1, <2>2, <3>1, <3>2 DEF AskedInv
  <2> QED BY <2>1, <2>4, <2>5, <2>6
<1>12. CASE stop
  <2>1. queue' = <<>> /\ UNCHANGED inbox /\ present' = {}
        BY <1>12 DEF stop, present
  <2>2. QueuedWasAsked'
        BY <1>2, <2>1
  <2> QED BY <1>1, <1>5, <2>1, <2>2 DEF AskedInv, EnteredWasAsked
<1>13. CASE UNCHANGED vars
  <2>1. UNCHANGED <<queue, nat_, inbox>>
        BY <1>13 DEF vars
  <2>2. QueuedWasAsked'
        BY <1>2, <2>1
  <2> QED BY <1>1, <1>4, <1>5, <2>1, <2>2 DEF AskedInv
<1> QED BY <1>7, <1>8, <1>9, <1>10, <1>11, <1>12, <1>13 DEF Next

LEMMA InitAsked == Init => AskedInv
<1> SUFFICES ASSUME Init PROVE AskedInv
    OBVIOUS
<1>1. TypeOK /\ queue = <<>> /\ present = {} /\ \A k \in Key : inbox[k] = {}
      BY InitTyped, DnsNatAssumption DEF Init, present
<1> QED BY <1>1 DEF AskedInv, QueuedWasAsked, EnteredWasAsked, TranslatedWasAsked

\* A translated answer names a resolver that was asked under its port and id, for any
\* number of clients, resolvers, reused ports, duplicates and losses, and for any time
\* to live and sweep budget (dns_redirect.cpp:84-149).
THEOREM AnswersNameTheAsked == Spec => []TranslatedWasAsked
<1>1. Init => AskedInv
      BY InitAsked
<1>2. AskedInv /\ [Next]_vars => AskedInv'
      BY NextAsked, DnsNatAssumption
<1>3. AskedInv => TranslatedWasAsked
      BY DEF AskedInv
<1> QED BY <1>1, <1>2, <1>3, PTL DEF Spec

-----------------------------------------------------------------------------
(* Each redirected query pays for at most one translated answer *)

PaidInv == TypeOK /\ AnswersArePaidFor

LEMMA PresentFinite ==
    ASSUME DnsNatAssumption
    PROVE  IsFiniteSet(present) /\ Cardinality(present) \in Nat
BY FS_Subset, FS_CardinalityType DEF DnsNatAssumption, present

\* Steps that enter nothing and answer nothing keep the account balanced.
LEMMA Unpaid ==
    ASSUME DnsNatAssumption, PaidInv, present' \subseteq present,
           UNCHANGED <<queries_, responses_>>
    PROVE  AnswersArePaidFor'
<1>1. IsFiniteSet(present) /\ Cardinality(present) \in Nat
      BY PresentFinite
<1>2. Cardinality(present') <= Cardinality(present) /\ Cardinality(present') \in Nat
      BY <1>1, FS_Subset, FS_CardinalityType
<1> QED BY <1>1, <1>2 DEF PaidInv, AnswersArePaidFor, TypeOK

LEMMA NextPaid ==
    ASSUME DnsNatAssumption, PaidInv, [Next]_vars
    PROVE  PaidInv'
<1>1. TypeOK /\ TypeOK' /\ responses_ + Cardinality(present) <= queries_
      BY NextTyped DEF PaidInv, AnswersArePaidFor
<1> SUFFICES AnswersArePaidFor'
    BY <1>1 DEF PaidInv
<1>2. IsFiniteSet(present) /\ Cardinality(present) \in Nat
      BY PresentFinite
<1>3. queries_ \in Nat /\ responses_ \in Nat
      BY <1>1 DEF TypeOK
<1>4. ASSUME NEW k \in Key \cup {NoKey}, NEW r \in Resolver, Ask(k, r)
      PROVE  AnswersArePaidFor'
      BY <1>4, Unpaid DEF Ask, present
<1>5. ASSUME NEW p \in Packet, Resolve(p) \/ Arrive(p) \/ Lose(p)
      PROVE  AnswersArePaidFor'
      BY <1>5, Unpaid DEF Resolve, Arrive, Lose, boundVars, present
<1>6. CASE Tick
  <2>1. present' = present
        BY <1>1, <1>6, Ageing
  <2> QED BY <1>6, <2>1, Unpaid DEF Tick
<1>7. CASE worker
  <2> DEFINE p == Head(queue)
  <2>1. p \in Packet /\ (handle_outbound(p) \/ handle_inbound(p) \/ PassThrough(p))
        BY <1>1, <1>7, HeadIsPacket DEF worker
  <2> HIDE DEF p
  <2>2. CASE handle_outbound(p)
    <3>1. present' \subseteq present \cup {p.key}
          BY <1>1, <2>1, <2>2, Outbound
    <3>2. /\ IsFiniteSet(present \cup {p.key})
          /\ Cardinality(present \cup {p.key}) <= Cardinality(present) + 1
      <4>1. /\ IsFiniteSet(present \cup {p.key})
            /\ Cardinality(present \cup {p.key})
                 = IF p.key \in present THEN Cardinality(present)
                                         ELSE Cardinality(present) + 1
            BY <1>2, FS_AddElement
      <4> QED BY <1>2, <4>1
    <3>3. /\ Cardinality(present') \in Nat
          /\ Cardinality(present') <= Cardinality(present) + 1
      <4>1. Cardinality(present') <= Cardinality(present \cup {p.key})
            BY <3>1, <3>2, FS_Subset
      <4>2. /\ Cardinality(present') \in Nat
            /\ Cardinality(present \cup {p.key}) \in Nat
            BY <3>1, <3>2, FS_Subset, FS_CardinalityType
      <4> QED BY <1>2, <3>2, <4>1, <4>2
    <3>4. queries_' = queries_ + 1 /\ responses_' = responses_
          BY <2>2 DEF handle_outbound
    <3> QED BY <1>1, <1>2, <1>3, <3>3, <3>4 DEF AnswersArePaidFor
  <2>3. CASE handle_inbound(p)
    <3>1. p.key \in present /\ present' = present \ {p.key}
          BY <1>1, <2>1, <2>3, Inbound
    <3>2. Cardinality(present') = Cardinality(present) - 1
          BY <1>2, <3>1, FS_RemoveElement
    <3>3. queries_' = queries_ /\ responses_' = responses_ + 1
          BY <2>3 DEF handle_inbound
    <3> QED BY <1>1, <1>2, <1>3, <3>2, <3>3 DEF AnswersArePaidFor
  <2>4. CASE PassThrough(p)
        BY <2>4, Unpaid DEF PassThrough, present
  <2> QED BY <2>1, <2>2, <2>3, <2>4
<1>8. CASE stop
      BY <1>8, Unpaid DEF stop, present
<1>9. CASE UNCHANGED vars
      BY <1>9, Unpaid DEF vars, present
<1> QED BY <1>1, <1>4, <1>5, <1>6, <1>7, <1>8, <1>9 DEF Next, PaidInv

\* The answers that were translated and the entries that can still translate one are
\* never more than the queries that were redirected: a duplicate finds no entry
\* (dns_redirect.cpp:131-137).
THEOREM QueriesPayForAnswers == Spec => []AnswersArePaidFor
<1>1. Init => PaidInv
  <2>1. SUFFICES ASSUME Init PROVE PaidInv
        OBVIOUS
  <2>2. present = {} /\ queries_ = 0 /\ responses_ = 0
        BY <2>1 DEF Init, present
  <2>3. Cardinality(present) = 0
        BY <2>2, FS_EmptySet
  <2> QED BY <2>1, <2>2, <2>3, InitTyped, DnsNatAssumption DEF PaidInv, AnswersArePaidFor
<1>2. PaidInv /\ [Next]_vars => PaidInv'
      BY NextPaid, DnsNatAssumption
<1>3. PaidInv => AnswersArePaidFor
      BY DEF PaidInv
<1> QED BY <1>1, <1>2, <1>3, PTL DEF Spec

-----------------------------------------------------------------------------
(* The redirector keeps the promise of RedirectService *)

IsDirect(p) == p.type = "query" /\ p.key \in Key /\ p.peer # upstream_

LEMMA DirectShrinks ==
    ASSUME \A p \in net' : IsDirect(p) => p \in net
    PROVE  Direct' \in SUBSET Direct
BY DEF Direct, IsDirect

LEMMA DirectSame ==
    ASSUME \A p \in net' : IsDirect(p) => p \in net,
           \A p \in net : IsDirect(p) => p \in net'
    PROVE  Direct' = Direct
<1>1. {p \in net : IsDirect(p)} = {p \in net' : IsDirect(p)}
      OBVIOUS
<1>2. Direct = {<<p.key, p.peer>> : p \in {p \in net : IsDirect(p)}}
      BY Zenon DEF Direct, IsDirect
<1>3. Direct' = {<<p.key, p.peer>> : p \in {p \in net' : IsDirect(p)}}
      BY Zenon DEF Direct, IsDirect
<1> QED BY <1>1, <1>2, <1>3

\* An answer given without a translation is passed on; one without a key is nobody's.
LEMMA GivenAsItIs ==
    ASSUME DnsNatAssumption, TypeOK, NEW k \in Key \cup {NoKey}, NEW r \in Resolver,
           Give(k, r, FALSE) \/ UNCHANGED inbox,
           UNCHANGED <<on, asked, Direct, Owed, queries_, responses_>>
    PROVE  [RS!Next]_RS!vars
<1>1. CASE UNCHANGED inbox
      BY <1>1 DEF RS!vars
<1>2. CASE Give(k, r, FALSE) /\ k \in Key
  <2>1. RS!PassOn(k, r)
        BY <1>2 DEF Give, RS!PassOn, RS!Give
  <2> QED BY <1>2, <2>1 DEF RS!Next
<1>3. CASE Give(k, r, FALSE) /\ k \notin Key
  <2>1. inbox' = inbox
    <3>1. inbox \in [Key -> SUBSET Delivered]
          BY DEF TypeOK
    <3>2. inbox' = [inbox EXCEPT ![k] = inbox[k] \cup {[src |-> r, translated |-> FALSE]}]
          BY <1>3 DEF Give
    <3> QED BY <1>3, <3>1, <3>2
  <2> QED BY <2>1 DEF RS!vars
<1> QED BY <1>1, <1>2, <1>3

\* What redirecting a query leaves owed.
LEMMA OwedMore ==
    ASSUME DnsNatAssumption, TypeOK, NEW p \in Packet, handle_outbound(p)
    PROVE  \E kept \in SUBSET {q \in Owed : q[1] # p.key} :
              Owed' = kept \cup {<<p.key, p.peer>>}
<1>1. /\ p.key \in Key /\ nat_'[p.key].dst = p.peer
      /\ present' \subseteq present \cup {p.key}
      /\ \A k \in present' : k # p.key => nat_'[k] = nat_[k]
      BY Outbound
<1>2. p.key \in present'
  <2>1. PICK S \in Looked :
          nat_' = [k \in Key |-> IF k = p.key THEN [dst |-> p.peer, age |-> 0]
                                 ELSE IF k \in S /\ expired(k) THEN NoEntry
                                 ELSE nat_[k]]
        BY DEF handle_outbound
  <2>2. nat_'[p.key] = [dst |-> p.peer, age |-> 0]
        BY <1>1, <2>1
  <2>3. [dst |-> p.peer, age |-> 0] \in NatEntry
        BY PacketFields DEF NatEntry, DnsNatAssumption
  <2> QED BY <1>1, <2>2, <2>3, EntryIsPresent DEF present
<1> DEFINE kept == {<<k, nat_[k].dst>> : k \in present' \ {p.key}}
<1>3. kept \in SUBSET {q \in Owed : q[1] # p.key}
      BY <1>1 DEF Owed
<1>4. Owed' = kept \cup {<<p.key, p.peer>>}
  <2>1. Owed' = {<<k, nat_'[k].dst>> : k \in present'}
        BY DEF Owed
  <2>2. kept = {<<k, nat_'[k].dst>> : k \in present' \ {p.key}}
        BY <1>1
  <2>3. <<p.key, nat_'[p.key].dst>> = <<p.key, p.peer>>
        BY <1>1
  <2> HIDE DEF kept
  <2> QED BY <1>2, <2>1, <2>2, <2>3
<1> QED BY <1>3, <1>4

\* What a translated answer leaves owed.
LEMMA OwedLess ==
    ASSUME TypeOK, NEW p \in Packet, handle_inbound(p)
    PROVE  /\ <<p.key, original_dst(p.key)>> \in Owed
           /\ Owed' = Owed \ {<<p.key, original_dst(p.key)>>}
<1>1. /\ p.key \in present /\ present' = present \ {p.key}
      /\ \A k \in present' : nat_'[k] = nat_[k]
      /\ original_dst(p.key) = nat_[p.key].dst
      BY Inbound
<1>2. Owed' = {<<k, nat_[k].dst>> : k \in present \ {p.key}}
      BY <1>1 DEF Owed
<1> QED BY <1>1, <1>2 DEF Owed

\* Every step of the redirector is one of the service, or changes nothing of it.
LEMMA ServiceStep ==
    ASSUME DnsNatAssumption, AskedInv, [Next]_vars
    PROVE  [RS!Next]_RS!vars
<1>1. TypeOK /\ QueuedWasAsked
      BY DEF AskedInv
<1>2. UNCHANGED nat_ => UNCHANGED Owed
      BY DEF Owed, present
<1>3. UNCHANGED net => UNCHANGED Direct
      BY DEF Direct
<1>4. ASSUME NEW k \in Key \cup {NoKey}, NEW r \in Resolver, Ask(k, r)
      PROVE  [RS!Next]_RS!vars
  <2>1. UNCHANGED <<on, inbox, queries_, responses_>> /\ UNCHANGED Owed
        BY <1>2, <1>4 DEF Ask
  <2>2. \/ Direct' = Direct
        \/ k \in Key /\ ~on /\ r # upstream_ /\ Direct' = Direct \cup {<<k, r>>}
    <3>1. CASE on
          BY <1>3, <1>4, <3>1 DEF Ask
    <3>2. CASE ~on
      <4>1. net' = net \cup {Query(k, r)}
            BY <1>4, <3>2 DEF Ask
      <4>2. CASE ~IsDirect(Query(k, r))
            BY <4>1, <4>2, DirectSame
      <4>3. CASE IsDirect(Query(k, r))
        <5>1. /\ Query(k, r).key = k /\ Query(k, r).peer = r
              /\ k \in Key /\ r # upstream_
              BY <4>3 DEF IsDirect, Query
        <5>2. {p \in net' : IsDirect(p)} = {p \in net : IsDirect(p)} \cup {Query(k, r)}
              BY <4>1, <4>3
        <5>3. Direct = {<<p.key, p.peer>> : p \in {p \in net : IsDirect(p)}}
              BY Zenon DEF Direct, IsDirect
        <5>4. Direct' = {<<p.key, p.peer>> : p \in {p \in net' : IsDirect(p)}}
              BY Zenon DEF Direct, IsDirect
        <5>5. Direct' = Direct \cup {<<k, r>>}
          <6> DEFINE d == {p \in net : IsDirect(p)}
                     e == {p \in net' : IsDirect(p)}
                     x == Query(k, r)
          <6>1. /\ e = d \cup {x} /\ x.key = k /\ x.peer = r
                /\ Direct = {<<p.key, p.peer>> : p \in d}
                /\ Direct' = {<<p.key, p.peer>> : p \in e}
                BY <5>1, <5>2, <5>3, <5>4
          <6> HIDE DEF d, e, x
          <6> QED BY <6>1
        <5> QED BY <3>2, <5>1, <5>5
      <4> QED BY <4>2, <4>3
    <3> QED BY <3>1, <3>2
  <2>3. CASE k \in Key
    <3>1. asked' = [asked EXCEPT ![k] = @ \cup {r}]
          BY <1>4, <2>3 DEF Ask
    <3>2. RS!Ask(k, r)
          BY <2>1, <2>2, <3>1 DEF RS!Ask
    <3> QED BY <2>3, <3>2 DEF RS!Next
  <2>4. CASE k \notin Key
    <3>1. UNCHANGED asked /\ UNCHANGED Direct
          BY <1>4, <2>2, <2>4 DEF Ask
    <3> QED BY <2>1, <3>1 DEF RS!vars
  <2> QED BY <2>3, <2>4
<1>5. ASSUME NEW p \in Packet, Resolve(p) \/ Lose(p)
      PROVE  [RS!Next]_RS!vars
  <2>1. UNCHANGED <<on, asked, inbox, queries_, responses_>> /\ UNCHANGED Owed
        BY <1>2, <1>5 DEF Resolve, Lose, boundVars
  <2>2. net' \subseteq net \cup {Answer(p.key, p.peer)}
        BY <1>5 DEF Resolve, Lose
  <2>3. ~IsDirect(Answer(p.key, p.peer))
        BY DEF IsDirect, Answer
  <2>4. Direct' \in SUBSET Direct
        BY <2>2, <2>3, DirectShrinks
  <2>5. RS!Leave
        BY <2>1, <2>4 DEF RS!Leave
  <2> QED BY <2>5 DEF RS!Next
<1>6. ASSUME NEW p \in Packet, Arrive(p)
      PROVE  [RS!Next]_RS!vars
  <2>1. UNCHANGED <<on, asked, queries_, responses_>> /\ UNCHANGED Owed
        BY <1>2, <1>6 DEF Arrive
  <2>2. UNCHANGED Direct
    <3>1. ~IsDirect(p) /\ (net' = net \ {p} \/ net' = net)
          BY <1>6 DEF Arrive, IsDirect
    <3> QED BY <3>1, DirectSame
  <2>3. Give(p.key, p.peer, FALSE) \/ UNCHANGED inbox
        BY <1>6 DEF Arrive
  <2> QED BY <1>1, <2>1, <2>2, <2>3, PacketFields, GivenAsItIs
<1>7. CASE Tick
  <2>1. present' = present /\ \A k \in present : nat_'[k].dst = nat_[k].dst
        BY <1>1, <1>7, Ageing
  <2>2. UNCHANGED Owed
        BY <2>1 DEF Owed
  <2> QED BY <1>3, <1>7, <2>2 DEF Tick, RS!vars
<1>8. CASE worker
  <2> DEFINE p == Head(queue)
  <2>1. /\ on /\ queue # <<>> /\ p \in Packet /\ UNCHANGED <<on, asked>>
        /\ handle_outbound(p) \/ handle_inbound(p) \/ PassThrough(p)
        BY <1>1, <1>8, HeadIsPacket DEF worker
  <2>2. p.type = "query" /\ p.key \in Key => p.peer \in asked[p.key]
    <3>1. 1 \in DOMAIN queue /\ p = queue[1]
          BY <1>1, <2>1 DEF TypeOK
    <3> HIDE DEF p
    <3> QED BY <1>1, <3>1 DEF QueuedWasAsked
  <2> HIDE DEF p
  <2>3. p.key \in Key \cup {NoKey} /\ p.peer \in Resolver /\ p.type \in {"query", "answer"}
        BY <2>1, PacketFields
  <2>4. CASE handle_outbound(p)
    <3>1. p.key \in Key /\ p.type = "query"
          BY <1>1, <2>1, <2>4, Outbound
    <3>2. UNCHANGED Direct
      <4>1. net' = net \cup {Query(p.key, upstream_)} \/ net' = net
            BY <2>4 DEF handle_outbound, SendOut
      <4>2. ~IsDirect(Query(p.key, upstream_))
            BY DEF IsDirect, Query
      <4> QED BY <4>1, <4>2, DirectSame
    <3>3. queries_' = queries_ + 1 /\ UNCHANGED <<responses_, inbox>>
          BY <2>4 DEF handle_outbound
    <3>4. \E kept \in SUBSET {q \in Owed : q[1] # p.key} :
             Owed' = kept \cup {<<p.key, p.peer>>}
          BY <1>1, <2>1, <2>4, OwedMore
    <3>5. RS!Redirect(p.key, p.peer)
          BY <2>1, <2>2, <3>1, <3>2, <3>3, <3>4 DEF RS!Redirect
    <3> QED BY <2>3, <3>1, <3>5 DEF RS!Next
  <2>5. CASE handle_inbound(p)
    <3> DEFINE r == original_dst(p.key)
    <3>1. /\ <<p.key, r>> \in Owed /\ Owed' = Owed \ {<<p.key, r>>}
          /\ p.key \in Key /\ r \in Resolver
          BY <1>1, <2>1, <2>5, OwedLess, Inbound, PresentEntry
    <3>2. /\ responses_' = responses_ + 1 /\ UNCHANGED queries_ /\ UNCHANGED Direct
          /\ Give(p.key, r, TRUE) \/ UNCHANGED inbox
          BY <1>3, <2>5 DEF handle_inbound, SendIn
    <3> HIDE DEF r
    <3>3. RS!Translate(p.key, r)
          BY <2>1, <3>1, <3>2 DEF RS!Translate, RS!Give, Give
    <3> QED BY <3>1, <3>3 DEF RS!Next
  <2>6. CASE PassThrough(p)
    <3>1. UNCHANGED <<queries_, responses_>> /\ UNCHANGED Owed
          BY <1>2, <2>6 DEF PassThrough
    <3>2. UNCHANGED Direct
      <4>1. CASE p.type = "query" /\ SendOut(p)
        <5>1. ~IsDirect(p)
              BY <2>6, <4>1 DEF PassThrough, Redirects, IsDirect
        <5> QED BY <4>1, <5>1, DirectSame DEF SendOut
      <4>2. CASE UNCHANGED net
            BY <1>3, <4>2
      <4> QED BY <2>6, <4>1, <4>2 DEF PassThrough
    <3>3. Give(p.key, p.peer, FALSE) \/ UNCHANGED inbox
          BY <2>6 DEF PassThrough, SendIn
    <3> QED BY <1>1, <2>1, <2>3, <3>1, <3>2, <3>3, GivenAsItIs
  <2> QED BY <2>1, <2>4, <2>5, <2>6
<1>9. CASE stop
  <2>1. present' = {}
        BY <1>9 DEF stop, present
  <2>2. Owed' = {}
        BY <2>1 DEF Owed
  <2>3. RS!Stop
        BY <1>3, <1>9, <2>2 DEF stop, RS!Stop
  <2> QED BY <2>3 DEF RS!Next
<1>10. CASE UNCHANGED vars
      BY <1>2, <1>3, <1>10 DEF vars, RS!vars
<1> QED BY <1>4, <1>5, <1>6, <1>7, <1>8, <1>9, <1>10 DEF Next

\* DnsNat implements RedirectService: its table, its sweeps, whatever the network does
\* and whatever ports and ids are used again change nothing of the promise.
THEOREM Refinement == Spec => ImplementsRedirectService
<1>1. Init => RS!Init
  <2>1. SUFFICES ASSUME Init PROVE RS!Init
        OBVIOUS
  <2>2. present = {} /\ net = {}
        BY <2>1 DEF Init, present
  <2>3. Owed = {} /\ Direct = {}
        BY <2>2 DEF Owed, Direct
  <2> QED BY <2>1, <2>3 DEF Init, RS!Init
<1>2. AskedInv /\ [Next]_vars => [RS!Next]_RS!vars
      BY ServiceStep, DnsNatAssumption
<1> QED BY <1>1, <1>2, InitAsked, NextAsked, DnsNatAssumption, PTL
        DEF Spec, ImplementsRedirectService, RS!Spec
=============================================================================
