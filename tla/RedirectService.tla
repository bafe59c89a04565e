-------------------------- MODULE RedirectService --------------------------
(***************************************************************************)
(* What the DNS redirector promises a client, whatever its table, its      *)
(* sweeps and the network do: while it runs, no query leaves for the       *)
(* resolver it was meant for; every answer it translates uses up one       *)
(* redirected query, names the resolver that query was meant for, and goes *)
(* to the port and id it came from; stopping it forgets what is owed.      *)
(* Written from dns_redirect.hpp:3-7: "transparently route every DNS query *)
(* to a trusted upstream resolver [...] and reverse the rewrite on the way *)
(* back".                                                                  *)
(***************************************************************************)
EXTENDS Naturals

CONSTANTS Key,              \* client ports with query ids
          Resolver, upstream_

VARIABLES on,
          asked,            \* per key: the resolvers the client has asked
          direct,           \* queries under way to the resolver that was asked
          owed,             \* redirected queries an answer may still be given for
          inbox,            \* per key: the answers the client was given
          queries_, responses_

vars == <<on, asked, direct, owed, inbox, queries_, responses_>>

Init == /\ on = TRUE /\ direct = {} /\ owed = {}
        /\ asked = [k \in Key |-> {}] /\ inbox = [k \in Key |-> {}]
        /\ queries_ = 0 /\ responses_ = 0

Give(k, r, t) == inbox' = [inbox EXCEPT ![k] = @ \cup {[src |-> r, translated |-> t]}]

Ask(k, r) == /\ asked' = [asked EXCEPT ![k] = @ \cup {r}]
             /\ \/ direct' = direct
                \/ ~on /\ r # upstream_ /\ direct' = direct \cup {<<k, r>>}
             /\ UNCHANGED <<on, owed, inbox, queries_, responses_>>

\* Queries arrive at their resolver or get lost.
Leave == /\ direct' \in SUBSET direct
         /\ UNCHANGED <<on, asked, owed, inbox, queries_, responses_>>

\* One answer is owed under a key at most; older ones may be given up.
Redirect(k, r) ==
    /\ on /\ r \in asked[k] /\ queries_' = queries_ + 1
    /\ \E kept \in SUBSET {q \in owed : q[1] # k} : owed' = kept \cup {<<k, r>>}
    /\ UNCHANGED <<on, asked, direct, inbox, responses_>>

\* The answer may get lost on its way to the client.
Translate(k, r) ==
    /\ on /\ <<k, r>> \in owed /\ owed' = owed \ {<<k, r>>}
    /\ responses_' = responses_ + 1
    /\ Give(k, r, TRUE) \/ UNCHANGED inbox
    /\ UNCHANGED <<on, asked, direct, queries_>>

PassOn(k, r) == Give(k, r, FALSE)
                /\ UNCHANGED <<on, asked, direct, owed, queries_, responses_>>

Stop == /\ on /\ on' = FALSE /\ owed' = {}
        /\ UNCHANGED <<asked, direct, inbox, queries_, responses_>>

Next == \/ \E k \in Key, r \in Resolver :
             Ask(k, r) \/ Redirect(k, r) \/ Translate(k, r) \/ PassOn(k, r)
        \/ Leave \/ Stop

Spec == Init /\ [][Next]_vars
=============================================================================
