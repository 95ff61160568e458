-------------------------- MODULE MCCredentialHelper --------------------------
(* An instance of CredentialHelper for TLC: every mix of usernames and of   *)
(* helpers at the three places, some with useHttpPath, and helpers that     *)
(* write up to two lines.                                                   *)
EXTENDS CredentialHelper

CONSTANTS alice, bob, secret, token, store

Accounts == {alice, bob}
Keys     == {secret, token}
Programs == {store}

Nowhere == [i \in Places |-> Absent]

\* Usernames and helpers together at every place; useHttpPath alone.
Mixes ==
    {[username |-> u, helper |-> h, useHttpPath |-> Nowhere] :
        u \in [Places -> {Absent, Empty, alice}],
        h \in {<<Absent, Absent, Absent>>, <<store, Null, store>>, <<store, store, store>>}}
    \cup {[username |-> Nowhere, helper |-> Nowhere, useHttpPath |-> p] :
            p \in [Places -> BOOLEAN \cup {Absent}]}

\* The last has a password with "=" in it.
Lines ==
    {<<"username", u>> : u \in Accounts \cup {Empty}}
    \cup {<<"password", p>> : p \in Keys}
    \cup {<<"other">>, <<"password", token, secret>>}

Writes == {<<>>} \cup {<<l>> : l \in Lines} \cup {<<k, l>> : k, l \in Lines}
=============================================================================
