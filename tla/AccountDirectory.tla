--------------------------- MODULE AccountDirectory ---------------------------
(***************************************************************************)
(* What auth-api promises about accounts: a directory in which a username  *)
(* belongs to one owner for good, and in which the account of an external  *)
(* identity appears together with the link to it.  A directory in process  *)
(* memory may lose everything at a restart, never a part.                  *)
(***************************************************************************)
EXTENDS Naturals

CONSTANTS Stores, Durable, Usernames, Subjects, Owners

VARIABLES
    accounts,   \* accounts[s]: records [name, owner]
    links       \* links[s]: records [sub, name]

Taken(s, n) == \E a \in accounts[s] : a.name = n
Linked(s, g) == \E l \in links[s] : l.sub = g

Init ==
    /\ accounts = [s \in Stores |-> {}]
    /\ links = [s \in Stores |-> {}]

Register(s, n, o) ==
    /\ ~Taken(s, n)
    /\ accounts' = [accounts EXCEPT ![s] = @ \cup {[name |-> n, owner |-> o]}]
    /\ UNCHANGED links

Federate(s, g, n, o) ==
    /\ ~Taken(s, n)
    /\ ~Linked(s, g)
    /\ accounts' = [accounts EXCEPT ![s] = @ \cup {[name |-> n, owner |-> o]}]
    /\ links' = [links EXCEPT ![s] = @ \cup {[sub |-> g, name |-> n]}]

Lose(s) ==
    /\ s \notin Durable
    /\ accounts' = [accounts EXCEPT ![s] = {}]
    /\ links' = [links EXCEPT ![s] = {}]

Next ==
    \E s \in Stores :
        \/ \E n \in Usernames, o \in Owners :
              \/ Register(s, n, o)
              \/ \E g \in Subjects : Federate(s, g, n, o)
        \/ Lose(s)

Spec == Init /\ [][Next]_<<accounts, links>>
===============================================================================
