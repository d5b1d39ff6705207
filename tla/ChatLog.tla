-------------------------------- MODULE ChatLog --------------------------------
(***************************************************************************)
(* What a chat memory store promises the chat router: a log per session to *)
(* which an exchange is appended as a whole, the question before its       *)
(* answer.  A store in process memory may lose everything at a restart,    *)
(* never a part.                                                           *)
(***************************************************************************)
EXTENDS Naturals, Sequences

CONSTANTS Stores, Sessions, Exchanges

VARIABLE log    \* log[p][s]: the rows store p has of session s, oldest first

Line(e, role) == [ex |-> e, role |-> role]

Lines(p, s) == {log[p][s][i] : i \in 1..Len(log[p][s])}

EmptyStore == [s \in Sessions |-> <<>>]

Init == log = [p \in Stores |-> EmptyStore]

\* An exchange goes to one session of one store, once.
AppendExchange(p, s, e) ==
    /\ \A q \in Stores, t \in Sessions : \A l \in Lines(q, t) : l.ex # e
    /\ log' = [log EXCEPT
                  ![p][s] = @ \o <<Line(e, "user"), Line(e, "assistant")>>]

Lose(p) == log' = [log EXCEPT ![p] = EmptyStore]

Next ==
    \/ \E p \in Stores, s \in Sessions, e \in Exchanges : AppendExchange(p, s, e)
    \/ \E p \in Stores : Lose(p)

Spec == Init /\ [][Next]_log
===============================================================================
