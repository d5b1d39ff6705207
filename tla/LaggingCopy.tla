----------------------------- MODULE LaggingCopy -----------------------------
(***************************************************************************)
(* A copy that lags behind its source: for each key it holds a version     *)
(* that the source has had, it only moves forward, and it never moves past *)
(* the version that the source has at that time.  0 is no version at all.  *)
(* Nothing is said of keys that have been mixed up.                        *)
(***************************************************************************)
EXTENDS Naturals

CONSTANT Keys

VARIABLES source, copy, mixed

Init ==
    /\ source \in [Keys -> Nat]
    /\ copy = [k \in Keys |-> 0]
    /\ mixed = {}

SourceGoesOn == \A k \in Keys \ mixed' : source'[k] >= source[k]

CopyFollows == \A k \in Keys \ mixed' : copy'[k] >= copy[k] /\ copy'[k] <= source[k]

Next == mixed \subseteq mixed' /\ SourceGoesOn /\ CopyFollows

Spec == Init /\ [][Next]_<<source, copy, mixed>>
===============================================================================
