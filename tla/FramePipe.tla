------------------------------ MODULE FramePipe ------------------------------
(***************************************************************************)
(* What one direction of a proxied WebSocket promises: the frames come out *)
(* in the order in which they went in, none twice and none left out, until *)
(* the receiving end is gone.  Frames are named by their number.           *)
(***************************************************************************)
EXTENDS Naturals, Sequences

VARIABLES
    sent,   \* how many frames went in
    got,    \* the frames that came out
    live    \* the receiving end is there, or still to come

vars == <<sent, got, live>>

Init ==
    /\ sent = 0
    /\ got = <<>>
    /\ live = TRUE

Send ==
    /\ sent' = sent + 1
    /\ UNCHANGED <<got, live>>

Deliver ==
    /\ live
    /\ Len(got) < sent
    /\ got' = Append(got, Len(got) + 1)
    /\ UNCHANGED <<sent, live>>

Cut ==
    /\ live
    /\ live' = FALSE
    /\ UNCHANGED <<sent, got>>

Next == Send \/ Deliver \/ Cut

Spec == Init /\ [][Next]_vars
=============================================================================
