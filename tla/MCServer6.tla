----------------------------- MODULE MCServer6 -----------------------------
(* Instances of Server6 for TLC. *)
EXTENDS Server6, SequencesExt

\* The clients in some order of their own.
Order == SetToSeq(Clients)

\* Clients differ by name only and connect once, so that of the behaviours
\* that are the same up to the names TLC need see the one in which they connect
\* in this order.  Unlike SYMMETRY this keeps liveness checking sound.
InOrder ==
    \A i \in 2..Len(Order) :
        client[Order[i]] # "idle" => client[Order[i - 1]] # "idle"
=============================================================================
