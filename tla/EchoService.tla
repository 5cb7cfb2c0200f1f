---------------------------- MODULE EchoService ----------------------------
(***************************************************************************)
(* What an echo server promises on one connection: it says back what it    *)
(* hears, in order and without a gap, and hangs up only on a client that   *)
(* was told enough, has been answered in full after its last byte, or is   *)
(* gone.                                                                   *)
(***************************************************************************)
EXTENDS Naturals, Sequences

CONSTANTS
    Bytes,      \* what a client may send
    EchoLimit   \* the server may hang up once it has said more than this

VARIABLES
    heard,      \* bytes the client has sent
    said,       \* bytes the server has sent back
    client,     \* "open", "closed" (has sent its last byte), or "reset"
    hungUp      \* the server has left

vars == <<heard, said, client, hungUp>>

Init ==
    /\ heard = <<>> /\ said = <<>>
    /\ client = "open"
    /\ hungUp = FALSE

Hear ==
    /\ client = "open"
    /\ \E b \in Bytes : heard' = Append(heard, b)
    /\ UNCHANGED <<said, client, hungUp>>

Say ==
    /\ ~hungUp
    /\ \E n \in Len(said) + 1 .. Len(heard) : said' = SubSeq(heard, 1, n)
    /\ UNCHANGED <<heard, client, hungUp>>

HangUp ==
    /\ ~hungUp
    /\ \/ Len(said) > EchoLimit
       \/ client = "closed" /\ said = heard
       \/ client = "reset"
    /\ hungUp' = TRUE
    /\ UNCHANGED <<heard, said, client>>

Close ==
    /\ client = "open"
    /\ client' = "closed"
    /\ UNCHANGED <<heard, said, hungUp>>

Reset ==
    /\ client # "reset"
    /\ client' = "reset"
    /\ UNCHANGED <<heard, said, hungUp>>

Serve == Say \/ HangUp

Next == Hear \/ Close \/ Reset \/ Serve

\* The server never rests while it has something to say or a reason to leave.
Spec == Init /\ [][Next]_vars /\ WF_vars(Serve)
=============================================================================
