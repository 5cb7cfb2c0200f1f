------------------------------ MODULE EchoConn ------------------------------
(***************************************************************************)
(* handle_client of server6.c on one connection, byte by byte: how recv(2) *)
(* cuts the stream, what strlen(3) makes of the buffer, and what becomes   *)
(* of a reset.  Server6 models the processes around it.                    *)
(*                                                                         *)
(* The client is any program that sends bytes.  Bytes it has sent are with *)
(* the server's kernel until recv returns them; a reset may lose some.     *)
(***************************************************************************)
EXTENDS Naturals, Sequences, FiniteSets, SequencesExt

CONSTANTS
    Bytes,      \* the bytes the client sends; Nul may be one of them
    Nul,        \* '\0'
    BufLen,     \* MSGBUFLEN
    EchoLimit,  \* handle_client receives while bytestotal is at most this
    MaxBytes,   \* bound of the model: bytes the client sends
    Junk        \* strings strlen may find behind a buffer that is full

ASSUME ConnAssumption ==
    /\ {BufLen, EchoLimit, MaxBytes} \subseteq Nat
    /\ BufLen > 0
    /\ Junk \subseteq Seq(Bytes \ {Nul}) /\ <<>> \in Junk

VARIABLES
    pc,         \* where handle_client is: at recv, at send, or gone
    buf,        \* the bytes recv put in buf, zeroes behind them
    bytestotal, \* bytestotal
    sock,       \* the server's socket: "up", "rst" (an error is pending) or
                \* "broken" (the error was reported)
    taken,      \* how many of the bytes sent recv has returned
    client,     \* "open", "closed" or "reset"
    heard,      \* history: the bytes the client sent
    said,       \* history: the bytes send took
    overran     \* history: strlen has met a full buffer without a Nul

server == <<pc, buf, bytestotal>>
vars   == <<server, sock, taken, client, heard, said, overran>>

TypeOK ==
    /\ pc \in {"recv", "send", "left"}
    /\ buf \in Seq(Bytes) /\ Len(buf) <= BufLen
    /\ bytestotal \in Nat
    /\ pc = "send" => bytestotal <= EchoLimit
    /\ sock \in {"up", "rst", "broken"}
    /\ sock # "up" => client = "reset"
    /\ taken \in 0..Len(heard)
    /\ client \in {"open", "closed", "reset"}
    /\ heard \in Seq(Bytes) /\ Len(heard) <= MaxBytes
    /\ said \in Seq(Bytes \ {Nul})
    /\ overran \in BOOLEAN

Init ==
    /\ pc = "recv"
    /\ buf = <<>>
    /\ bytestotal = 0
    /\ sock = "up"
    /\ taken = 0
    /\ client = "open"
    /\ heard = <<>> /\ said = <<>>
    /\ overran = FALSE

-----------------------------------------------------------------------------
(* handle_client. *)

Full(b) == Len(b) = BufLen /\ Nul \notin ToSet(b)

\* Mutant: the last character is taken for the end of the string.
CStrings_OffByOne(b) == IF b = <<>> THEN {<<>>} ELSE {Front(b)}

\* The strings the buffer may hold for C: up to the first Nul, which is one
\* received or one of the zeroes behind; a full buffer runs on into the stack.
CStrings(b) ==
    IF Full(b) THEN {b \o j : j \in Junk}
    ELSE {SubSeq(b, 1, n) : n \in {m \in 0..Len(b) :
             /\ Nul \notin ToSet(SubSeq(b, 1, m))
             /\ m < Len(b) => b[m + 1] = Nul}}

\* Mutant: the loop goes on whatever bytestotal is.
MayReceive_Always == pc = "recv"

\* The condition of the loop.
MayReceive == pc = "recv" /\ bytestotal <= EchoLimit

\* Mutant: the buffer is not cleared before recv.
RecvBytes_NotCleared ==
    /\ MayReceive
    /\ \E n \in 1..BufLen :
          /\ taken + n <= Len(heard)
          /\ buf' = SubSeq(heard, taken + 1, taken + n) \o SubSeq(buf, n + 1, Len(buf))
          /\ taken' = taken + n
    /\ pc' = "send"
    /\ UNCHANGED <<bytestotal, sock, client, heard, said, overran>>

\* recv returns some of the bytes that have arrived, at most a buffer full.
RecvBytes ==
    /\ MayReceive
    /\ \E n \in 1..BufLen :
          /\ taken + n <= Len(heard)
          /\ buf' = SubSeq(heard, taken + 1, taken + n)
          /\ taken' = taken + n
    /\ pc' = "send"
    /\ UNCHANGED <<bytestotal, sock, client, heard, said, overran>>

\* recv reports the reset: -1, which the code takes for data; buf is empty.
RecvError ==
    /\ MayReceive
    /\ sock = "rst"
    /\ sock' = "broken"
    /\ buf' = <<>>
    /\ pc' = "send"
    /\ UNCHANGED <<bytestotal, taken, client, heard, said, overran>>

\* Mutant: only a negative result ends the loop.
RecvEof_Ignored ==
    /\ MayReceive
    /\ sock = "broken"
    /\ pc' = "left"
    /\ UNCHANGED <<buf, bytestotal, sock, taken, client, heard, said, overran>>

\* recv returns 0: the client closed and all was read, or the reset has been
\* reported before.
RecvEof ==
    /\ MayReceive
    /\ \/ client = "closed" /\ taken = Len(heard)
       \/ sock = "broken"
    /\ pc' = "left"
    /\ UNCHANGED <<buf, bytestotal, sock, taken, client, heard, said, overran>>

\* The condition of the loop is false.
LeaveLoop ==
    /\ pc = "recv"
    /\ ~MayReceive
    /\ pc' = "left"
    /\ UNCHANGED <<buf, bytestotal, sock, taken, client, heard, said, overran>>

\* send, then bytestotal += strlen.  A send that meets the reset returns -1
\* and its bytes are lost; the code counts them all the same.
SendString ==
    /\ pc = "send"
    /\ sock # "broken"
    /\ \E s \in CStrings(buf) :
          /\ bytestotal' = bytestotal + Len(s)
          /\ said' = IF sock = "up" THEN said \o s ELSE said
    /\ overran' = (overran \/ Full(buf))
    /\ sock' = IF sock = "up" THEN "up" ELSE "broken"
    /\ pc' = "recv"
    /\ UNCHANGED <<buf, taken, client, heard>>

\* SIGPIPE: the reset has been reported, or the client had closed before it.
SendKilled ==
    /\ pc = "send"
    /\ sock # "up"
    /\ pc' = "left"
    /\ UNCHANGED <<buf, bytestotal, sock, taken, client, heard, said, overran>>

handle_client ==
    \/ RecvBytes \/ RecvError \/ RecvEof \/ LeaveLoop
    \/ SendString \/ SendKilled

-----------------------------------------------------------------------------
(* The client and the network. *)

Write ==
    /\ client = "open"
    /\ Len(heard) < MaxBytes
    /\ \E b \in Bytes : heard' = Append(heard, b)
    /\ UNCHANGED <<server, sock, taken, client, said, overran>>

Close ==
    /\ client = "open"
    /\ client' = "closed"
    /\ UNCHANGED <<server, sock, taken, heard, said, overran>>

\* An abort, or the answer of a closed end to bytes that reach it.
Reset ==
    /\ client = "open" \/ (client = "closed" /\ said # <<>>)
    /\ client' = "reset"
    /\ UNCHANGED <<server, sock, taken, heard, said, overran>>

ResetArrives ==
    /\ client = "reset" /\ sock = "up"
    /\ sock' = "rst"
    /\ UNCHANGED <<server, taken, client, heard, said, overran>>

Next == handle_client \/ Write \/ Close \/ Reset \/ ResetArrives

\* The child is scheduled, and a reset reaches the server in the end.
Spec == Init /\ [][Next]_vars /\ WF_vars(handle_client) /\ WF_vars(ResetArrives)

-----------------------------------------------------------------------------
(* Properties. *)

Service == INSTANCE EchoService WITH hungUp <- pc = "left"

\* On a connection whose bytes are not null and never fill the buffer,
\* handle_client keeps the promise of an echo server, whatever the pieces recv
\* cuts the stream into.
EchoesAsPromised == Service!Spec

Received == SubSeq(heard, 1, taken)

\* s is t with some members left out: each of s has its place in t, in order.
Within(s, t) ==
    \E at \in [DOMAIN s -> DOMAIN t] :
        /\ \A i \in DOMAIN s : s[i] = t[at[i]]
        /\ \A i, j \in DOMAIN s : i < j => at[i] < at[j]

\* No byte is echoed that was not received, twice, or out of order, unless
\* strlen ran over the end of a full buffer.
NothingInvented == ~overran => Within(said, Received)

\* What was received before the first null byte has been echoed whole by the
\* time handle_client receives again.
EchoedUpToNul ==
    pc = "recv" /\ sock = "up" /\ ~overran =>
        \A n \in 0..taken :
            Nul \notin ToSet(SubSeq(heard, 1, n)) => IsPrefix(SubSeq(heard, 1, n), said)

\* A client that closes or resets is left, bytes with a null among them or not.
LeavesTheGone == client # "open" ~> pc = "left"

\* "echo server" (server6.c:2): all that was received has been echoed.
EchoesAll == pc = "recv" /\ sock = "up" => said = Received
=============================================================================
