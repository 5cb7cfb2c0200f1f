----------------------------- MODULE PingClient -----------------------------
(***************************************************************************)
(* client6.c and the handle_client that serves it: main glues its          *)
(* arguments to a message, ping sends it as one line, receives once and    *)
(* prints what C finds in a buffer nobody cleared.                         *)
(*                                                                         *)
(* The connection and the server are EchoConn's; the client of EchoConn,   *)
(* which may send anything, is client6 here.                               *)
(***************************************************************************)
EXTENDS Naturals, Sequences, SequencesExt

CONSTANTS
    Bytes, Nul, \* as in EchoConn
    Space, Cr, Lf,
    BufLen,     \* MSGBUFLEN, of both programs
    EchoLimit,  \* of the server
    Junk,       \* strings that may lie in memory nobody wrote
    Arguments   \* the words after address and port, a set of sequences

\* The last is a bound of the model: what lies behind a buffer is no longer
\* than two of them, less the line's end.
ASSUME PingAssumption ==
    /\ {Space, Cr, Lf} \subseteq Bytes \ {Nul}
    /\ Arguments \subseteq Seq(Seq(Bytes \ {Nul}))
    /\ BufLen \in Nat \ {0} /\ EchoLimit \in Nat
    /\ Junk \subseteq Seq(Bytes \ {Nul}) /\ <<>> \in Junk
    /\ \A j \in Junk : Len(j) + 2 <= 2 * BufLen

VARIABLES
    at,         \* where main is
    outmsg,     \* the string outmsg holds for C
    got,        \* how many bytes recv has put in outbuf
    printed,    \* history: what ping printed
    srv, buf, bytestotal, sock, taken, client, heard, said, overran

main   == <<at, outmsg, got, printed>>
conn   == <<srv, buf, bytestotal, sock, taken, client, heard, said, overran>>
vars   == <<main, conn>>

Server == INSTANCE EchoConn WITH pc <- srv, MaxBytes <- 3 * BufLen

TypeOK ==
    /\ at \in {"words", "connect", "send", "recv", "print", "close",
               "exited", "refused", "crashed"}
    /\ outmsg \in Seq(Bytes \ {Nul})
    /\ \E j \in Junk : Len(outmsg) <= BufLen + Len(j)
    /\ got \in 0..BufLen /\ got <= Len(said)
    /\ printed \in Seq(Bytes \ {Nul})
    /\ Server!TypeOK

Init ==
    /\ at = "words"
    /\ outmsg = <<>> /\ printed = <<>>
    /\ got = 0
    /\ Server!Init

-----------------------------------------------------------------------------
(* main. *)

\* Mutant: the words are copied whether they fit or not.
Glue_Unbounded(words) ==
    FoldLeft(LAMBDA text, w : text \o w \o <<Space>>, <<>>, words)

\* The loop over argv: words and a space behind each, up to the first word
\* that would fill the buffer.
Glue(words) ==
    FoldLeft(LAMBDA m, w :
                 IF m.full \/ Len(m.text) + Len(w) >= BufLen
                 THEN [m EXCEPT !.full = TRUE]
                 ELSE [m EXCEPT !.text = @ \o w \o <<Space>>],
             [text |-> <<>>, full |-> FALSE], words).text

\* Nothing terminates the message: the string goes on as the stack has it.
Words ==
    /\ at = "words"
    /\ \E words \in Arguments, j \in Junk : outmsg' = Glue(words) \o j
    /\ at' = "connect"
    /\ UNCHANGED <<got, printed, conn>>

\* socket, inet_pton and connect; each may fail, and usemsg exits.
Connect ==
    /\ at = "connect"
    /\ at' \in {"send", "refused"}
    /\ UNCHANGED <<outmsg, got, printed, conn>>

\* close(2), or the end of the process, with bytes unread resets.
HangUp == client' = IF got < Len(said) THEN "reset" ELSE "closed"

\* The echo that arrives at a closed end is answered by a reset.
Refuse ==
    /\ client = "closed" /\ got < Len(said)
    /\ client' = "reset"
    /\ UNCHANGED <<main, srv, buf, bytestotal, sock, taken, heard, said, overran>>

Close ==
    /\ at = "close"
    /\ at' = "exited"
    /\ HangUp
    /\ UNCHANGED <<outmsg, got, printed, srv, buf, bytestotal, sock, taken,
                   heard, said, overran>>

-----------------------------------------------------------------------------
(* ping. *)

Line == outmsg \o <<Cr, Lf>>

\* The process may end where it writes past the end of an array.
Crash ==
    /\ at' = "crashed"
    /\ HangUp
    /\ UNCHANGED <<outmsg, got, printed, srv, buf, bytestotal, sock, taken,
                   heard, said, overran>>

\* sprintf, which does not ask whether the line fits, and send.
SendLine ==
    /\ at = "send"
    /\ at' = "recv"
    /\ heard' = heard \o Line
    /\ UNCHANGED <<outmsg, got, printed, srv, buf, bytestotal, sock, taken,
                   client, said, overran>>

SprintfOverruns ==
    /\ at = "send"
    /\ Len(Line) >= BufLen
    /\ Crash

\* Mutant: ping does not wait for the server.
Recv_NoWait ==
    /\ at = "recv"
    /\ \E n \in 0..BufLen : n <= Len(said) /\ got' = n
    /\ at' = "print"
    /\ UNCHANGED <<outmsg, printed, conn>>

\* Mutant: ping waits until the whole line is back.
Recv_Whole ==
    /\ at = "recv"
    /\ Len(said) >= Len(Line)
    /\ got' = IF Len(said) > BufLen THEN BufLen ELSE Len(said)
    /\ at' = "print"
    /\ UNCHANGED <<outmsg, printed, conn>>

\* recv returns what has arrived, up to a buffer full; from a server that left
\* without an answer, nothing or an error, and ping looks at neither.
Recv ==
    /\ at = "recv"
    /\ \/ \E n \in 1..BufLen : n <= Len(said) /\ got' = n
       \/ srv = "left" /\ said = <<>> /\ UNCHANGED got
    /\ at' = "print"
    /\ UNCHANGED <<outmsg, printed, conn>>

\* What C takes outbuf for: the bytes received, and what was there before
\* behind them.
OutStrings ==
    LET piece == SubSeq(said, 1, got)
    IN  {piece \o j : j \in Junk}

\* strncpy writes zeroes from strlen to the end of outbuf, and printf prints.
PrintReply ==
    /\ at = "print"
    /\ \E s \in OutStrings :
          /\ Len(s) <= BufLen
          /\ printed' = s
    /\ at' = "close"
    /\ UNCHANGED <<outmsg, got, conn>>

\* strlen went past the end: the length passed to strncpy wraps around and
\* the zeroes run through the stack.
StrncpyOverruns ==
    /\ at = "print"
    /\ \E s \in OutStrings : Len(s) > BufLen
    /\ Crash

Main ==
    \/ Words \/ Connect \/ SendLine \/ SprintfOverruns \/ Recv
    \/ PrintReply \/ StrncpyOverruns \/ Close

-----------------------------------------------------------------------------

HandleClient == Server!handle_client /\ UNCHANGED main

\* A signal ends the server's process once it has the connection.
Kill ==
    /\ at \notin {"words", "connect", "refused"}
    /\ srv # "left"
    /\ srv' = "left"
    /\ UNCHANGED <<main, buf, bytestotal, sock, taken, client, heard, said, overran>>

Network == (Server!ResetArrives /\ UNCHANGED main) \/ Refuse

Next == Main \/ HandleClient \/ Network \/ Kill

\* Both processes are scheduled and resets arrive.
Spec ==
    /\ Init /\ [][Next]_vars
    /\ WF_vars(Main) /\ WF_vars(HandleClient) /\ WF_vars(Network)

-----------------------------------------------------------------------------
(* Properties. *)

\* What ping prints begins with as much of its own line as recv took, the
\* server's recv and send and the client's recv cutting it wherever they do;
\* and recv took something unless the server died before it said anything.
\* Only a line that overran a buffer of the server is excepted.
PrintsOwnLine ==
    at = "close" /\ ~overran =>
        /\ got = 0 => said = <<>> /\ srv = "left"
        /\ IsPrefix(SubSeq(Line, 1, got), printed)

\* ping comes to an end, and after it the server's handler of this client.
PingEnds ==
    <>( \/ at = "refused"
        \/ at \in {"exited", "crashed"} /\ srv = "left")
=============================================================================
