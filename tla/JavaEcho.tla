------------------------------ MODULE JavaEcho ------------------------------
(***************************************************************************)
(* EchoServer.java and EchoClient.java.  main starts one thread for each   *)
(* address it listens on; each thread accepts a connection, reads a line   *)
(* from it, answers, closes it and accepts the next.  The threads meet in  *)
(* the static saddress and in System.exit.                                 *)
(*                                                                         *)
(* A client sends characters "x" and line ends "nl" (CR and LF alike).  An *)
(* answer stands for the number of characters it quotes: the names of the  *)
(* two hosts before them are left out.                                     *)
(***************************************************************************)
EXTENDS Naturals, Sequences, FiniteSets, SequencesExt

CONSTANTS
    Addresses,    \* server4Address and server6Address, or the first alone
    Clients,      \* the clients; each opens at most one connection
    EchoClients,  \* the ones that run EchoClient; the others do as they like
    Cooperative,  \* others of which the model assumes that they hang up
    Address,      \* the address each client connects to
    MaxChars,     \* MAXCHARS, and the size of a BufferedInputStream
    Backlog,      \* MAX_CONNECTIONS
    MaxMessage,   \* bound of the model: characters of EchoClient's message
    MaxRaw,       \* bound of the model: what another client sends
    None          \* no client, no answer, or no address

ASSUME JavaAssumption ==
    /\ IsFiniteSet(Clients) /\ IsFiniteSet(Addresses)
    /\ EchoClients \subseteq Clients
    /\ Cooperative \subseteq Clients \ EchoClients
    /\ Address \in [Clients -> Addresses]
    /\ MaxChars \in Nat \ {0} /\ {Backlog, MaxMessage, MaxRaw} \subseteq Nat
    /\ None \notin Clients \cup Addresses \cup Nat

VARIABLES
    \* EchoServer
    pc,          \* where each thread is in run, or "dead" after System.exit
    serving,     \* the client of each thread
    result,      \* characters receiveIn has appended
    saddress,    \* static saddress: the address written last
    \* the network
    queue,       \* connections each ServerSocket has yet to accept
    sent,        \* what each client has sent
    taken,       \* how much of it the server's streams have read
    answer,      \* characters quoted by the answer on each connection
    conn,        \* the server's end: "open", "closed" or "reset"
    \* clients
    client,      \* "idle", "open", "reading", "done", "closed" or "reset"
    outcome      \* what EchoClient printed: the whole answer, or less

serverVars == <<pc, serving, result, saddress>>
netVars    == <<queue, sent, taken, answer, conn>>
vars == <<serverVars, netVars, client, outcome>>

PcStates == {"start", "accept", "receive", "answer", "close", "dead"}

TypeOK ==
    /\ pc \in [Addresses -> PcStates]
    /\ serving \in [Addresses -> Clients \cup {None}]
    /\ \A a \in Addresses :
          /\ pc[a] \in {"receive", "answer", "close"} => serving[a] # None
          /\ pc[a] = "accept" => saddress # None
    /\ result \in [Addresses -> 0..MaxChars]
    /\ saddress \in Addresses \cup {None}
    /\ queue \in [Addresses -> Seq(Clients)]
    /\ sent \in [Clients -> Seq({"x", "nl"})]
    /\ taken \in [Clients -> Nat] /\ \A c \in Clients : taken[c] <= Len(sent[c])
    /\ answer \in [Clients -> 0..MaxChars \cup {None}]
    /\ conn \in [Clients -> {"open", "closed", "reset"}]
    /\ client \in [Clients -> {"idle", "open", "reading", "done", "closed", "reset"}]
    /\ outcome \in [Clients -> {"none", "whole", "less"}]

Init ==
    /\ pc = [a \in Addresses |-> "start"]
    /\ serving = [a \in Addresses |-> None]
    /\ result = [a \in Addresses |-> 0]
    /\ saddress = None
    /\ queue = [a \in Addresses |-> <<>>]
    /\ sent = [c \in Clients |-> <<>>]
    /\ taken = [c \in Clients |-> 0]
    /\ answer = [c \in Clients |-> None]
    /\ conn = [c \in Clients |-> "open"]
    /\ client = [c \in Clients |-> "idle"]
    /\ outcome = [c \in Clients |-> "none"]

Dead == \E a \in Addresses : pc[a] = "dead"

\* What a client has sent and the server has not read.
Unread(c) == SubSeq(sent[c], taken[c] + 1, Len(sent[c]))

\* The place of the first line end, 0 if there is none.
LineEnd(s) == SelectInSeq(s, LAMBDA t : t = "nl")

\* Characters before it.
LineLength(s) == IF LineEnd(s) = 0 THEN Len(s) ELSE LineEnd(s) - 1

Lesser(m, n) == IF m < n THEN m ELSE n

-----------------------------------------------------------------------------
(* EchoServer.run, in the thread of address a. *)

\* Mutant: the thread waits for its turn to serve.
Accept_Synchronized(a) ==
    /\ pc[a] = "accept" /\ queue[a] # <<>>
    /\ \A b \in Addresses : serving[b] = None
    /\ serving' = [serving EXCEPT ![a] = Head(queue[a])]
    /\ queue' = [queue EXCEPT ![a] = Tail(@)]
    /\ result' = [result EXCEPT ![a] = 0]
    /\ pc' = [pc EXCEPT ![a] = "receive"]
    /\ UNCHANGED <<saddress, sent, taken, answer, conn, client, outcome>>

Start(a) ==
    /\ pc[a] = "start"
    /\ saddress' = a
    /\ pc' = [pc EXCEPT ![a] = "accept"]
    /\ UNCHANGED <<serving, result, netVars, client, outcome>>

\* Mutant: one StringBuffer for all the clients of the thread.
Accept_KeepsBuffer(a) ==
    /\ pc[a] = "accept" /\ queue[a] # <<>>
    /\ serving' = [serving EXCEPT ![a] = Head(queue[a])]
    /\ queue' = [queue EXCEPT ![a] = Tail(@)]
    /\ pc' = [pc EXCEPT ![a] = "receive"]
    /\ UNCHANGED <<result, saddress, sent, taken, answer, conn, client, outcome>>

\* accept, the streams, and an empty StringBuffer.
Accept(a) ==
    /\ pc[a] = "accept" /\ queue[a] # <<>>
    /\ serving' = [serving EXCEPT ![a] = Head(queue[a])]
    /\ queue' = [queue EXCEPT ![a] = Tail(@)]
    /\ result' = [result EXCEPT ![a] = 0]
    /\ pc' = [pc EXCEPT ![a] = "receive"]
    /\ UNCHANGED <<saddress, sent, taken, answer, conn, client, outcome>>

\* An IOException from accept: System.exit(0) ends both threads, and with the
\* process every connection that is open or waits.
AcceptFails(a) ==
    /\ pc[a] = "accept"
    /\ pc' = [b \in Addresses |-> "dead"]
    /\ serving' = [b \in Addresses |-> None]
    /\ queue' = [b \in Addresses |-> <<>>]
    /\ conn' = [c \in Clients |->
                    IF conn[c] = "open" /\ client[c] # "idle" THEN "reset" ELSE conn[c]]
    /\ UNCHANGED <<result, saddress, sent, taken, answer, client, outcome>>

\* Mutant: one character more is appended before the length is looked at.
Fill_OneMore(a) ==
    LET c == serving[a]
        room == MaxChars + 1 - result[a]
    IN  /\ pc[a] = "receive"
        /\ \E n \in 1..MaxChars :
              /\ n <= Len(Unread(c))
              /\ LET chunk == SubSeq(Unread(c), 1, n)
                 IN  /\ result' = [result EXCEPT ![a] = @ + Lesser(LineLength(chunk), room)]
                     /\ pc' = [pc EXCEPT ![a] =
                            IF LineEnd(chunk) # 0 \/ result'[a] > MaxChars
                            THEN "answer" ELSE "receive"]
              /\ taken' = [taken EXCEPT ![c] = @ + n]
        /\ UNCHANGED <<serving, saddress, queue, sent, answer, conn, client, outcome>>

\* The stream reads what has arrived, at most its buffer full, and receiveIn
\* appends from it until a line end or MAXCHARS characters.  What is left in
\* the buffer then is never looked at.
Fill(a) ==
    LET c == serving[a]
        room == MaxChars - result[a]
    IN  /\ pc[a] = "receive"
        /\ \E n \in 1..MaxChars :
              /\ n <= Len(Unread(c))
              /\ LET chunk == SubSeq(Unread(c), 1, n)
                 IN  /\ result' = [result EXCEPT ![a] = @ + Lesser(LineLength(chunk), room)]
                     /\ pc' = [pc EXCEPT ![a] =
                            IF LineEnd(chunk) # 0 \/ result'[a] = MaxChars
                            THEN "answer" ELSE "receive"]
              /\ taken' = [taken EXCEPT ![c] = @ + n]
        /\ UNCHANGED <<serving, saddress, queue, sent, answer, conn, client, outcome>>

\* Mutant: receiveIn waits for a line end even if the client has hung up.
ReceiveEnd_NotAtEof(a) ==
    /\ pc[a] = "receive"
    /\ client[serving[a]] = "reset"
    /\ pc' = [pc EXCEPT ![a] = "answer"]
    /\ UNCHANGED <<serving, result, saddress, netVars, client, outcome>>

\* End of file, or an exception that receiveIn reports and swallows: the
\* characters read so far are the message.
ReceiveEnd(a) ==
    /\ pc[a] = "receive"
    /\ \/ client[serving[a]] = "closed" /\ Unread(serving[a]) = <<>>
       \/ client[serving[a]] = "reset"
    /\ pc' = [pc EXCEPT ![a] = "answer"]
    /\ UNCHANGED <<serving, result, saddress, netVars, client, outcome>>

\* sendOut; its exceptions are swallowed too, and then nothing was sent.
SendReply(a) ==
    /\ pc[a] = "answer"
    /\ IF client[serving[a]] = "reset" THEN answer' = answer
       ELSE answer' = [answer EXCEPT ![serving[a]] = result[a]]
    /\ pc' = [pc EXCEPT ![a] = "close"]
    /\ UNCHANGED <<serving, result, saddress, queue, sent, taken, conn, client, outcome>>

\* Mutant: the socket is closed with a linger time of zero.
CloseSocket_NoLinger(a) ==
    /\ pc[a] = "close"
    /\ conn' = [conn EXCEPT ![serving[a]] = "reset"]
    /\ serving' = [serving EXCEPT ![a] = None]
    /\ pc' = [pc EXCEPT ![a] = "accept"]
    /\ UNCHANGED <<result, saddress, queue, sent, taken, answer, client, outcome>>

\* out.close at the end of sendOut, or client.close after an exception.  The
\* kernel resets a connection closed before all that the client sent was read.
CloseSocket(a) ==
    /\ pc[a] = "close"
    /\ conn' = [conn EXCEPT ![serving[a]] =
                    IF Unread(serving[a]) = <<>> THEN "closed" ELSE "reset"]
    /\ serving' = [serving EXCEPT ![a] = None]
    /\ pc' = [pc EXCEPT ![a] = "accept"]
    /\ UNCHANGED <<result, saddress, queue, sent, taken, answer, client, outcome>>

Thread(a) ==
    \/ Start(a) \/ Accept(a) \/ Fill(a) \/ ReceiveEnd(a)
    \/ SendReply(a) \/ CloseSocket(a)

-----------------------------------------------------------------------------
(* The clients. *)

\* The kernel connects a client while the accept queue has room for it; Linux
\* lets one more in than the backlog says.
Connect(c) ==
    LET a == Address[c]
    IN  /\ client[c] = "idle" /\ ~Dead
        /\ Len(queue[a]) <= Backlog
        /\ queue' = [queue EXCEPT ![a] = Append(@, c)]
        /\ client' = [client EXCEPT ![c] = "open"]
        /\ UNCHANGED <<serverVars, sent, taken, answer, conn, outcome>>

\* EchoClient.writeOut: the message, CR and LF.  If part of it meets a closed
\* connection, main says so and goes on to readIn as it does otherwise.
WriteOut(c) ==
    /\ c \in EchoClients /\ client[c] = "open"
    /\ \E m \in 0..MaxMessage :
          sent' = [sent EXCEPT ![c] = [i \in 1..m |-> "x"] \o <<"nl", "nl">>]
    /\ client' = [client EXCEPT ![c] = "reading"]
    /\ UNCHANGED <<serverVars, queue, taken, answer, conn, outcome>>

\* readIn returns at the line end of the answer, or at end of file or an
\* IOException before it.  A reset may destroy an answer not read yet.
ReadIn(c) ==
    /\ client[c] = "reading"
    /\ \/ answer[c] # None /\ outcome' = [outcome EXCEPT ![c] = "whole"]
       \/ conn[c] = "reset" /\ outcome' = [outcome EXCEPT ![c] = "less"]
    /\ client' = [client EXCEPT ![c] = "done"]
    /\ UNCHANGED <<serverVars, netVars>>

\* Other clients send what they like, hang up, or abort.
SendToken(c) ==
    /\ c \notin EchoClients /\ client[c] = "open"
    /\ Len(sent[c]) < MaxRaw
    /\ \E t \in {"x", "nl"} : sent' = [sent EXCEPT ![c] = Append(@, t)]
    /\ UNCHANGED <<serverVars, queue, taken, answer, conn, client, outcome>>

HangUp(c) ==
    /\ c \notin EchoClients /\ client[c] = "open"
    /\ client' = [client EXCEPT ![c] = "closed"]
    /\ UNCHANGED <<serverVars, netVars, outcome>>

Abort(c) ==
    /\ c \notin EchoClients /\ client[c] = "open"
    /\ client' = [client EXCEPT ![c] = "reset"]
    /\ UNCHANGED <<serverVars, netVars, outcome>>

Next ==
    \/ \E a \in Addresses : Thread(a) \/ AcceptFails(a)
    \/ \E c \in Clients :
          \/ Connect(c) \/ WriteOut(c) \/ ReadIn(c)
          \/ SendToken(c) \/ HangUp(c) \/ Abort(c)

\* Each thread runs, EchoClient goes on once it is connected, and cooperative
\* clients hang up.
Spec ==
    /\ Init /\ [][Next]_vars
    /\ \A a \in Addresses : WF_vars(Thread(a))
    /\ \A c \in EchoClients : WF_vars(WriteOut(c) \/ ReadIn(c))
    /\ \A c \in Cooperative : WF_vars(HangUp(c))

-----------------------------------------------------------------------------
(* Properties. *)

\* However the stream is cut into pieces, an answer quotes the first line the
\* client sent, cut at MAXCHARS (receiveIn 156-179), also where the client hung
\* up instead of ending the line.
AnswersTheLine ==
    \A c \in Clients : answer[c] # None =>
        answer[c] = Lesser(LineLength(sent[c]), MaxChars)

\* EchoClient misses its answer only because the process exited, or because the
\* server closed the connection before it had read all of what was sent: the
\* rest of a long line, or the LF after the CR where receiveIn stops.
LessCause ==
    \A c \in Clients : outcome[c] = "less" =>
        Dead \/ (conn[c] = "reset" /\ Unread(c) # <<>>)

\* The two addresses do not wait for each other: EchoClient comes to an end
\* whatever the clients of the other address do, if those of its own do not keep
\* its thread for ever (run 87-140, one thread for each address, 58-59).
AddressesIndependent ==
    \A c \in EchoClients :
        (\A d \in Clients : Address[d] = Address[c] => d \in EchoClients \cup Cooperative)
        => (client[c] = "open" ~> client[c] = "done")
=============================================================================
