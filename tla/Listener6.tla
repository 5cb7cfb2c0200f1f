----------------------------- MODULE Listener6 -----------------------------
(***************************************************************************)
(* Listener6 of CSharp-Server6: RunServer accepts a connection into the    *)
(* field clientSocket, starts a thread on HandleClientRequest, and sleeps  *)
(* half a second, whether or not the thread is done.  All threads share    *)
(* clientSocket, clientIEP and data, and read clientSocket anew at every   *)
(* use; an exception in any of them is unhandled and ends the process.     *)
(*                                                                         *)
(* A connection is named by the client that opens it, and a thread by the  *)
(* connection accepted just before it was started.  A client sends one     *)
(* message, which is named after it.                                       *)
(***************************************************************************)
EXTENDS Integers, Sequences, FiniteSets, SequencesExt

CONSTANTS
    Clients,    \* the clients; each opens at most one connection
    Backlog,    \* Constants.BACKLOG
    None        \* no connection, or no text

ASSUME ListenerAssumption ==
    /\ IsFiniteSet(Clients)
    /\ None \notin Clients
    /\ Backlog \in Nat

VARIABLES
    main,          \* where RunServer is
    clientSocket,  \* the field: the connection accepted last
    clientIEP,     \* the field: whose address it is
    data,          \* the field: whose message it holds
    pc,            \* where each thread is in HandleClientRequest
    endpoint,      \* line 67: the endpoint a thread read
    socket,        \* line 69: the socket a thread called Receive on
    received,      \* receiveData: whose message, or None for 0 bytes
    text,          \* rstring, then sstring: whose message it quotes
    greeting,      \* sstring: whose address it names
    closed,        \* connections the server closed
    queue,         \* connections Accept has yet to return
    client,        \* state of each client's end
    sent,          \* clients that sent their message
    \* history
    accepted,      \* connections in the order they were accepted
    overlapped,    \* threads that ran while another thread existed
    replies        \* what was sent on each connection, and by which thread

fields   == <<clientSocket, clientIEP, data>>
locals   == <<endpoint, socket, received, text, greeting>>
netVars  == <<queue, client, sent>>
histVars == <<accepted, overlapped>>
vars == <<main, fields, pc, locals, closed, netVars, histVars, replies>>

Steps == {"endpoint", "setIEP", "call", "receive", "copy", "string", "compose",
          "send", "close"}
Some == Clients \cup {None}

TypeOK ==
    /\ main \in {"accept", "announce", "start", "sleep", "dead"}
    /\ clientSocket \in Some
    /\ main \in {"announce", "start", "sleep"} => clientSocket \in Clients
    /\ clientIEP \in Some /\ data \in Some
    /\ pc \in [Clients -> Steps \cup {"none", "done"}]
    /\ \A f \in {endpoint, socket, received, text, greeting} : f \in [Clients -> Some]
    /\ closed \in SUBSET Clients /\ sent \in SUBSET Clients
    /\ queue \in Seq(Clients) /\ accepted \in Seq(Clients)
    /\ client \in [Clients -> {"idle", "open", "closed", "reset"}]
    /\ overlapped \in SUBSET Clients
    /\ replies \in [Clients -> SUBSET [by : Clients, greeting : Some, text : Some]]

Init ==
    /\ main = "accept"
    /\ clientSocket = None /\ clientIEP = None /\ data = None
    /\ pc = [c \in Clients |-> "none"]
    /\ endpoint = [c \in Clients |-> None]
    /\ socket = [c \in Clients |-> None]
    /\ received = [c \in Clients |-> None]
    /\ text = [c \in Clients |-> None]
    /\ greeting = [c \in Clients |-> None]
    /\ closed = {} /\ sent = {}
    /\ queue = <<>> /\ accepted = <<>>
    /\ client = [c \in Clients |-> "idle"]
    /\ overlapped = {}
    /\ replies = [c \in Clients |-> {}]

Alive   == main # "dead"
Threads == {c \in Clients : pc[c] \in Steps}

\* Clients whose message no thread has received; each thread receives once.
Unread == {c \in sent : \A h \in Clients : received[h] # c}

-----------------------------------------------------------------------------
(* RunServer. *)

\* An exception nobody catches: the runtime ends the process, and the kernel
\* closes its sockets.
Crash ==
    /\ main' = "dead"
    /\ pc' = [c \in Clients |-> IF pc[c] \in Steps THEN "done" ELSE pc[c]]
    /\ closed' = closed \cup ToSet(accepted)
    /\ client' = [c \in Clients |-> IF c \in ToSet(queue) THEN "reset" ELSE client[c]]
    /\ queue' = <<>>
    /\ UNCHANGED <<fields, locals, sent, histVars, replies>>

\* clientSocket = serverSocket.Accept().
Accept ==
    /\ main = "accept"
    /\ queue # <<>>
    /\ clientSocket' = Head(queue)
    /\ queue' = Tail(queue)
    /\ accepted' = Append(accepted, Head(queue))
    /\ overlapped' = IF Threads = {} THEN overlapped
                     ELSE overlapped \cup Threads \cup {Head(queue)}
    /\ main' = "announce"
    /\ UNCHANGED <<clientIEP, data, pc, locals, closed, client, sent, replies>>

\* The new connection's RemoteEndPoint is printed; an older thread may have
\* closed that connection already.
Announce ==
    /\ main = "announce"
    /\ clientSocket \notin closed
    /\ main' = "start"
    /\ UNCHANGED <<fields, pc, locals, closed, netVars, histVars, replies>>

AnnounceThrows ==
    /\ main = "announce"
    /\ clientSocket \in closed
    /\ Crash

\* t = new Thread(HandleClientRequest), t.Start().
StartThread ==
    /\ main = "start"
    /\ pc' = [pc EXCEPT ![clientSocket] = "endpoint"]
    /\ main' = "sleep"
    /\ UNCHANGED <<fields, locals, closed, netVars, histVars, replies>>

\* Mutant: t.Join() in the place of the sleep.
WakeUp_Joins ==
    /\ main = "sleep"
    /\ pc[clientSocket] = "done"
    /\ main' = "accept"
    /\ UNCHANGED <<fields, pc, locals, closed, netVars, histVars, replies>>

\* Thread.Sleep(500), over before or after the thread is.
WakeUp ==
    /\ main = "sleep"
    /\ main' = "accept"
    /\ UNCHANGED <<fields, pc, locals, closed, netVars, histVars, replies>>

RunServer == Accept \/ Announce \/ AnnounceThrows \/ StartThread \/ WakeUp

-----------------------------------------------------------------------------
(* HandleClientRequest, by thread h. *)

At(h, step) == Alive /\ pc[h] = step
Goto(h, step) == pc' = [pc EXCEPT ![h] = step]

\* Line 67: clientSocket.RemoteEndPoint is read, ...
ReadEndPoint(h) ==
    /\ At(h, "endpoint")
    /\ clientSocket \notin closed
    /\ endpoint' = [endpoint EXCEPT ![h] = clientSocket]
    /\ Goto(h, "setIEP")
    /\ UNCHANGED <<main, fields, socket, received, text, greeting, closed, netVars,
                   histVars, replies>>

\* Mutant: the thread also puts the connection it saw back into the field.
SetIEP_Restores(h) ==
    /\ At(h, "setIEP")
    /\ clientIEP' = endpoint[h]
    /\ clientSocket' = endpoint[h]
    /\ Goto(h, "call")
    /\ UNCHANGED <<main, data, locals, closed, netVars, histVars, replies>>

\* ... and assigned to clientIEP.
SetIEP(h) ==
    /\ At(h, "setIEP")
    /\ clientIEP' = endpoint[h]
    /\ Goto(h, "call")
    /\ UNCHANGED <<main, clientSocket, data, locals, closed, netVars, histVars, replies>>

\* Line 69: the socket Receive is called on is the one the field holds now.
CallReceive(h) ==
    /\ At(h, "call")
    /\ clientSocket \notin closed
    /\ socket' = [socket EXCEPT ![h] = clientSocket]
    /\ Goto(h, "receive")
    /\ UNCHANGED <<main, fields, endpoint, received, text, greeting, closed, netVars,
                   histVars, replies>>

\* Receive returns the message, or 0 bytes when the client closed its end.
Receive(h) ==
    /\ At(h, "receive")
    /\ socket[h] \notin closed
    /\ \/ /\ socket[h] \in Unread
          /\ received' = [received EXCEPT ![h] = socket[h]]
       \/ /\ socket[h] \notin Unread
          /\ client[socket[h]] = "closed"
          /\ UNCHANGED received
    /\ Goto(h, "copy")
    /\ UNCHANGED <<main, fields, endpoint, socket, text, greeting, closed, netVars,
                   histVars, replies>>

\* Mutant: source and destination of Array.Copy are swapped.
CopyData_Swapped(h) ==
    /\ At(h, "copy")
    /\ Goto(h, "string")
    /\ UNCHANGED <<main, fields, locals, closed, netVars, histVars, replies>>

\* Line 70: Array.Copy of rsize bytes to the shared data.
CopyData(h) ==
    /\ At(h, "copy")
    /\ data' = IF received[h] = None THEN data ELSE received[h]
    /\ Goto(h, "string")
    /\ UNCHANGED <<main, clientSocket, clientIEP, locals, closed, netVars, histVars, replies>>

\* Line 71: rstring is made of the first rsize bytes of data.
MakeString(h) ==
    /\ At(h, "string")
    /\ text' = [text EXCEPT ![h] = IF received[h] = None THEN None ELSE data]
    /\ Goto(h, "compose")
    /\ UNCHANGED <<main, fields, endpoint, socket, received, greeting, closed, netVars,
                   histVars, replies>>

\* Mutant: the socket is closed before the reply is sent.
Compose_ClosesFirst(h) ==
    /\ At(h, "compose")
    /\ greeting' = [greeting EXCEPT ![h] = clientIEP]
    /\ closed' = closed \cup {clientSocket}
    /\ Goto(h, "send")
    /\ UNCHANGED <<main, fields, endpoint, socket, received, text, netVars,
                   histVars, replies>>

\* Line 73: sstring names the client that clientIEP names now.
Compose(h) ==
    /\ At(h, "compose")
    /\ greeting' = [greeting EXCEPT ![h] = clientIEP]
    /\ Goto(h, "send")
    /\ UNCHANGED <<main, fields, endpoint, socket, received, text, closed, netVars,
                   histVars, replies>>

\* Line 76.
SendReply(h) ==
    /\ At(h, "send")
    /\ clientSocket \notin closed
    /\ client[clientSocket] # "reset"
    /\ replies' = [replies EXCEPT ![clientSocket] =
                      @ \cup {[by |-> h, greeting |-> greeting[h], text |-> text[h]]}]
    /\ Goto(h, "close")
    /\ UNCHANGED <<main, fields, locals, closed, netVars, histVars>>

\* Mutant: the field is set to null after the close.
CloseSocket_Nulls(h) ==
    /\ At(h, "close")
    /\ closed' = closed \cup {clientSocket}
    /\ clientSocket' = None
    /\ Goto(h, "done")
    /\ UNCHANGED <<main, clientIEP, data, locals, netVars, histVars, replies>>

\* Mutant: the socket is closed only if something was received.
CloseSocket_IfReceived(h) ==
    /\ At(h, "close")
    /\ closed' = IF received[h] = None THEN closed ELSE closed \cup {clientSocket}
    /\ Goto(h, "done")
    /\ UNCHANGED <<main, fields, locals, netVars, histVars, replies>>

\* Line 77: closing a closed socket is harmless.
CloseSocket(h) ==
    /\ At(h, "close")
    /\ closed' = closed \cup {clientSocket}
    /\ Goto(h, "done")
    /\ UNCHANGED <<main, fields, locals, netVars, histVars, replies>>

\* ObjectDisposedException: the socket was closed by another thread.  Receive
\* is also interrupted by a close that comes while it waits.
UsesClosed(h) ==
    /\ \/ At(h, "endpoint") /\ clientSocket \in closed
       \/ At(h, "call") /\ clientSocket \in closed
       \/ At(h, "receive") /\ socket[h] \in closed
       \/ At(h, "send") /\ clientSocket \in closed
    /\ Crash

\* SocketException: the client reset the connection.
MeetsReset(h) ==
    /\ \/ At(h, "receive") /\ socket[h] \notin Unread /\ client[socket[h]] = "reset"
       \/ At(h, "send") /\ client[clientSocket] = "reset"
    /\ Crash

HandleClientRequest(h) ==
    \/ ReadEndPoint(h) \/ SetIEP(h) \/ CallReceive(h) \/ Receive(h)
    \/ CopyData(h) \/ MakeString(h) \/ Compose(h)
    \/ SendReply(h) \/ CloseSocket(h)
    \/ UsesClosed(h) \/ MeetsReset(h)

-----------------------------------------------------------------------------
(* Clients. *)

Connect(c) ==
    /\ Alive
    /\ client[c] = "idle"
    /\ Len(queue) <= Backlog
    /\ client' = [client EXCEPT ![c] = "open"]
    /\ queue' = Append(queue, c)
    /\ UNCHANGED <<main, fields, pc, locals, closed, sent, histVars, replies>>

SendMessage(c) ==
    /\ client[c] = "open"
    /\ c \notin sent
    /\ sent' = sent \cup {c}
    /\ UNCHANGED <<main, fields, pc, locals, closed, queue, client, histVars, replies>>

CloseClient(c) ==
    /\ client[c] = "open"
    /\ client' = [client EXCEPT ![c] = "closed"]
    /\ UNCHANGED <<main, fields, pc, locals, closed, queue, sent, histVars, replies>>

ResetClient(c) ==
    /\ client[c] \in {"open", "closed"}
    /\ client' = [client EXCEPT ![c] = "reset"]
    /\ UNCHANGED <<main, fields, pc, locals, closed, queue, sent, histVars, replies>>

Client(c) == Connect(c) \/ SendMessage(c) \/ CloseClient(c) \/ ResetClient(c)

Next ==
    \/ RunServer
    \/ \E h \in Clients : HandleClientRequest(h)
    \/ \E c \in Clients : Client(c)

Spec == Init /\ [][Next]_vars

\* The runtime schedules every thread that can run.
FairSpec ==
    /\ Spec
    /\ WF_vars(RunServer)
    /\ \A h \in Clients : WF_vars(HandleClientRequest(h))

-----------------------------------------------------------------------------
(* Properties. *)

Position(c) == CHOOSE i \in DOMAIN accepted : accepted[i] = c

\* A client whose thread met no other thread gets one reply, which names it
\* and quotes what it sent, and its connection is closed.
AloneServedRight ==
    \A c \in Clients : Alive /\ pc[c] = "done" /\ c \notin overlapped =>
        /\ replies[c] = {[by |-> c, greeting |-> c,
                           text |-> IF c \in sent THEN c ELSE None]}
        /\ c \in closed

\* The field only moves on: a thread that loses its connection to a later
\* accept answers on a connection accepted later, never earlier.
AnswersForward ==
    \A c \in Clients : \A r \in replies[c] : Position(r.by) <= Position(c)

\* The process dies of an exception only after two threads overlapped, or
\* because a client reset its connection.
CrashCause == ~Alive => overlapped # {} \/ \E c \in Clients : client[c] = "reset"

\* With every thread done, the connections left open are ones that overlapped.
LeakCause ==
    Alive /\ main = "accept" /\ Threads = {} => ToSet(accepted) \ closed \subseteq overlapped

\* A waiting connection is accepted, however silent the accepted ones are.
QueueDrains == \A c \in Clients : c \in ToSet(queue) ~> c \notin ToSet(queue)
=============================================================================
