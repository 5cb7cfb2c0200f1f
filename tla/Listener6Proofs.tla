-------------------------- MODULE Listener6Proofs --------------------------
(***************************************************************************)
(* Proofs about Listener6, for any finite set of clients and any backlog.  *)
(***************************************************************************)
EXTENDS Listener6, SequenceTheorems, TLAPS

Accepted == {accepted[i] : i \in 1..Len(accepted)}
Queued   == {queue[i] : i \in 1..Len(queue)}

\* A thread exists only once the field has been set.
SocketKnown == (\E c \in Clients : pc[c] # "none") => clientSocket \in Clients

TypeInv == TypeOK /\ SocketKnown

\* A connection is queued and accepted once, and the field holds the last one.
OrderInv ==
    /\ \A i, j \in 1..Len(accepted) : accepted[i] = accepted[j] => i = j
    /\ \A i, j \in 1..Len(queue) : queue[i] = queue[j] => i = j
    /\ Queued \cap Accepted = {}
    /\ \A c \in Queued \cup Accepted : client[c] # "idle"
    /\ IF accepted = <<>> THEN clientSocket = None
                          ELSE clientSocket = accepted[Len(accepted)]

\* Every accepted connection has its thread, but for the one RunServer is at.
StartInv ==
    /\ \A c \in Clients : pc[c] # "none" => c \in Accepted
    /\ \A c \in Clients : pc[c] = "none" => received[c] = None
    /\ main \in {"announce", "start"} => pc[clientSocket] = "none"
    /\ Alive => \A c \in Accepted :
                   pc[c] = "none" => c = clientSocket /\ main \in {"announce", "start"}
    /\ closed \subseteq Accepted

\* A thread whose connection is not in the field met the thread of the one
\* that is, and so did any thread that another one received for.
OverlapInv ==
    /\ \A g \in Threads : g # clientSocket => {g, clientSocket} \subseteq overlapped
    /\ \A g \in Clients : socket[g] \in {None, g} \cup overlapped
    /\ \A g \in Clients : received[g] \in {None, g} \cup overlapped

ForwardInv ==
    \A c \in Clients : \A r \in replies[c] : \E i, j \in 1..Len(accepted) :
        i <= j /\ accepted[i] = r.by /\ accepted[j] = c

Quoted(h)   == IF h \in sent THEN h ELSE None
Answered(h) == {[by |-> h, greeting |-> h, text |-> Quoted(h)]}

\* What a thread that meets no other has read, step by step.
Alone(h) ==
    /\ pc[h] = "done" <=> h \in closed
    /\ pc[h] \in {"none", "endpoint", "setIEP", "call", "receive"} => received[h] = None
    /\ pc[h] = "setIEP" => endpoint[h] = h
    /\ pc[h] \in {"call", "receive", "copy", "string", "compose"} => clientIEP = h
    /\ pc[h] = "receive" => socket[h] = h
    /\ pc[h] \in {"copy", "string", "compose", "send", "close", "done"} =>
           h \in sent \/ client[h] \in {"closed", "reset"}
    /\ pc[h] \in {"copy", "string"} => received[h] = Quoted(h)
    /\ pc[h] = "string" /\ h \in sent => data = h
    /\ pc[h] \in {"compose", "send", "close"} => text[h] = Quoted(h)
    /\ pc[h] \in {"send", "close"} => greeting[h] = h
    /\ replies[h] = IF pc[h] \in {"close", "done"} THEN Answered(h) ELSE {}

AloneInv == Alive => \A h \in Accepted \ overlapped : Alone(h)

IInv == TypeInv /\ OrderInv /\ StartInv /\ OverlapInv /\ ForwardInv /\ AloneInv /\ CrashCause

(***************************************************************************)
(* Types.                                                                  *)
(***************************************************************************)

\* The end of the process keeps the types.
LEMMA CrashType ==
  ASSUME TypeInv, Crash
  PROVE  TypeInv'
<1> USE DEF TypeInv, TypeOK, SocketKnown, Crash, fields, locals, histVars
<1>1. closed' \in SUBSET Clients
  BY DEF ToSet
<1>2. pc' \in [Clients -> Steps \cup {"none", "done"}]
  OBVIOUS
<1>3. client' \in [Clients -> {"idle", "open", "closed", "reset"}]
  OBVIOUS
<1>4. queue' \in Seq(Clients)
  OBVIOUS
<1>5. \A c \in Clients : pc'[c] # "none" => pc[c] # "none"
  BY DEF Steps
<1>6. QED
  BY <1>1, <1>2, <1>3, <1>4, <1>5

\* Every step of RunServer keeps the types.
LEMMA ServerType ==
  ASSUME TypeInv, RunServer
  PROVE  TypeInv'
<1> USE DEF TypeInv, TypeOK, SocketKnown, fields, locals, netVars, histVars
<1>1. CASE Accept
  <2>1. /\ clientSocket' \in Clients
        /\ queue' \in Seq(Clients)
        /\ accepted' \in Seq(Clients)
    BY <1>1 DEF Accept
  <2>2. overlapped' \in SUBSET Clients
    BY <1>1, <2>1 DEF Accept, Threads
  <2>3. QED
    BY <1>1, <2>1, <2>2 DEF Accept, Some
<1>2. CASE Announce
  BY <1>2 DEF Announce
<1>3. CASE AnnounceThrows
  BY <1>3, CrashType DEF AnnounceThrows
<1>4. CASE StartThread
  BY <1>4 DEF StartThread, Steps
<1>5. CASE WakeUp
  BY <1>5 DEF WakeUp
<1>6. QED
  BY <1>1, <1>2, <1>3, <1>4, <1>5 DEF RunServer

\* Every step of a thread keeps the types.
LEMMA ThreadType ==
  ASSUME TypeInv, NEW h \in Clients, HandleClientRequest(h)
  PROVE  TypeInv'
<1> USE DEF TypeInv, TypeOK, SocketKnown, fields, locals, netVars, histVars, At, Goto,
            Steps, Some
<1>1. CASE ReadEndPoint(h)
  BY <1>1 DEF ReadEndPoint
<1>2. CASE SetIEP(h)
  BY <1>2 DEF SetIEP
<1>3. CASE CallReceive(h)
  BY <1>3 DEF CallReceive
<1>4. CASE Receive(h)
  <2>1. received' \in [Clients -> Some]
    BY <1>4 DEF Receive, Unread
  <2>2. /\ UNCHANGED <<main, clientSocket, clientIEP, data, endpoint, socket, text,
                       greeting, closed, queue, client, sent, accepted, overlapped,
                       replies>>
        /\ pc[h] # "none" /\ pc' = [pc EXCEPT ![h] = "copy"]
    BY <1>4 DEF Receive
  <2>3. QED
    BY <2>1, <2>2
<1>5. CASE CopyData(h)
  BY <1>5 DEF CopyData
<1>6. CASE MakeString(h)
  BY <1>6 DEF MakeString
<1>7. CASE Compose(h)
  BY <1>7 DEF Compose
<1>8. CASE SendReply(h)
  <2>1. replies' \in [Clients -> SUBSET [by : Clients, greeting : Some, text : Some]]
    BY <1>8 DEF SendReply
  <2>2. QED
    BY <1>8, <2>1 DEF SendReply
<1>9. CASE CloseSocket(h)
  BY <1>9 DEF CloseSocket
<1>10. CASE UsesClosed(h) \/ MeetsReset(h)
  BY <1>10, CrashType DEF UsesClosed, MeetsReset
<1>11. QED
  BY <1>1, <1>2, <1>3, <1>4, <1>5, <1>6, <1>7, <1>8, <1>9, <1>10 DEF HandleClientRequest

\* Every step of a client keeps the types.
LEMMA ClientType ==
  ASSUME TypeInv, NEW c \in Clients, Client(c)
  PROVE  TypeInv'
<1> USE DEF TypeInv, TypeOK, SocketKnown, fields, locals, netVars, histVars
<1>1. CASE Connect(c)
  BY <1>1 DEF Connect
<1>2. CASE SendMessage(c)
  BY <1>2 DEF SendMessage
<1>3. CASE CloseClient(c) \/ ResetClient(c)
  BY <1>3 DEF CloseClient, ResetClient
<1>4. QED
  BY <1>1, <1>2, <1>3 DEF Client

\* The types hold in every state of the listener, its threads and its clients.
THEOREM TypeCorrect == Spec => []TypeOK
<1>1. Init => TypeInv
  BY ListenerAssumption DEF Init, TypeInv, TypeOK, SocketKnown, Some
<1>2. TypeInv /\ [Next]_vars => TypeInv'
  <2>1. CASE UNCHANGED vars
    BY <2>1 DEF vars, fields, locals, netVars, histVars, TypeInv, TypeOK, SocketKnown
  <2>2. QED
    BY <2>1, ServerType, ThreadType, ClientType DEF Next
<1>3. TypeInv => TypeOK
  BY DEF TypeInv
<1>4. QED
  BY <1>1, <1>2, <1>3, PTL DEF Spec

(***************************************************************************)
(* The order of connections.                                               *)
(***************************************************************************)

\* What Accept does to the history.
LEMMA AcceptAppends ==
  ASSUME TypeInv, Accept
  PROVE  /\ 1 \in 1..Len(queue) /\ queue[1] \in Clients /\ clientSocket' = queue[1]
         /\ Len(accepted) \in Nat /\ Len(accepted') = Len(accepted) + 1
         /\ accepted'[Len(accepted) + 1] = queue[1]
         /\ \A i \in 1..Len(accepted) : accepted'[i] = accepted[i]
         /\ Accepted' = Accepted \cup {queue[1]}
<1>1. queue # <<>> /\ queue \in Seq(Clients) /\ accepted \in Seq(Clients)
  BY DEF TypeInv, TypeOK, Accept
<1>2. 1 \in 1..Len(queue) /\ queue[1] \in Clients /\ Head(queue) = queue[1]
  BY <1>1
<1>3. clientSocket' = queue[1] /\ accepted' = Append(accepted, queue[1])
  BY <1>2 DEF Accept
<1>4. /\ Len(accepted) \in Nat /\ Len(accepted') = Len(accepted) + 1
      /\ accepted'[Len(accepted) + 1] = queue[1]
      /\ \A i \in 1..Len(accepted) : accepted'[i] = accepted[i]
  BY <1>1, <1>2, <1>3
<1>5. 1..Len(accepted') = (1..Len(accepted)) \cup {Len(accepted) + 1}
  BY <1>4
<1>6. Accepted' = Accepted \cup {queue[1]}
  BY <1>4, <1>5 DEF Accepted
<1>7. QED
  BY <1>2, <1>3, <1>4, <1>6

\* The field holds an accepted connection once it holds one.
LEMMA FieldAccepted ==
  ASSUME TypeInv, OrderInv
  PROVE  /\ Accepted \subseteq Clients
         /\ clientSocket \in Clients => clientSocket \in Accepted
<1>1. accepted \in Seq(Clients)
  BY DEF TypeInv, TypeOK
<1>2. Accepted \subseteq Clients
  BY <1>1 DEF Accepted
<1>3. clientSocket \in Clients =>
        Len(accepted) \in 1..Len(accepted) /\ clientSocket = accepted[Len(accepted)]
  BY <1>1, ListenerAssumption DEF OrderInv
<1>4. QED
  BY <1>2, <1>3 DEF Accepted

\* Only Accept, Connect and a crash change who is queued or accepted.
LEMMA OrderFrame ==
  ASSUME TypeInv, OrderInv, UNCHANGED <<accepted, queue, clientSocket>>,
         \A c \in Clients : client'[c] = "idle" => client[c] = "idle"
  PROVE  OrderInv'
<1>1. Queued' = Queued /\ Accepted' = Accepted
  BY DEF Queued, Accepted
<1>2. Queued \cup Accepted \subseteq Clients
  BY DEF Queued, Accepted, TypeInv, TypeOK
<1>3. QED
  BY <1>1, <1>2 DEF OrderInv

LEMMA OrderAccept ==
  ASSUME TypeInv, OrderInv, Accept
  PROVE  OrderInv'
<1>1. /\ Len(queue) \in Nat /\ Len(queue') = Len(queue) - 1
      /\ \A i \in 1..Len(queue') : i + 1 \in 2..Len(queue) /\ queue'[i] = queue[i + 1]
  BY DEF Accept, TypeInv, TypeOK
<1>2. queue[1] \in Queued /\ queue[1] \notin Accepted
  BY AcceptAppends DEF Queued, OrderInv
<1>3. \A i, j \in 1..Len(accepted') : accepted'[i] = accepted'[j] => i = j
  <2> TAKE i, j \in 1..Len(accepted')
  <2>1. i \in 1..Len(accepted) \/ i = Len(accepted) + 1
    BY AcceptAppends
  <2>2. j \in 1..Len(accepted) \/ j = Len(accepted) + 1
    BY AcceptAppends
  <2>3. \A k \in 1..Len(accepted) : accepted'[k] \in Accepted /\ accepted'[k] # queue[1]
    BY AcceptAppends, <1>2 DEF Accepted
  <2>4. i \in 1..Len(accepted) /\ j \in 1..Len(accepted) /\ accepted'[i] = accepted'[j]
          => i = j
    BY AcceptAppends DEF OrderInv
  <2>5. QED
    BY <2>1, <2>2, <2>3, <2>4, AcceptAppends
<1>4. \A i, j \in 1..Len(queue') : queue'[i] = queue'[j] => i = j
  <2> TAKE i, j \in 1..Len(queue')
  <2>1. i + 1 \in 1..Len(queue) /\ j + 1 \in 1..Len(queue)
    BY <1>1
  <2>2. queue'[i] = queue'[j] => i + 1 = j + 1
    BY <1>1, <2>1 DEF OrderInv
  <2>3. QED
    BY <2>2
<1>5. Queued' \subseteq Queued \ {queue[1]}
  <2> SUFFICES ASSUME NEW i \in 1..Len(queue')
               PROVE  queue'[i] \in Queued \ {queue[1]}
    BY DEF Queued
  <2>1. i + 1 \in 1..Len(queue) /\ i + 1 # 1 /\ queue'[i] = queue[i + 1]
    BY <1>1
  <2>2. queue[i + 1] # queue[1]
    BY <2>1, AcceptAppends DEF OrderInv
  <2>3. QED
    BY <2>1, <2>2 DEF Queued
<1>6. Queued' \cap Accepted' = {}
  BY <1>5, AcceptAppends DEF OrderInv
<1>7. \A c \in Queued' \cup Accepted' : client'[c] # "idle"
  <2>1. client' = client
    BY DEF Accept
  <2>2. Queued' \cup Accepted' \subseteq Queued \cup Accepted
    BY <1>2, <1>5, AcceptAppends
  <2>3. QED
    BY <2>1, <2>2 DEF OrderInv
<1>8. accepted' # <<>> /\ clientSocket' = accepted'[Len(accepted')]
  <2>1. Len(accepted') # 0
    BY AcceptAppends
  <2>2. QED
    BY <2>1, AcceptAppends
<1>9. QED
  BY <1>3, <1>4, <1>6, <1>7, <1>8 DEF OrderInv

LEMMA OrderConnect ==
  ASSUME TypeInv, OrderInv, NEW c \in Clients, Connect(c)
  PROVE  OrderInv'
<1>1. /\ client[c] = "idle" /\ client' = [client EXCEPT ![c] = "open"]
      /\ queue' = Append(queue, c) /\ UNCHANGED <<accepted, clientSocket>>
      /\ queue \in Seq(Clients)
  BY DEF Connect, fields, histVars, TypeInv, TypeOK
<1>2. /\ Len(queue) \in Nat /\ Len(queue') = Len(queue) + 1
      /\ queue'[Len(queue) + 1] = c
      /\ \A i \in 1..Len(queue) : queue'[i] = queue[i]
  BY <1>1
<1>3. Accepted' = Accepted
  BY <1>1 DEF Accepted
<1>4. Queued' = Queued \cup {c}
  <2>1. 1..Len(queue') = (1..Len(queue)) \cup {Len(queue) + 1}
    BY <1>2
  <2>2. QED
    BY <2>1, <1>2 DEF Queued
<1>5. c \notin Queued \cup Accepted
  BY <1>1 DEF OrderInv
<1>6. \A i, j \in 1..Len(queue') : queue'[i] = queue'[j] => i = j
  <2> TAKE i, j \in 1..Len(queue')
  <2>1. i \in 1..Len(queue) \/ i = Len(queue) + 1
    BY <1>2
  <2>2. j \in 1..Len(queue) \/ j = Len(queue) + 1
    BY <1>2
  <2>3. \A k \in 1..Len(queue) : queue'[k] # c
    BY <1>2, <1>5 DEF Queued
  <2>4. i \in 1..Len(queue) /\ j \in 1..Len(queue) /\ queue'[i] = queue'[j] => i = j
    BY <1>2 DEF OrderInv
  <2>5. QED
    BY <2>1, <2>2, <2>3, <2>4, <1>2
<1>7. \A d \in Queued' \cup Accepted' : client'[d] # "idle"
  <2>1. Queued' \cup Accepted' \subseteq Clients
    BY <1>1, <1>3, <1>4, FieldAccepted DEF Queued
  <2>2. client \in [Clients -> {"idle", "open", "closed", "reset"}]
    BY DEF TypeInv, TypeOK
  <2>3. QED
    BY <1>1, <1>3, <1>4, <2>1, <2>2 DEF OrderInv
<1>8. QED
  BY <1>1, <1>3, <1>4, <1>5, <1>6, <1>7 DEF OrderInv

LEMMA OrderCrash ==
  ASSUME TypeInv, OrderInv, Crash
  PROVE  OrderInv'
<1>1. queue' = <<>> /\ UNCHANGED <<accepted, clientSocket>>
  BY DEF Crash, fields, histVars
<1>2. Queued' = {} /\ Accepted' = Accepted
  BY <1>1 DEF Queued, Accepted
<1>3. \A c \in Accepted : client'[c] # "idle"
  BY FieldAccepted DEF Crash, OrderInv
<1>4. QED
  BY <1>1, <1>2, <1>3 DEF OrderInv

\* OrderInv is kept: a connection enters the queue when its client is idle,
\* and leaves it only to be accepted.
LEMMA OrderStep ==
  ASSUME TypeInv, OrderInv, [Next]_vars
  PROVE  OrderInv'
<1> USE DEF fields, locals, netVars, histVars
<1>1. CASE Accept
  BY <1>1, OrderAccept
<1>2. CASE Announce \/ StartThread \/ WakeUp
  BY <1>2, OrderFrame DEF Announce, StartThread, WakeUp
<1>3. CASE AnnounceThrows
  BY <1>3, OrderCrash DEF AnnounceThrows
<1>4. ASSUME NEW h \in Clients, HandleClientRequest(h)
      PROVE  OrderInv'
  <2>1. CASE UsesClosed(h) \/ MeetsReset(h)
    BY <2>1, OrderCrash DEF UsesClosed, MeetsReset
  <2>2. CASE ReadEndPoint(h) \/ SetIEP(h) \/ CallReceive(h) \/ Receive(h)
    BY <2>2, OrderFrame DEF ReadEndPoint, SetIEP, CallReceive, Receive
  <2>3. CASE CopyData(h) \/ MakeString(h) \/ Compose(h)
    BY <2>3, OrderFrame DEF CopyData, MakeString, Compose
  <2>4. CASE SendReply(h) \/ CloseSocket(h)
    BY <2>4, OrderFrame DEF SendReply, CloseSocket
  <2>5. QED
    BY <1>4, <2>1, <2>2, <2>3, <2>4 DEF HandleClientRequest
<1>5. ASSUME NEW c \in Clients, Client(c)
      PROVE  OrderInv'
  <2>1. CASE Connect(c)
    BY <2>1, OrderConnect
  <2>2. CASE SendMessage(c)
    BY <2>2, OrderFrame DEF SendMessage
  <2>3. CASE CloseClient(c) \/ ResetClient(c)
    BY <2>3, OrderFrame DEF CloseClient, ResetClient, TypeInv, TypeOK
  <2>4. QED
    BY <1>5, <2>1, <2>2, <2>3 DEF Client
<1>6. CASE UNCHANGED vars
  BY <1>6, OrderFrame DEF vars
<1>7. QED
  BY <1>1, <1>2, <1>3, <1>4, <1>5, <1>6 DEF Next, RunServer

\* What a step of a thread that throws nothing may change of the threads, the
\* connections and the fields.
LEMMA ThreadSteps ==
  ASSUME TypeInv, NEW h \in Clients, HandleClientRequest(h),
         ~UsesClosed(h), ~MeetsReset(h)
  PROVE  /\ Alive /\ UNCHANGED <<main, clientSocket, queue, client, sent, accepted, overlapped>>
         /\ pc[h] \in Steps
         /\ \E step \in Steps \cup {"done"} : pc' = [pc EXCEPT ![h] = step]
         /\ closed' = closed \/ closed' = closed \cup {clientSocket}
<1> USE DEF TypeInv, TypeOK, fields, netVars, histVars, At, Goto, Steps
<1>1. CASE ReadEndPoint(h) \/ SetIEP(h) \/ CallReceive(h)
  BY <1>1 DEF ReadEndPoint, SetIEP, CallReceive, locals
<1>2. CASE Receive(h)
  BY <1>2 DEF Receive
<1>3. CASE CopyData(h) \/ MakeString(h) \/ Compose(h)
  BY <1>3 DEF CopyData, MakeString, Compose, locals
<1>4. CASE SendReply(h) \/ CloseSocket(h)
  BY <1>4 DEF SendReply, CloseSocket, locals
<1>5. QED
  BY <1>1, <1>2, <1>3, <1>4 DEF HandleClientRequest

\* A crash leaves no thread, and every accepted connection closed.
LEMMA CrashSteps ==
  ASSUME TypeInv, Crash
  PROVE  /\ main' = "dead" /\ UNCHANGED <<clientSocket, received, socket, accepted, overlapped,
                                        replies>>
         /\ Threads' = {} /\ Accepted' = Accepted
         /\ closed' = closed \cup Accepted
         /\ \A c \in Clients : pc'[c] = "none" <=> pc[c] = "none"
<1> USE DEF TypeInv, TypeOK, Crash, fields, locals, histVars
<1>1. accepted \in Seq(Clients) /\ accepted' = accepted
  OBVIOUS
<1>2. ToSet(accepted) = Accepted
  BY <1>1 DEF ToSet, Accepted
<1>3. Threads' = {}
  BY DEF Threads, Steps
<1>4. \A c \in Clients : pc'[c] = "none" <=> pc[c] = "none"
  BY DEF Steps
<1>5. Accepted' = Accepted
  BY <1>1 DEF Accepted
<1>6. QED
  BY <1>2, <1>3, <1>4, <1>5

\* Clients change nothing the threads and RunServer work on.
LEMMA ClientSteps ==
  ASSUME NEW c \in Clients, Client(c)
  PROVE  UNCHANGED <<main, clientSocket, clientIEP, data, pc, endpoint, socket, received, text,
                     greeting, closed, accepted, overlapped, replies>>
BY DEF Client, Connect, SendMessage, CloseClient, ResetClient, fields, locals, histVars

\* StartInv is kept: RunServer starts a thread before it accepts again.
LEMMA StartStep ==
  ASSUME TypeInv, OrderInv, StartInv, [Next]_vars
  PROVE  StartInv'
<1> USE DEF fields, locals, netVars, histVars, Alive
<1>1. CASE Accept
  <2>1. main = "accept" /\ main' = "announce" /\ UNCHANGED <<pc, closed, received>>
    BY <1>1 DEF Accept
  <2>2. queue[1] \in Queued /\ queue[1] \notin Accepted
    BY <1>1, AcceptAppends DEF Queued, OrderInv
  <2>3. pc[queue[1]] = "none"
    BY <1>1, <2>2, AcceptAppends DEF StartInv
  <2>4. QED
    BY <1>1, <2>1, <2>3, AcceptAppends DEF StartInv
<1>2. CASE Announce
  BY <1>2 DEF Announce, StartInv, Accepted
<1>3. CASE WakeUp
  BY <1>3 DEF WakeUp, StartInv, Accepted
<1>4. CASE StartThread
  <2>1. main = "start" /\ main' = "sleep" /\ clientSocket \in Clients
        /\ pc' = [pc EXCEPT ![clientSocket] = "endpoint"]
        /\ UNCHANGED <<clientSocket, received, closed, accepted>>
    BY <1>4 DEF StartThread, TypeInv, TypeOK
  <2>2. clientSocket \in Accepted /\ Accepted' = Accepted /\ Accepted \subseteq Clients
    BY <2>1, FieldAccepted DEF Accepted
  <2>3. pc \in [Clients -> Steps \cup {"none", "done"}]
    BY DEF TypeInv, TypeOK
  <2>4. QED
    BY <2>1, <2>2, <2>3 DEF StartInv
<1>5. ASSUME Crash
      PROVE  StartInv'
  BY <1>5, CrashSteps, FieldAccepted DEF StartInv
<1>6. ASSUME NEW h \in Clients, HandleClientRequest(h), ~UsesClosed(h), ~MeetsReset(h)
      PROVE  StartInv'
  <2>1. PICK step \in Steps \cup {"done"} : pc' = [pc EXCEPT ![h] = step]
    BY <1>6, ThreadSteps
  <2>2. /\ pc[h] \in Steps /\ UNCHANGED <<main, clientSocket, accepted>>
        /\ closed' = closed \/ closed' = closed \cup {clientSocket}
    BY <1>6, ThreadSteps
  <2>3. clientSocket \in Accepted /\ Accepted' = Accepted /\ Accepted \subseteq Clients
    BY <2>2, FieldAccepted DEF Accepted, Steps, TypeInv, SocketKnown
  <2>4. pc \in [Clients -> Steps \cup {"none", "done"}]
    BY DEF TypeInv, TypeOK
  <2>5. \A c \in Clients : pc'[c] = "none" <=> pc[c] = "none"
    BY <2>1, <2>2, <2>4 DEF Steps
  <2>6. received' = received \/ \E x : received' = [received EXCEPT ![h] = x]
    BY <1>6 DEF HandleClientRequest, ReadEndPoint, SetIEP, CallReceive, Receive, CopyData,
         MakeString, Compose, SendReply, CloseSocket
  <2>7. \A c \in Clients : pc[c] = "none" => received'[c] = None
    BY <2>2, <2>6 DEF StartInv, Steps, TypeInv, TypeOK
  <2>8. QED
    BY <2>2, <2>3, <2>5, <2>7 DEF StartInv
<1>7. ASSUME NEW c \in Clients, Client(c)
      PROVE  StartInv'
  BY <1>7, ClientSteps DEF StartInv, Accepted
<1>8. CASE UNCHANGED vars
  BY <1>8 DEF vars, StartInv, Accepted
<1>9. QED
  BY <1>1, <1>2, <1>3, <1>4, <1>5, <1>6, <1>7, <1>8
     DEF Next, RunServer, AnnounceThrows, UsesClosed, MeetsReset

\* OverlapInv is kept: a second thread overlaps the one whose connection the
\* field held, and the one whose connection it holds now.
LEMMA OverlapStep ==
  ASSUME TypeInv, OrderInv, StartInv, OverlapInv, [Next]_vars
  PROVE  OverlapInv'
<1> USE DEF fields, locals, netVars, histVars
<1>1. CASE Accept
  <2>1. /\ UNCHANGED <<pc, socket, received>>
        /\ overlapped \subseteq overlapped'
        /\ Threads # {} => Threads \cup {Head(queue)} \subseteq overlapped'
        /\ clientSocket' = Head(queue)
    BY <1>1 DEF Accept
  <2>2. Threads' = Threads
    BY <2>1 DEF Threads
  <2>3. QED
    BY <2>1, <2>2 DEF OverlapInv
<1>2. CASE Announce \/ WakeUp
  BY <1>2 DEF Announce, WakeUp, OverlapInv, Threads
<1>3. CASE StartThread
  <2>1. /\ UNCHANGED <<clientSocket, socket, received, overlapped>>
        /\ pc' = [pc EXCEPT ![clientSocket] = "endpoint"]
    BY <1>3 DEF StartThread
  <2>2. Threads' \subseteq Threads \cup {clientSocket}
    BY <2>1 DEF Threads, TypeInv, TypeOK
  <2>3. QED
    BY <2>1, <2>2 DEF OverlapInv
<1>4. ASSUME Crash
      PROVE  OverlapInv'
  BY <1>4, CrashSteps DEF OverlapInv
<1>5. ASSUME NEW h \in Clients, HandleClientRequest(h), ~UsesClosed(h), ~MeetsReset(h)
      PROVE  OverlapInv'
  <2>1. PICK step \in Steps \cup {"done"} : pc' = [pc EXCEPT ![h] = step]
    BY <1>5, ThreadSteps
  <2>2. h \in Threads /\ UNCHANGED <<clientSocket, overlapped>>
    BY <1>5, ThreadSteps DEF Threads
  <2>3. Threads' \subseteq Threads
    BY <2>1, <2>2 DEF Threads, TypeInv, TypeOK
  <2>4. clientSocket \in {h} \cup overlapped
    BY <2>2 DEF OverlapInv
  <2>5. \/ UNCHANGED <<socket, received>>
        \/ socket' = [socket EXCEPT ![h] = clientSocket] /\ received' = received
        \/ received' = [received EXCEPT ![h] = socket[h]] /\ socket' = socket
    BY <1>5 DEF HandleClientRequest, ReadEndPoint, SetIEP, CallReceive, Receive, CopyData,
         MakeString, Compose, SendReply, CloseSocket
  <2>6. \A g \in Clients : socket'[g] \in {None, g} \cup overlapped
    BY <2>4, <2>5 DEF OverlapInv, TypeInv, TypeOK
  <2>7. \A g \in Clients : received'[g] \in {None, g} \cup overlapped
    BY <2>5 DEF OverlapInv, TypeInv, TypeOK
  <2>8. QED
    BY <2>2, <2>3, <2>6, <2>7 DEF OverlapInv
<1>6. ASSUME NEW c \in Clients, Client(c)
      PROVE  OverlapInv'
  BY <1>6, ClientSteps DEF OverlapInv, Threads
<1>7. CASE UNCHANGED vars
  BY <1>7 DEF vars, OverlapInv, Threads
<1>8. QED
  BY <1>1, <1>2, <1>3, <1>4, <1>5, <1>6, <1>7
     DEF Next, RunServer, AnnounceThrows, UsesClosed, MeetsReset

\* ForwardInv is kept: a reply goes out on the connection accepted last.
LEMMA ForwardStep ==
  ASSUME TypeInv, OrderInv, StartInv, ForwardInv, [Next]_vars
  PROVE  ForwardInv'
<1> USE DEF fields, locals, netVars, histVars
<1>1. CASE Accept
  <2>1. replies' = replies
    BY <1>1 DEF Accept
  <2>2. \A i \in 1..Len(accepted) : i \in 1..Len(accepted') /\ accepted'[i] = accepted[i]
    BY <1>1, AcceptAppends
  <2>3. QED
    BY <2>1, <2>2 DEF ForwardInv
<1>2. ASSUME UNCHANGED <<accepted, replies>>
      PROVE  ForwardInv'
  BY <1>2 DEF ForwardInv
<1>3. CASE Announce \/ StartThread \/ WakeUp
  BY <1>2, <1>3 DEF Announce, StartThread, WakeUp
<1>4. ASSUME Crash
      PROVE  ForwardInv'
  BY <1>2, <1>4, CrashSteps
<1>5. ASSUME NEW h \in Clients, HandleClientRequest(h), ~UsesClosed(h), ~MeetsReset(h)
      PROVE  ForwardInv'
  <2>1. CASE SendReply(h)
    <3>1. PICK r : /\ r.by = h
                   /\ replies' = [replies EXCEPT ![clientSocket] = @ \cup {r}]
      BY <2>1 DEF SendReply
    <3>2. pc[h] # "none" /\ h \in Accepted /\ clientSocket \in Clients
      BY <1>5, ThreadSteps DEF Steps, StartInv, TypeInv, SocketKnown
    <3>3. /\ Len(accepted) \in 1..Len(accepted) /\ Len(accepted) \in Nat
          /\ accepted[Len(accepted)] = clientSocket
      BY <3>2, ListenerAssumption DEF OrderInv, TypeInv, TypeOK
    <3>4. PICK i \in 1..Len(accepted) : accepted[i] = h
      BY <3>2 DEF Accepted
    <3>5. i <= Len(accepted) /\ accepted' = accepted
      BY <2>1, <3>3 DEF SendReply
    <3>6. \A c \in Clients : \A q \in replies'[c] : q \in replies[c] \/ (q = r /\ c = clientSocket)
      <4>1. DOMAIN replies = Clients
        BY DEF TypeInv, TypeOK
      <4> TAKE c \in Clients
      <4>2. replies'[c] = IF c = clientSocket THEN replies[c] \cup {r} ELSE replies[c]
        BY <3>1, <4>1
      <4>3. QED
        BY <4>2
    <3>7. QED
      BY <3>1, <3>3, <3>4, <3>5, <3>6 DEF ForwardInv
  <2>2. CASE ~SendReply(h)
    <3>1. replies' = replies
      BY <1>5, <2>2 DEF HandleClientRequest, ReadEndPoint, SetIEP, CallReceive, Receive,
           CopyData, MakeString, Compose, CloseSocket
    <3>2. QED
      BY <1>2, <1>5, <3>1, ThreadSteps
  <2>3. QED
    BY <2>1, <2>2
<1>6. ASSUME NEW c \in Clients, Client(c)
      PROVE  ForwardInv'
  BY <1>2, <1>6, ClientSteps
<1>7. CASE UNCHANGED vars
  BY <1>2, <1>7 DEF vars
<1>8. QED
  BY <1>1, <1>3, <1>4, <1>5, <1>6, <1>7
     DEF Next, RunServer, AnnounceThrows, UsesClosed, MeetsReset

(***************************************************************************)
(* A thread that meets no other.                                           *)
(***************************************************************************)

\* While a thread runs, another one that met none is done, and its connection
\* is no longer the one in the field.
LEMMA Bystander ==
  ASSUME TypeInv, OrderInv, StartInv, OverlapInv, Alive,
         NEW g \in Threads, NEW h \in Accepted \ overlapped, h # g
  PROVE  pc[h] = "done" /\ h # clientSocket
<1>1. h # clientSocket
  BY DEF OverlapInv
<1>2. h \notin Threads
  BY <1>1 DEF OverlapInv
<1>3. h \in Clients
  BY FieldAccepted
<1>4. pc[h] # "none"
  BY <1>1 DEF StartInv
<1>5. QED
  BY <1>1, <1>2, <1>3, <1>4 DEF Threads, TypeInv, TypeOK

\* A step that leaves a thread and what it reads alone leaves Alone.
LEMMA AloneFrame ==
  ASSUME NEW h, Alone(h),
         UNCHANGED <<pc[h], endpoint[h], socket[h], received[h], text[h], greeting[h],
                     replies[h], clientIEP, data, closed, sent>>,
         client[h] \in {"closed", "reset"} => client'[h] \in {"closed", "reset"}
  PROVE  Alone(h)'
BY DEF Alone, Quoted, Answered

\* The steps of RunServer leave a thread alone, and start it on a clean slate.
LEMMA AloneServer ==
  ASSUME TypeInv, OrderInv, StartInv, OverlapInv, ForwardInv, AloneInv,
         Accept \/ Announce \/ StartThread \/ WakeUp
  PROVE  AloneInv'
<1> USE DEF fields, locals, netVars, histVars
<1>1. Alive /\ UNCHANGED <<endpoint, socket, received, text, greeting, replies, clientIEP,
                           data, closed, sent, client>>
  BY DEF Alive, Accept, Announce, StartThread, WakeUp
<1>2. CASE Accept
  <2>1. pc' = pc /\ overlapped \subseteq overlapped'
    BY <1>2 DEF Accept
  <2>2. ASSUME NEW h \in Accepted \ overlapped
        PROVE  Alone(h)'
    <3>1. Alone(h)
      BY <1>1 DEF AloneInv
    <3>2. QED
      BY <1>1, <2>1, <3>1, AloneFrame
  <2>3. ASSUME NEW h \in Clients, h \notin Accepted
        PROVE  Alone(h)'
    <3>1. pc[h] = "none" /\ h \notin closed /\ received[h] = None
      BY <2>3 DEF StartInv
    <3>2. replies[h] = {}
      BY <2>3 DEF ForwardInv, Accepted
    <3>3. QED
      BY <1>1, <2>1, <3>1, <3>2 DEF Alone
  <2>4. Accepted' \subseteq Accepted \cup Clients
    BY <1>2, AcceptAppends
  <2>5. QED
    BY <2>1, <2>2, <2>3, <2>4, FieldAccepted DEF AloneInv
<1>3. CASE Announce \/ WakeUp
  <2>1. UNCHANGED <<pc, overlapped, accepted>>
    BY <1>3 DEF Announce, WakeUp
  <2>2. ASSUME NEW h \in Accepted \ overlapped
        PROVE  Alone(h)'
    <3>1. Alone(h)
      BY <1>1 DEF AloneInv
    <3>2. QED
      BY <1>1, <2>1, <3>1, AloneFrame
  <2>3. QED
    BY <2>1, <2>2 DEF AloneInv, Accepted
<1>4. CASE StartThread
  <2>1. /\ pc' = [pc EXCEPT ![clientSocket] = "endpoint"]
        /\ main = "start" /\ UNCHANGED <<overlapped, accepted>>
    BY <1>4 DEF StartThread
  <2>2. ASSUME NEW h \in Accepted \ overlapped
        PROVE  Alone(h)'
    <3>1. Alone(h) /\ h \in Clients
      BY <1>1, FieldAccepted DEF AloneInv
    <3>2. CASE h = clientSocket
      <4>1. pc[h] = "none" /\ pc'[h] = "endpoint"
        BY <2>1, <3>1, <3>2 DEF StartInv, TypeInv, TypeOK
      <4>2. QED
        BY <1>1, <3>1, <4>1 DEF Alone
    <3>3. CASE h # clientSocket
      <4>1. pc'[h] = pc[h]
        BY <2>1, <3>1, <3>3 DEF TypeInv, TypeOK
      <4>2. QED
        BY <1>1, <3>1, <4>1, AloneFrame
    <3>4. QED
      BY <3>2, <3>3
  <2>3. QED
    BY <2>1, <2>2 DEF AloneInv, Accepted
<1>5. QED
  BY <1>2, <1>3, <1>4

\* A thread that meets no other reads its own connection at every step.
LEMMA AloneThread ==
  ASSUME TypeInv, OrderInv, StartInv, OverlapInv, AloneInv,
         NEW g \in Clients, HandleClientRequest(g), ~UsesClosed(g), ~MeetsReset(g)
  PROVE  AloneInv'
<1> USE DEF fields, locals, netVars, histVars
<1>1. /\ Alive /\ UNCHANGED <<main, clientSocket, client, sent, accepted, overlapped>>
      /\ g \in Threads
      /\ closed' = closed \/ closed' = closed \cup {clientSocket}
  BY ThreadSteps DEF Threads
<1>2. PICK step \in Steps \cup {"done"} : pc' = [pc EXCEPT ![g] = step]
  BY ThreadSteps
<1>3. /\ pc \in [Clients -> Steps \cup {"none", "done"}]
      /\ endpoint \in [Clients -> Some] /\ socket \in [Clients -> Some]
      /\ received \in [Clients -> Some] /\ text \in [Clients -> Some]
      /\ greeting \in [Clients -> Some]
      /\ DOMAIN replies = Clients
  BY DEF TypeInv, TypeOK
<1>4. SUFFICES ASSUME NEW h \in Accepted \ overlapped
               PROVE  Alone(h)'
  BY <1>1 DEF AloneInv, Accepted
<1>5. Alone(h) /\ h \in Clients
  BY <1>1, FieldAccepted DEF AloneInv
<1>6. CASE h # g
  <2>1. pc[h] = "done" /\ h # clientSocket
    BY <1>1, <1>6, Bystander
  <2>2. pc'[h] = "done"
    BY <1>2, <1>3, <1>5, <1>6, <2>1
  <2>3. replies' = replies \/ \E r : replies' = [replies EXCEPT ![clientSocket] = r]
    BY DEF HandleClientRequest, ReadEndPoint, SetIEP, CallReceive, Receive, CopyData,
       MakeString, Compose, SendReply, CloseSocket
  <2>4. replies'[h] = replies[h]
    BY <1>3, <1>5, <2>1, <2>3
  <2>5. QED
    BY <1>1, <1>5, <2>1, <2>2, <2>4 DEF Alone, Quoted, Answered
<1>7. CASE h = g
  <2>1. clientSocket = h /\ \A c \in Clients : received[c] = h => c = h
    <3>1. clientSocket = h
      BY <1>1, <1>7 DEF OverlapInv
    <3>2. h # None
      BY <1>5, ListenerAssumption
    <3>3. QED
      BY <3>1, <3>2 DEF OverlapInv
  <2>2. CASE ReadEndPoint(g)
    BY <1>3, <1>5, <1>7, <2>1, <2>2 DEF ReadEndPoint, At, Goto, Alone, Quoted, Answered
  <2>3. CASE SetIEP(g)
    BY <1>3, <1>5, <1>7, <2>1, <2>3 DEF SetIEP, At, Goto, Alone, Quoted, Answered
  <2>4. CASE CallReceive(g)
    BY <1>3, <1>5, <1>7, <2>1, <2>4 DEF CallReceive, At, Goto, Alone, Quoted, Answered
  <2>5. CASE Receive(g)
    <3>1. pc[h] = "receive" /\ pc'[h] = "copy" /\ socket[h] = h /\ received[h] = None
      BY <1>3, <1>5, <1>7, <2>5 DEF Receive, At, Goto, Alone
    <3>2. h \in Unread <=> h \in sent
      <4>1. h # None
        BY <1>5, ListenerAssumption
      <4>2. QED
        BY <2>1, <3>1, <4>1 DEF Unread
    <3>3. received'[h] = Quoted(h) /\ (h \in sent \/ client[h] \in {"closed", "reset"})
      BY <1>3, <1>5, <1>7, <2>5, <3>1, <3>2 DEF Receive, Quoted
    <3>4. UNCHANGED <<clientIEP, closed, replies, sent, client>>
      BY <2>5 DEF Receive
    <3>5. QED
      BY <1>5, <3>1, <3>3, <3>4 DEF Alone, Quoted
  <2>6. CASE CopyData(g)
    <3>1. h # None
      BY <1>5, ListenerAssumption
    <3>2. QED
      BY <1>3, <1>5, <1>7, <2>1, <2>6, <3>1 DEF CopyData, At, Goto, Alone, Quoted, Answered
  <2>7. CASE MakeString(g)
    <3>1. h # None
      BY <1>5, ListenerAssumption
    <3>2. QED
      BY <1>3, <1>5, <1>7, <2>1, <2>7, <3>1 DEF MakeString, At, Goto, Alone, Quoted, Answered
  <2>8. CASE Compose(g)
    BY <1>3, <1>5, <1>7, <2>1, <2>8 DEF Compose, At, Goto, Alone, Quoted, Answered
  <2>9. CASE SendReply(g)
    <3>1. /\ pc[h] = "send" /\ pc'[h] = "close"
          /\ UNCHANGED <<closed, sent, client, text, greeting>>
      BY <1>3, <1>5, <1>7, <2>9 DEF SendReply, At, Goto
    <3>2. greeting[h] = h /\ text[h] = Quoted(h) /\ replies[h] = {}
      BY <1>5, <3>1 DEF Alone
    <3>3. replies'[h] = Answered(h)
      BY <1>3, <1>5, <1>7, <2>1, <2>9, <3>2 DEF SendReply, Answered
    <3>4. QED
      BY <1>5, <3>1, <3>2, <3>3 DEF Alone, Quoted, Answered
  <2>10. CASE CloseSocket(g)
    BY <1>3, <1>5, <1>7, <2>1, <2>10 DEF CloseSocket, At, Goto, Alone, Quoted, Answered
  <2>11. QED
    BY <2>2, <2>3, <2>4, <2>5, <2>6, <2>7, <2>8, <2>9, <2>10 DEF HandleClientRequest
<1>8. QED
  BY <1>6, <1>7

\* A client that was answered, or that closed, sends nothing more.
LEMMA AloneClient ==
  ASSUME TypeInv, OrderInv, AloneInv, NEW c \in Clients, Client(c)
  PROVE  AloneInv'
<1>1. UNCHANGED <<main, clientSocket, clientIEP, data, pc, endpoint, socket, received, text,
                  greeting, closed, accepted, overlapped, replies>>
  BY ClientSteps
<1>2. client \in [Clients -> {"idle", "open", "closed", "reset"}]
  BY DEF TypeInv, TypeOK
<1>3. SUFFICES ASSUME Alive, NEW h \in Accepted \ overlapped
               PROVE  Alone(h)'
  BY <1>1 DEF AloneInv, Accepted, Alive
<1>4. Alone(h) /\ h \in Clients /\ client[h] # "idle"
  BY <1>3, FieldAccepted DEF AloneInv, OrderInv
<1>5. CASE SendMessage(c)
  <2>1. sent' = sent \cup {c} /\ client' = client /\ client[c] = "open" /\ c \notin sent
    BY <1>5 DEF SendMessage, netVars
  <2>2. CASE h = c
    <3>1. pc[h] \notin {"copy", "string", "compose", "send", "close", "done"}
      BY <1>4, <2>1, <2>2 DEF Alone
    <3>2. QED
      BY <1>1, <1>4, <2>1, <3>1 DEF Alone
  <2>3. CASE h # c
    <3>1. h \in sent' <=> h \in sent
      BY <2>1, <2>3
    <3>2. QED
      BY <1>1, <1>4, <2>1, <3>1 DEF Alone, Quoted, Answered
  <2>4. QED
    BY <2>2, <2>3
<1>6. CASE Connect(c)
  <2>1. sent' = sent /\ client' = [client EXCEPT ![c] = "open"] /\ h # c
    BY <1>4, <1>6 DEF Connect
  <2>2. client'[h] = client[h]
    BY <1>2, <1>4, <2>1
  <2>3. QED
    BY <1>1, <1>4, <2>1, <2>2, AloneFrame
<1>7. CASE CloseClient(c) \/ ResetClient(c)
  <2>1. sent' = sent /\ \E end \in {"closed", "reset"} : client' = [client EXCEPT ![c] = end]
    BY <1>7 DEF CloseClient, ResetClient
  <2>2. client[h] \in {"closed", "reset"} => client'[h] \in {"closed", "reset"}
    BY <1>2, <1>4, <2>1
  <2>3. QED
    BY <1>1, <1>4, <2>1, <2>2, AloneFrame
<1>8. QED
  BY <1>5, <1>6, <1>7 DEF Client

\* AloneInv is kept: a crash leaves nothing to show, and all else was above.
LEMMA AloneStep ==
  ASSUME TypeInv, OrderInv, StartInv, OverlapInv, ForwardInv, AloneInv, [Next]_vars
  PROVE  AloneInv'
<1>1. ASSUME Crash
      PROVE  AloneInv'
  BY <1>1, CrashSteps DEF AloneInv, Alive
<1>2. CASE RunServer
  BY <1>1, <1>2, AloneServer DEF RunServer, AnnounceThrows
<1>3. ASSUME NEW h \in Clients, HandleClientRequest(h)
      PROVE  AloneInv'
  BY <1>1, <1>3, AloneThread DEF UsesClosed, MeetsReset
<1>4. ASSUME NEW c \in Clients, Client(c)
      PROVE  AloneInv'
  BY <1>4, AloneClient
<1>5. CASE UNCHANGED vars
  <2>1. UNCHANGED <<main, pc, endpoint, socket, received, text, greeting, replies,
                    clientIEP, data, closed, sent, client, accepted, overlapped>>
    BY <1>5 DEF vars, fields, locals, netVars, histVars
  <2>2. ASSUME NEW h, Alone(h)
        PROVE  Alone(h)'
    BY <2>1, <2>2, AloneFrame
  <2>3. QED
    BY <2>1, <2>2 DEF AloneInv, Alive, Accepted
<1>6. QED
  BY <1>2, <1>3, <1>4, <1>5 DEF Next

\* Whoever throws overlapped another thread or met a reset.
LEMMA ThrowCause ==
  ASSUME TypeInv, OrderInv, StartInv, OverlapInv, AloneInv, overlapped = {},
         NEW h \in Clients, UsesClosed(h) \/ MeetsReset(h)
  PROVE  \E c \in Clients : client[c] = "reset"
<1>1. Alive /\ h \in Threads
  BY DEF UsesClosed, MeetsReset, At, Threads, Steps
<1>2. clientSocket = h
  BY <1>1 DEF OverlapInv
<1>3. h \in Accepted /\ h \notin closed
  <2>1. h \in Accepted
    BY <1>1 DEF Threads, Steps, StartInv
  <2>2. Alone(h)
    BY <1>1, <2>1 DEF AloneInv
  <2>3. QED
    BY <1>1, <2>1, <2>2 DEF Alone, Threads, Steps
<1>4. pc[h] = "receive" => socket[h] = h
  BY <1>1, <1>3 DEF AloneInv, Alone
<1>5. QED
  BY <1>2, <1>3, <1>4 DEF UsesClosed, MeetsReset, At

\* CrashCause is kept: nothing that caused the crash is taken back.
LEMMA CrashCauseStep ==
  ASSUME TypeInv, OrderInv, StartInv, OverlapInv, AloneInv, CrashCause, [Next]_vars
  PROVE  CrashCause'
<1> USE DEF fields, locals, netVars, histVars
<1>1. client \in [Clients -> {"idle", "open", "closed", "reset"}]
  BY DEF TypeInv, TypeOK
<1>2. ASSUME Crash, overlapped # {} \/ \E c \in Clients : client[c] = "reset"
      PROVE  CrashCause'
  <2>1. overlapped' = overlapped
    BY <1>2 DEF Crash
  <2>2. \A c \in Clients : client[c] = "reset" => client'[c] = "reset"
    BY <1>2 DEF Crash
  <2>3. QED
    BY <1>2, <2>1, <2>2 DEF CrashCause
<1>3. CASE AnnounceThrows
  <2>1. main = "announce" /\ clientSocket \in closed /\ Crash
    BY <1>3 DEF AnnounceThrows
  <2>2. clientSocket \in Accepted
    BY <2>1 DEF StartInv
  <2>3. pc[clientSocket] = "none" /\ Alive
    BY <2>1 DEF StartInv, Alive
  <2>4. clientSocket \in overlapped
    BY <2>1, <2>2, <2>3 DEF AloneInv, Alone
  <2>5. QED
    BY <1>2, <2>1, <2>4
<1>4. CASE Accept \/ Announce \/ StartThread \/ WakeUp
  <2>1. main' # "dead"
    BY <1>4 DEF Accept, Announce, StartThread, WakeUp
  <2>2. QED
    BY <2>1 DEF CrashCause, Alive
<1>5. ASSUME NEW h \in Clients, HandleClientRequest(h)
      PROVE  CrashCause'
  <2>1. CASE UsesClosed(h) \/ MeetsReset(h)
    <3>1. Crash
      BY <2>1 DEF UsesClosed, MeetsReset
    <3>2. overlapped # {} \/ \E c \in Clients : client[c] = "reset"
      BY <2>1, ThrowCause
    <3>3. QED
      BY <1>2, <3>1, <3>2
  <2>2. CASE ~UsesClosed(h) /\ ~MeetsReset(h)
    BY <1>5, <2>2, ThreadSteps DEF CrashCause, Alive
  <2>3. QED
    BY <2>1, <2>2
<1>6. ASSUME NEW c \in Clients, Client(c)
      PROVE  CrashCause'
  <2>1. main' = main /\ overlapped' = overlapped
    BY <1>6, ClientSteps
  <2>2. \A d \in Clients : client[d] = "reset" => client'[d] = "reset"
    BY <1>1, <1>6 DEF Client, Connect, SendMessage, CloseClient, ResetClient
  <2>3. QED
    BY <2>1, <2>2 DEF CrashCause, Alive
<1>7. CASE UNCHANGED vars
  BY <1>7 DEF vars, CrashCause, Alive
<1>8. QED
  BY <1>3, <1>4, <1>5, <1>6, <1>7 DEF Next, RunServer

\* The parts of the invariant hold together in every reachable state.
THEOREM Inductive == Spec => []IInv
<1>1. Init => IInv
  <2> SUFFICES ASSUME Init
               PROVE  IInv
    OBVIOUS
  <2>1. TypeInv
    BY ListenerAssumption DEF Init, TypeInv, TypeOK, SocketKnown, Some
  <2>2. OrderInv
    BY DEF Init, OrderInv, Accepted, Queued
  <2>3. StartInv
    BY DEF Init, StartInv, Accepted
  <2>4. OverlapInv
    BY DEF Init, OverlapInv, Threads, Steps
  <2>5. ForwardInv
    BY DEF Init, ForwardInv
  <2>6. AloneInv
    BY DEF Init, AloneInv, Accepted
  <2>7. CrashCause
    BY DEF Init, CrashCause, Alive
  <2>8. QED
    BY <2>1, <2>2, <2>3, <2>4, <2>5, <2>6, <2>7 DEF IInv
<1>2. IInv /\ [Next]_vars => IInv'
  <2> SUFFICES ASSUME IInv, [Next]_vars
               PROVE  IInv'
    OBVIOUS
  <2>1. /\ TypeInv /\ OrderInv /\ StartInv /\ OverlapInv /\ ForwardInv /\ AloneInv
        /\ CrashCause
    BY DEF IInv
  <2>2. TypeInv'
    <3>1. CASE UNCHANGED vars
      BY <2>1, <3>1 DEF vars, fields, locals, netVars, histVars, TypeInv, TypeOK, SocketKnown
    <3>2. QED
      BY <2>1, <3>1, ServerType, ThreadType, ClientType DEF Next
  <2>3. QED
    BY <2>1, <2>2, OrderStep, StartStep, OverlapStep, ForwardStep, AloneStep, CrashCauseStep
       DEF IInv
<1>3. QED
  BY <1>1, <1>2, PTL DEF Spec

(***************************************************************************)
(* What follows from it.                                                   *)
(***************************************************************************)

\* A client whose thread met no other gets one answer, its own, and its
\* connection is closed: the shared fields do harm only where threads overlap.
THEOREM AloneIsRight == Spec => []AloneServedRight
<1>1. IInv => AloneServedRight
  <2> SUFFICES ASSUME IInv, NEW c \in Clients, Alive, pc[c] = "done", c \notin overlapped
               PROVE  /\ replies[c] = {[by |-> c, greeting |-> c,
                                          text |-> IF c \in sent THEN c ELSE None]}
                      /\ c \in closed
    BY DEF AloneServedRight
  <2>1. c \in Accepted \ overlapped
    BY DEF IInv, StartInv
  <2>2. Alone(c)
    BY <2>1 DEF IInv, AloneInv
  <2>3. QED
    BY <2>2 DEF Alone, Answered, Quoted
<1>2. QED
  BY <1>1, Inductive, PTL

\* An answer goes to the client of the thread that wrote it or to a later one.
THEOREM ForwardOnly == Spec => []AnswersForward
<1>1. IInv => AnswersForward
  <2> SUFFICES ASSUME IInv, NEW c \in Clients, NEW r \in replies[c]
               PROVE  Position(r.by) <= Position(c)
    BY DEF AnswersForward
  <2>1. PICK i, j \in 1..Len(accepted) : i <= j /\ accepted[i] = r.by /\ accepted[j] = c
    BY DEF IInv, ForwardInv
  <2>2. DOMAIN accepted = 1..Len(accepted)
    BY DEF IInv, TypeInv, TypeOK
  <2>3. ASSUME NEW k \in 1..Len(accepted)
        PROVE  Position(accepted[k]) = k
    <3>1. \A m \in 1..Len(accepted) : accepted[m] = accepted[k] => m = k
      BY DEF IInv, OrderInv
    <3>2. QED
      BY <2>2, <3>1 DEF Position
  <2>4. QED
    BY <2>1, <2>3
<1>2. QED
  BY <1>1, Inductive, PTL

\* The process dies only after threads overlapped or a client reset.
THEOREM CrashExplained == Spec => []CrashCause
<1>1. IInv => CrashCause
  BY DEF IInv
<1>2. QED
  BY <1>1, Inductive, PTL

\* A connection that no thread is left to close belongs to an overlap.
THEOREM LeakExplained == Spec => []LeakCause
<1>1. IInv => LeakCause
  <2> SUFFICES ASSUME IInv, Alive, main = "accept", Threads = {},
                      NEW c \in ToSet(accepted) \ closed
               PROVE  c \in overlapped
    BY DEF LeakCause
  <2>1. accepted \in Seq(Clients)
    BY DEF IInv, TypeInv, TypeOK
  <2>2. c \in Accepted /\ c \in Clients
    BY <2>1 DEF ToSet, Accepted
  <2>3. pc[c] # "none"
    BY <2>2 DEF IInv, StartInv
  <2>4. pc[c] = "done"
    BY <2>2, <2>3 DEF Threads, IInv, TypeInv, TypeOK
  <2>5. QED
    BY <2>2, <2>4 DEF IInv, AloneInv, Alone
<1>2. QED
  BY <1>1, Inductive, PTL
=============================================================================
