--------------------------- MODULE Server6Proofs ---------------------------
(***************************************************************************)
(* Proofs about Server6, for every set of clients and every limit, and for *)
(* server6.c and server66.c alike.                                         *)
(***************************************************************************)
EXTENDS Server6, FiniteSetTheorems, TLAPS

\* Closing the listening port leaves the queue and the clients well typed.
LEMMA ReleasePortType ==
  ASSUME TypeOK, NEW last \in BOOLEAN, ReleasePort(last)
  PROVE  queue' \in Seq(Clients) /\ client' \in [Clients -> ClientStates]
<1>1. CASE last
  <2>1. queue' = <<>>
    BY <1>1 DEF ReleasePort
  <2>2. queue' \in Seq(Clients)
    BY <2>1
  <2>3. client' = [c \in Clients |-> IF c \in Queued THEN "reset" ELSE client[c]]
    BY <1>1 DEF ReleasePort
  <2>4. client' \in [Clients -> ClientStates]
    BY <2>3 DEF TypeOK, ClientStates
  <2>5. QED
    BY <2>2, <2>4
<1>2. CASE ~last
  BY <1>2 DEF ReleasePort, TypeOK
<1>3. QED
  BY <1>1, <1>2

\* The exit of the server keeps the types.
LEMMA ExitServerType ==
  ASSUME TypeOK, ExitServer
  PROVE  TypeOK'
<1>1. queue' \in Seq(Clients) /\ client' \in [Clients -> ClientStates]
  BY ReleasePortType DEF ExitServer
<1>2. child' \in [Clients -> ChildStates]
  BY DEF TypeOK, ExitServer, ChildStates, Ended, Live
<1>3. QED
  BY <1>1, <1>2 DEF TypeOK, ExitServer, sigVars, envVars, ParentStates

\* A new child keeps the types.
LEMMA SpawnType ==
  ASSUME TypeOK, c_sd \in Clients, NEW state \in ChildStates, Spawn(state)
  PROVE  /\ child' \in [Clients -> ChildStates]
         /\ cfds' \in [Clients -> SUBSET Clients]
         /\ listens' \in SUBSET Clients
BY DEF TypeOK, Spawn

\* Every step of the parent keeps the types.
LEMMA ParentType ==
  ASSUME TypeOK, Parent
  PROVE  TypeOK'
<1> USE DEF procVars, sigVars, netVars, envVars, ParentStates
<1>1. CASE AcceptClient
  <2>1. queue' \in Seq(Clients) /\ c_sd' \in Clients
    BY <1>1 DEF AcceptClient, TypeOK
  <2>2. c_sd' # NoClient
    BY <2>1, ServerAssumption
  <2>3. pfds' \in SUBSET Clients
    BY <1>1, <2>1 DEF AcceptClient, TypeOK
  <2>4. QED
    BY <1>1, <2>1, <2>2, <2>3 DEF AcceptClient, TypeOK
<1>2. CASE CloneChild
  <2>1. c_sd \in Clients
    BY <1>2 DEF CloneChild, TypeOK
  <2>2. "serving" \in ChildStates
    BY DEF ChildStates, Live
  <2>3. Spawn("serving")
    BY <1>2 DEF CloneChild
  <2>4. QED
    BY <1>2, <2>1, <2>2, <2>3, SpawnType, ServerAssumption DEF CloneChild, TypeOK
<1>3. CASE ForkChild
  <2>1. c_sd \in Clients
    BY <1>3 DEF ForkChild, TypeOK
  <2>2. "forked" \in ChildStates
    BY DEF ChildStates, Live
  <2>3. Spawn("forked")
    BY <1>3 DEF ForkChild
  <2>4. QED
    BY <1>3, <2>1, <2>2, <2>3, SpawnType, ServerAssumption DEF ForkChild, TypeOK
<1>4. CASE AcceptFails \/ ForkFails \/ WaitFails
  BY <1>4, ExitServerType DEF AcceptFails, ForkFails, WaitFails
<1>5. CASE CloneFails \/ SleepThenWait
  BY <1>5 DEF CloneFails, SleepThenWait, TypeOK
<1>6. CASE SleepThenAccept \/ CloseInParent
  BY <1>6 DEF SleepThenAccept, CloseInParent, TypeOK
<1>7. CASE WaitEnded
  BY <1>7 DEF WaitEnded, TypeOK, ChildStates, Ended
<1>8. CASE WaitAgain
  BY <1>8 DEF WaitAgain, TypeOK
<1>9. QED
  BY <1>1, <1>2, <1>3, <1>4, <1>5, <1>6, <1>7, <1>8 DEF Parent

\* The end of a child keeps the types.
LEMMA EndChildType ==
  ASSUME TypeOK, NEW c \in Clients, EndChild(c)
  PROVE  TypeOK'
<1>1. queue' \in Seq(Clients) /\ client' \in [Clients -> ClientStates]
  BY ReleasePortType DEF EndChild
<1>2. child' \in [Clients -> ChildStates]
  BY DEF TypeOK, EndChild, ChildStates, Ended, Live
<1>3. QED
  BY <1>1, <1>2 DEF TypeOK, EndChild, sigVars, envVars

\* Every step of a child keeps the types.
LEMMA ChildType ==
  ASSUME TypeOK, NEW c \in Clients, Child(c)
  PROVE  TypeOK'
<1> USE DEF procVars, sigVars, netVars, envVars
<1>1. CASE CloseListener(c)
  <2>1. queue' \in Seq(Clients) /\ client' \in [Clients -> ClientStates]
    BY <1>1, ReleasePortType DEF CloseListener
  <2>2. child' \in [Clients -> ChildStates]
    BY <1>1 DEF TypeOK, CloseListener, ChildStates, Live
  <2>3. QED
    BY <1>1, <2>1, <2>2 DEF TypeOK, CloseListener
<1>2. CASE EchoRound(c)
  <2>1. total' \in [Clients -> 0..MaxSend]
    <3>1. PICK n \in 1..BufLen : total[c] + n <= sent[c]
                                 /\ total' = [total EXCEPT ![c] = @ + n]
      BY <1>2 DEF EchoRound
    <3>2. total[c] + n \in 0..MaxSend
      BY <3>1, ServerAssumption DEF TypeOK
    <3>3. QED
      BY <3>1, <3>2 DEF TypeOK
  <2>2. QED
    BY <1>2, <2>1 DEF TypeOK, EchoRound
<1>3. CASE LeaveHandler(c)
  BY <1>3 DEF LeaveHandler, TypeOK, ChildStates, Live
<1>4. CASE KilledBySend(c) \/ ExitChild(c)
  BY <1>4, EndChildType DEF KilledBySend, ExitChild
<1>5. QED
  BY <1>1, <1>2, <1>3, <1>4 DEF Child

\* Every step of a client, and every signal, keeps the types.
LEMMA EnvironmentType ==
  ASSUME TypeOK, NEW c \in Clients, Environment(c)
  PROVE  TypeOK'
<1> USE DEF procVars, sigVars, netVars, envVars
<1>1. CASE Connect(c)
  BY <1>1 DEF Connect, TypeOK, ClientStates
<1>2. CASE Send(c)
  <2>1. sent' \in [Clients -> 0..MaxSend]
    BY <1>2, ServerAssumption DEF Send, TypeOK
  <2>2. QED
    BY <1>2, <2>1 DEF Send, TypeOK
<1>3. CASE Close(c) \/ Reset(c)
  BY <1>3 DEF Close, Reset, TypeOK, ClientStates
<1>4. CASE Stop(c)
  <2>1. stops' \in 0..MaxStops
    BY <1>4, ServerAssumption DEF Stop, TypeOK
  <2>2. QED
    BY <1>4, <2>1 DEF Stop, TypeOK
<1>5. CASE Continue(c)
  BY <1>5 DEF Continue, TypeOK
<1>6. QED
  BY <1>1, <1>2, <1>3, <1>4, <1>5 DEF Environment

\* The types hold in every state the server and its children can reach.
THEOREM TypeCorrect == Spec => []TypeOK
<1>1. Init => TypeOK
  BY ServerAssumption DEF Init, TypeOK, ParentStates, ChildStates, ClientStates
<1>2. TypeOK /\ [Next]_vars => TypeOK'
  <2>1. CASE UNCHANGED vars
    BY <2>1 DEF vars, procVars, sigVars, netVars, envVars, TypeOK
  <2>2. QED
    BY <2>1, ParentType, ChildType, EnvironmentType DEF Next
<1>3. QED
  BY <1>1, <1>2, PTL DEF Spec

(***************************************************************************)
(* The inductive invariant, in five parts.                                 *)
(***************************************************************************)

\* Who is running: server6.c has no child but c_sd's between the spawn and
\* the wait, and none before.
WaitInv ==
    /\ pc = "wait" => Reaps
    /\ pc \in {"close", "sleep", "wait"} /\ child[c_sd] = "reaped" => ignoreChld
    /\ Reaps /\ pc \in {"accept", "clone", "fork"} => Processes = {}
    /\ Reaps /\ pc \in {"close", "sleep", "wait"} => Processes \subseteq {c_sd}
    /\ Reaps => \A c, d \in Processes : c = d

\* A connection is accepted once, and served by no child before its spawn.
FreshInv ==
    /\ \A i, j \in 1..Len(queue) : queue[i] = queue[j] => i = j
    /\ \A i \in 1..Len(queue) : child[queue[i]] = "none"
    /\ \A i \in 1..Len(queue) : client[queue[i]] # "idle" /\ queue[i] # c_sd
    /\ c_sd # NoClient => client[c_sd] # "idle"
    /\ pc \in {"clone", "fork"} => child[c_sd] = "none"
    /\ \A c \in Clients : child[c] # "none" => client[c] # "idle"

\* Which descriptors there are: the leaked ones are what clone leaves, and a
\* child inherits nothing else besides its own connection.
DescriptorInv ==
    /\ DescriptorAccount
    /\ pc = "exited" => pfds = {}
    /\ \A c \in Clients : cfds[c] \subseteq cloned \cup {c}
    /\ \A c \in Clients : child[c] \in Ended => c \notin cfds[c]
    /\ \A c \in cloned : child[c] # "none"
    /\ pc = "close" => c_sd \notin cloned

\* Only a running child holds a connection or the port.
HoldersInv == \A c \in Clients : child[c] \notin Live => cfds[c] = {} /\ c \notin listens

\* So what holds anything when server6.c exits is a child, and there is none.
CleanInv == HoldersInv /\ (Reaps /\ pc = "exited" => Processes = {} /\ queue = <<>>)

IInv == WaitInv /\ FreshInv /\ DescriptorInv /\ CleanInv /\ ExitCause

\* WaitInv is kept by the parent: only ForkChild and CloneChild add a process,
\* where server6.c has none, and only WaitEnded returns to accept there.
LEMMA WaitParent ==
  ASSUME TypeOK, WaitInv, Parent
  PROVE  WaitInv'
<1> USE DEF TypeOK, WaitInv, Processes
<1>1. ASSUME NEW state \in {"forked", "serving"}, Spawn(state), c_sd \in Clients
      PROVE  /\ Processes' = Processes \cup {c_sd}
             /\ child'[c_sd] # "reaped"
  BY <1>1 DEF Spawn, Live
<1>2. ASSUME ExitServer
      PROVE  WaitInv'
  <2>1. pc' = "exited" /\ Processes' \subseteq Processes
    BY <1>2 DEF ExitServer, Live
  <2>2. QED
    BY <2>1
<1>3. CASE AcceptClient \/ CloneFails
  <2>1. Processes' = Processes
    BY <1>3 DEF AcceptClient, CloneFails, procVars
  <2>2. pc \in {"accept", "clone"} /\ pc' \in {"clone", "fork"}
    BY <1>3 DEF AcceptClient, CloneFails
  <2>3. QED
    BY <2>1, <2>2
<1>4. CASE CloneChild
  <2>1. c_sd \in Clients /\ pc = "clone" /\ pc' = "sleep" /\ c_sd' = c_sd
    BY <1>4 DEF CloneChild
  <2>2. Processes' = Processes \cup {c_sd} /\ child'[c_sd] # "reaped"
    BY <1>1, <1>4, <2>1 DEF CloneChild
  <2>3. QED
    BY <2>1, <2>2
<1>5. CASE ForkChild
  <2>1. c_sd \in Clients /\ pc = "fork" /\ pc' = "close" /\ c_sd' = c_sd
    BY <1>5 DEF ForkChild
  <2>2. Processes' = Processes \cup {c_sd} /\ child'[c_sd] # "reaped"
    BY <1>1, <1>5, <2>1 DEF ForkChild
  <2>3. QED
    BY <2>1, <2>2
<1>6. CASE AcceptFails \/ ForkFails \/ WaitFails
  BY <1>2, <1>6 DEF AcceptFails, ForkFails, WaitFails
<1>7. CASE CloseInParent \/ SleepThenWait
  BY <1>7 DEF CloseInParent, SleepThenWait, procVars, envVars
<1>8. CASE SleepThenAccept
  BY <1>8 DEF SleepThenAccept, procVars, envVars
<1>9. CASE WaitEnded
  <2>1. c_sd \in Clients /\ pc = "wait" /\ pc' = "accept" /\ Reaps
    BY <1>9 DEF WaitEnded
  <2>2. Processes' = Processes \ {c_sd}
    BY <1>9, <2>1 DEF WaitEnded, Live, ChildStates
  <2>3. QED
    BY <2>1, <2>2
<1>10. CASE WaitAgain
  BY <1>10 DEF WaitAgain, procVars, envVars
<1>11. QED
  BY <1>3, <1>4, <1>5, <1>6, <1>7, <1>8, <1>9, <1>10 DEF Parent

\* WaitInv is kept by the rest: a child only ends, and is reaped without its
\* parent's wait only where SIGCHLD is ignored or the parent is gone.
LEMMA WaitOther ==
  ASSUME TypeOK, WaitInv, NEW c \in Clients, Child(c) \/ Environment(c)
  PROVE  WaitInv'
<1> USE DEF TypeOK, WaitInv
<1>1. UNCHANGED <<pc, c_sd, ignoreChld>>
  BY DEF Child, CloseListener, EchoRound, LeaveHandler, KilledBySend, ExitChild,
         EndChild, Environment, Connect, Send, Close, Reset, Stop, Continue, envVars
<1>2. \/ child' = child
      \/ child' = [child EXCEPT ![c] = "serving"] /\ child[c] = "forked"
      \/ child' = [child EXCEPT ![c] = "closing"] /\ child[c] = "serving"
      \/ child' = [child EXCEPT ![c] = "zombie"] /\ child[c] \in Live
      \/ /\ child' = [child EXCEPT ![c] = "reaped"] /\ child[c] \in Live
         /\ ignoreChld \/ pc = "exited"
  BY DEF Child, CloseListener, EchoRound, LeaveHandler, KilledBySend, ExitChild,
         EndChild, Running, Live, Environment, Connect, Send, Close, Reset, Stop,
         Continue, procVars
<1>3. Processes' \subseteq Processes
  BY <1>2 DEF Processes, Live
<1>4. c_sd \in Clients /\ child'[c_sd] = "reaped" /\ pc # "exited"
        => child[c_sd] = "reaped" \/ ignoreChld
  BY <1>2
<1>5. QED
  BY <1>1, <1>3, <1>4

\* Closing the port empties the queue and makes no client idle.
LEMMA ReleasePortFresh ==
  ASSUME TypeOK, NEW last \in BOOLEAN, ReleasePort(last)
  PROVE  /\ queue' = queue \/ queue' = <<>>
         /\ \A c \in Clients : client'[c] = client[c] \/ client'[c] = "reset"
BY DEF ReleasePort, TypeOK

\* FreshInv is kept by the parent: AcceptClient takes the head of the queue,
\* which occurs there once, and only a spawn gives a client a child.
LEMMA FreshParent ==
  ASSUME TypeOK, FreshInv, Parent
  PROVE  FreshInv'
<1> USE DEF TypeOK, procVars, sigVars, netVars, envVars
<1>1. CASE AcceptClient
  <2>1. /\ queue # <<>> /\ c_sd' = queue[1] /\ pc' = "clone"
        /\ Len(queue') = Len(queue) - 1 /\ queue' \in Seq(Clients)
        /\ \A i \in 1..Len(queue') : queue'[i] = queue[i + 1]
        /\ UNCHANGED <<child, client>>
    BY <1>1 DEF AcceptClient
  <2>3. Len(queue) \in Nat /\ Len(queue) > 0
    BY <2>1
  <2>4. \A i \in 1..Len(queue') : i + 1 \in 2..Len(queue) /\ queue'[i] = queue[i + 1]
    BY <2>1, <2>3
  <2>5. 1 \in 1..Len(queue) /\ 2..Len(queue) \subseteq 1..Len(queue)
    BY <2>3
  <2>6. \A i \in 1..Len(queue') : queue'[i] # c_sd'
    <3> TAKE i \in 1..Len(queue')
    <3>1. i + 1 # 1 /\ i + 1 \in 1..Len(queue)
      BY <2>4, <2>5
    <3>2. queue[i + 1] # queue[1]
      BY <3>1, <2>5 DEF FreshInv
    <3>3. QED
      BY <3>2, <2>1, <2>4
  <2>7. \A i, j \in 1..Len(queue') : queue'[i] = queue'[j] => i = j
    <3> TAKE i, j \in 1..Len(queue')
    <3>1. i + 1 = j + 1 => i = j
      OBVIOUS
    <3>2. i + 1 \in 1..Len(queue) /\ j + 1 \in 1..Len(queue)
      BY <2>4, <2>5
    <3>3. QED
      BY <3>1, <3>2, <2>4 DEF FreshInv
  <2>8. child[c_sd'] = "none" /\ client[c_sd'] # "idle"
    BY <2>1, <2>5 DEF FreshInv
  <2>9. QED
    <3>1. \A i \in 1..Len(queue') : child'[queue'[i]] = "none" /\ client'[queue'[i]] # "idle"
      <4> TAKE i \in 1..Len(queue')
      <4>1. i + 1 \in 1..Len(queue)
        BY <2>4, <2>5
      <4>2. QED
        BY <4>1, <2>1, <2>4 DEF FreshInv
    <3>2. \A c \in Clients : child'[c] # "none" => client'[c] # "idle"
      BY <2>1 DEF FreshInv
    <3>3. QED
      BY <3>1, <3>2, <2>1, <2>6, <2>7, <2>8 DEF FreshInv
<1>2. ASSUME NEW state \in {"forked", "serving"}, Spawn(state), c_sd \in Clients,
             pc \in {"clone", "fork"}, pc' \notin {"clone", "fork"},
             UNCHANGED <<c_sd, queue, client>>
      PROVE  FreshInv'
  <2>1. \A i \in 1..Len(queue) : queue[i] \in Clients /\ queue[i] # c_sd
    BY DEF FreshInv
  <2>2. c_sd # NoClient => client[c_sd] # "idle"
    BY DEF FreshInv
  <2>3. QED
    BY <1>2, <2>1, <2>2, ServerAssumption DEF FreshInv, Spawn
<1>3. CASE CloneChild
  BY <1>2, <1>3 DEF CloneChild
<1>4. CASE ForkChild
  BY <1>2, <1>4 DEF ForkChild
<1>5. ASSUME ExitServer
      PROVE  FreshInv'
  <2>1. /\ queue' = queue \/ queue' = <<>>
        /\ \A c \in Clients : client'[c] = client[c] \/ client'[c] = "reset"
    BY <1>5, ReleasePortFresh DEF ExitServer
  <2>2. \A c \in Clients : child[c] = "none" <=> child'[c] = "none"
    BY <1>5 DEF ExitServer
  <2>3. \A i \in 1..Len(queue) : queue[i] \in Clients
    OBVIOUS
  <2>4. pc' = "exited" /\ c_sd' = c_sd
    BY <1>5 DEF ExitServer
  <2>5. CASE queue' = queue
    <3>1. \A i \in 1..Len(queue) :
             child'[queue[i]] = "none" /\ client'[queue[i]] # "idle"
      BY <2>1, <2>2, <2>3 DEF FreshInv
    <3>2. c_sd # NoClient => client'[c_sd] # "idle"
      BY <2>1 DEF FreshInv
    <3>3. \A c \in Clients : child'[c] # "none" => client'[c] # "idle"
      BY <2>1, <2>2 DEF FreshInv
    <3> HIDE DEF TypeOK
    <3>4. QED
      BY <3>1, <3>2, <3>3, <2>4, <2>5 DEF FreshInv
  <2>6. CASE queue' = <<>>
    BY <2>1, <2>2, <2>4, <2>6 DEF FreshInv
  <2>7. QED
    BY <2>1, <2>5, <2>6
<1>6. CASE AcceptFails \/ ForkFails \/ WaitFails
  BY <1>5, <1>6 DEF AcceptFails, ForkFails, WaitFails
<1>7. CASE CloneFails \/ CloseInParent
  BY <1>7 DEF CloneFails, CloseInParent, FreshInv
<1>8. CASE SleepThenWait \/ SleepThenAccept \/ WaitAgain
  BY <1>8 DEF SleepThenWait, SleepThenAccept, WaitAgain, FreshInv
<1>9. CASE WaitEnded
  <2>1. c_sd \in Clients /\ child[c_sd] = "zombie"
    BY <1>9 DEF WaitEnded
  <2>2. \A c \in Clients : child[c] = "none" <=> child'[c] = "none"
    BY <1>9, <2>1 DEF WaitEnded
  <2>3. \A i \in 1..Len(queue) : queue[i] \in Clients
    OBVIOUS
  <2>4. pc' = "accept" /\ UNCHANGED <<c_sd, queue, client>>
    BY <1>9 DEF WaitEnded
  <2>5. QED
    BY <2>2, <2>3, <2>4 DEF FreshInv
<1>10. QED
  BY <1>1, <1>3, <1>4, <1>6, <1>7, <1>8, <1>9 DEF Parent

\* FreshInv is kept by the rest: only an idle client connects, and it is
\* neither queued, nor accepted, nor served.
LEMMA FreshOther ==
  ASSUME TypeOK, FreshInv, NEW c \in Clients, Child(c) \/ Environment(c)
  PROVE  FreshInv'
<1> USE DEF TypeOK, procVars, sigVars, netVars, envVars
<1>1. CASE Connect(c)
  <2>1. /\ client[c] = "idle" /\ client' = [client EXCEPT ![c] = "open"]
        /\ UNCHANGED <<pc, c_sd, child>>
    BY <1>1 DEF Connect
  <2>2. /\ Len(queue') = Len(queue) + 1 /\ Len(queue) \in Nat
        /\ queue'[Len(queue) + 1] = c
    BY <1>1 DEF Connect
  <2>3. child[c] = "none" /\ c # c_sd /\ \A i \in 1..Len(queue) : queue[i] # c
    <3> HIDE DEF TypeOK
    <3>1. QED
      BY <2>1, ServerAssumption DEF FreshInv
  <2>4. \A i \in 1..Len(queue') : \/ i \in 1..Len(queue) /\ queue'[i] = queue[i]
                                  \/ i = Len(queue) + 1 /\ queue'[i] = c
    BY <1>1 DEF Connect
  <2>5. \A i, j \in 1..Len(queue') : queue'[i] = queue'[j] => i = j
    BY <2>3, <2>4 DEF FreshInv
  <2>6. \A i \in 1..Len(queue') : /\ child[queue'[i]] = "none"
                                  /\ client'[queue'[i]] # "idle" /\ queue'[i] # c_sd
    <3> TAKE i \in 1..Len(queue')
    <3>1. CASE i \in 1..Len(queue) /\ queue'[i] = queue[i]
      <4>1. queue[i] \in Clients /\ queue[i] # c
        BY <3>1, <2>3
      <4>2. QED
        BY <3>1, <4>1, <2>1 DEF FreshInv
    <3>2. CASE queue'[i] = c
      BY <3>2, <2>1, <2>3
    <3>3. QED
      BY <3>1, <3>2, <2>4
  <2>7. QED
    BY <2>1, <2>3, <2>5, <2>6, ServerAssumption DEF FreshInv
<1>2. ASSUME UNCHANGED <<pc, c_sd>>,
             queue' = queue \/ queue' = <<>>,
             \A d \in Clients : client'[d] = "idle" <=> client[d] = "idle",
             \A d \in Clients : child'[d] = "none" <=> child[d] = "none"
      PROVE  FreshInv'
  <2>1. \A i \in 1..Len(queue) : queue[i] \in Clients
    OBVIOUS
  <2>2. /\ pc' \in {"clone", "fork"} => child'[c_sd'] = "none"
        /\ c_sd' # NoClient => client'[c_sd'] # "idle"
        /\ \A d \in Clients : child'[d] # "none" => client'[d] # "idle"
    BY <1>2 DEF FreshInv
  <2>3. CASE queue' = queue
    BY <1>2, <2>1, <2>2, <2>3 DEF FreshInv
  <2>4. CASE queue' = <<>>
    BY <2>2, <2>4 DEF FreshInv
  <2>5. QED
    BY <1>2, <2>3, <2>4
<1>3. CASE Send(c) \/ Stop(c) \/ Continue(c)
  BY <1>2, <1>3 DEF Send, Stop, Continue
<1>4. CASE Close(c) \/ Reset(c)
  BY <1>2, <1>4 DEF Close, Reset
<1>5. CASE EchoRound(c) \/ LeaveHandler(c)
  BY <1>2, <1>5 DEF EchoRound, LeaveHandler, Running
<1>6. ASSUME NEW last \in BOOLEAN, ReleasePort(last), UNCHANGED <<pc, c_sd>>,
             NEW state \in ChildStates \ {"none"}, child[c] # "none",
             child' = [child EXCEPT ![c] = state]
      PROVE  FreshInv'
  <2>1. /\ queue' = queue \/ queue' = <<>>
        /\ \A d \in Clients : client'[d] = client[d] \/ client'[d] = "reset"
    BY <1>6, ReleasePortFresh
  <2>2. \A d \in Clients : child'[d] = "none" <=> child[d] = "none"
    BY <1>6
  <2>3. \A i \in 1..Len(queue) : queue[i] \in Clients
    OBVIOUS
  <2>4. CASE queue' = queue
    BY <1>6, <2>1, <2>2, <2>3, <2>4 DEF FreshInv
  <2>5. CASE queue' = <<>>
    BY <1>6, <2>1, <2>2, <2>5 DEF FreshInv
  <2>6. QED
    BY <2>1, <2>4, <2>5
<1>7. CASE CloseListener(c)
  BY <1>6, <1>7 DEF CloseListener, Running, ChildStates, Live
<1>8. CASE KilledBySend(c) \/ ExitChild(c)
  <2>1. EndChild(c) /\ child[c] # "none"
    BY <1>8 DEF KilledBySend, ExitChild, Running
  <2>2. PICK state \in {"reaped", "zombie"} : child' = [child EXCEPT ![c] = state]
    BY <2>1 DEF EndChild
  <2>3. state \in ChildStates \ {"none"}
    BY DEF ChildStates, Ended
  <2>4. PICK last \in BOOLEAN : ReleasePort(last)
    BY <2>1 DEF EndChild
  <2>5. UNCHANGED <<pc, c_sd>>
    BY <2>1 DEF EndChild
  <2>6. QED
    BY <1>6, <2>1, <2>2, <2>3, <2>4, <2>5
<1>9. QED
  BY <1>1, <1>3, <1>4, <1>5, <1>7, <1>8 DEF Child, Environment

\* DescriptorInv is kept by the parent.  A child is given pfds: the leaked
\* descriptors and its own.
LEMMA DescriptorParent ==
  ASSUME TypeOK, FreshInv, DescriptorInv, Parent
  PROVE  DescriptorInv'
<1> USE DEF DescriptorInv, DescriptorAccount, procVars, sigVars, netVars, envVars
<1>1. CASE AcceptClient
  BY <1>1 DEF AcceptClient
<1>2. ASSUME NEW state \in {"forked", "serving"}, Spawn(state), c_sd \in Clients,
             pc \in {"clone", "fork"},
             cloned' = cloned \/ cloned' = cloned \cup {c_sd}
      PROVE  /\ \A c \in Clients : cfds'[c] \subseteq cloned' \cup {c}
             /\ \A c \in Clients : child'[c] \in Ended => c \notin cfds'[c]
             /\ \A c \in cloned' : child'[c] # "none"
             /\ c_sd \notin cloned
  <2>1. pfds = cloned \cup {c_sd}
    BY <1>2
  <2>2. \A c \in Clients \ {c_sd} : cfds'[c] = cfds[c] /\ child'[c] = child[c]
    BY <1>2 DEF Spawn, TypeOK
  <2>3. cfds'[c_sd] = pfds /\ child'[c_sd] \notin Ended \cup {"none"}
    BY <1>2 DEF Spawn, TypeOK, Ended
  <2>4. c_sd \notin cloned /\ cloned \subseteq Clients
    BY <1>2 DEF FreshInv, TypeOK
  <2>5. QED
    BY <1>2, <2>1, <2>2, <2>3, <2>4
<1>3. CASE CloneChild
  <2>1. /\ c_sd \in Clients /\ Spawn("serving") /\ cloned' = cloned \cup {c_sd}
        /\ pc = "clone"
    BY <1>3 DEF CloneChild, TypeOK
  <2>2. pfds' = cloned' /\ pc' = "sleep"
    BY <1>3 DEF CloneChild
  <2>3. QED
    BY <1>2, <2>1, <2>2
<1>4. CASE ForkChild
  <2>1. c_sd \in Clients /\ Spawn("forked") /\ cloned' = cloned /\ pc = "fork"
    BY <1>4 DEF ForkChild, TypeOK
  <2>2. pfds' = pfds /\ pc' = "close" /\ c_sd' = c_sd
    BY <1>4 DEF ForkChild
  <2>3. QED
    BY <1>2, <2>1, <2>2
<1>5. CASE CloseInParent
  BY <1>5 DEF CloseInParent
<1>6. ASSUME ExitServer
      PROVE  DescriptorInv'
  <2>1. pc' = "exited" /\ pfds' = {} /\ UNCHANGED <<cfds, cloned>>
    BY <1>6 DEF ExitServer
  <2>2. \A c \in Clients : /\ child'[c] \in Ended => child[c] \in Ended
                           /\ child'[c] = "none" <=> child[c] = "none"
    BY <1>6 DEF ExitServer, Ended
  <2>3. \A c \in cloned : c \in Clients
    BY DEF TypeOK
  <2>4. /\ \A c \in Clients : child'[c] \in Ended => c \notin cfds'[c]
        /\ \A c \in cloned' : child'[c] # "none"
    BY <2>1, <2>2, <2>3
  <2>5. QED
    BY <2>1, <2>4
<1>7. CASE AcceptFails \/ ForkFails \/ WaitFails
  BY <1>6, <1>7 DEF AcceptFails, ForkFails, WaitFails
<1>8. CASE CloneFails \/ SleepThenWait
  BY <1>8 DEF CloneFails, SleepThenWait
<1>9. CASE SleepThenAccept \/ WaitAgain
  BY <1>9 DEF SleepThenAccept, WaitAgain
<1>10. CASE WaitEnded
  <2>1. \A c \in Clients : /\ child'[c] \in Ended => child[c] \in Ended
                           /\ child'[c] = "none" <=> child[c] = "none"
    BY <1>10 DEF WaitEnded, TypeOK, Ended
  <2>2. pc = "wait" /\ pc' = "accept" /\ UNCHANGED <<c_sd, pfds, cfds, cloned>>
    BY <1>10 DEF WaitEnded
  <2>3. \A c \in cloned : c \in Clients
    BY DEF TypeOK
  <2>4. /\ \A c \in Clients : child'[c] \in Ended => c \notin cfds'[c]
        /\ \A c \in cloned' : child'[c] # "none"
    BY <2>1, <2>2, <2>3
  <2>5. QED
    BY <2>2, <2>4
<1>11. QED
  BY <1>1, <1>3, <1>4, <1>5, <1>7, <1>8, <1>9, <1>10 DEF Parent

\* DescriptorInv is kept by the rest: a child only gives descriptors back, its
\* own connection's before it counts as ended.
LEMMA DescriptorOther ==
  ASSUME TypeOK, DescriptorInv, NEW c \in Clients, Child(c) \/ Environment(c)
  PROVE  DescriptorInv'
<1>1. UNCHANGED <<pc, c_sd, pfds, cloned>>
  BY DEF Child, CloseListener, EchoRound, LeaveHandler, KilledBySend, ExitChild, EndChild,
         Environment, Connect, Send, Close, Reset, Stop, Continue, procVars
<1>2. \/ UNCHANGED <<child, cfds>>
      \/ child' = [child EXCEPT ![c] = "serving"] /\ cfds' = cfds
      \/ child' = [child EXCEPT ![c] = "closing"] /\ cfds' = [cfds EXCEPT ![c] = @ \ {c}]
      \/ child' = [child EXCEPT ![c] = "zombie"] /\ cfds' = [cfds EXCEPT ![c] = {}]
      \/ child' = [child EXCEPT ![c] = "reaped"] /\ cfds' = [cfds EXCEPT ![c] = {}]
  BY DEF Child, CloseListener, EchoRound, LeaveHandler, KilledBySend, ExitChild, EndChild,
         Environment, Connect, Send, Close, Reset, Stop, Continue, procVars
<1>3. /\ \A d \in Clients : cfds'[d] \subseteq cfds[d]
      /\ \A d \in Clients : child'[d] = "none" => child[d] = "none"
      /\ \A d \in Clients : child'[d] \in Ended => d \notin cfds'[d]
  <2>1. \A d \in Clients \ {c} : child'[d] = child[d] /\ cfds'[d] = cfds[d]
    BY <1>2 DEF TypeOK
  <2>2. /\ cfds'[c] \subseteq cfds[c]
        /\ child'[c] = "none" => child[c] = "none"
        /\ child'[c] \in Ended => c \notin cfds'[c]
    BY <1>2 DEF TypeOK, DescriptorInv, Ended
  <2>3. QED
    BY <2>1, <2>2 DEF DescriptorInv
<1>4. QED
  BY <1>1, <1>3 DEF DescriptorInv, DescriptorAccount, TypeOK

\* CleanInv is kept by the parent.  A spawn makes a running child; every way out
\* finds none, by WaitInv, and so the last descriptor of the port goes with it.
LEMMA CleanParent ==
  ASSUME TypeOK, WaitInv, CleanInv, Parent
  PROVE  CleanInv'
<1> USE DEF TypeOK
<1>1. ASSUME ExitServer, Reaps => Processes = {}
      PROVE  CleanInv'
  <2>1. \A c \in Clients : child'[c] \in Live <=> child[c] \in Live
    BY <1>1 DEF ExitServer, Live
  <2>2. HoldersInv'
    BY <1>1, <2>1 DEF ExitServer, CleanInv, HoldersInv
  <2>3. ASSUME Reaps
        PROVE  Processes' = {} /\ queue' = <<>>
    <3>1. \A c \in Clients : child[c] \notin Live \cup {"zombie"}
      BY <1>1, <2>3 DEF Processes
    <3>2. Processes' = {}
      BY <1>1, <3>1 DEF ExitServer, Processes
    <3>3. listens = {}
      BY <3>1 DEF CleanInv, HoldersInv
    <3>4. QED
      BY <1>1, <3>2, <3>3 DEF ExitServer, ReleasePort
  <2>4. QED
    BY <2>2, <2>3 DEF CleanInv
<1>2. CASE AcceptFails \/ ForkFails \/ WaitFails
  <2>1. ExitServer
    BY <1>2 DEF AcceptFails, ForkFails, WaitFails
  <2>2. ASSUME Reaps
        PROVE  Processes = {}
    <3>1. CASE pc \in {"accept", "fork"}
      BY <2>2, <3>1 DEF WaitInv
    <3>2. CASE WaitFails
      BY <2>2, <3>2 DEF WaitInv, WaitFails, Processes, Live
    <3>3. QED
      BY <1>2, <3>1, <3>2 DEF AcceptFails, ForkFails
  <2>3. QED
    BY <1>1, <2>1, <2>2
<1>3. CASE CloneChild \/ ForkChild
  <2>1. c_sd \in Clients /\ pc' # "exited"
    BY <1>3 DEF CloneChild, ForkChild
  <2>2. PICK state \in {"serving", "forked"} : Spawn(state)
    BY <1>3 DEF CloneChild, ForkChild
  <2>3. /\ child'[c_sd] \in Live
        /\ \A c \in Clients \ {c_sd} :
              child'[c] = child[c] /\ cfds'[c] = cfds[c] /\ (c \in listens' <=> c \in listens)
    BY <2>1, <2>2 DEF Spawn, Live
  <2>4. QED
    BY <2>1, <2>3 DEF CleanInv, HoldersInv
<1>4. CASE WaitEnded
  <2>1. c_sd \in Clients /\ pc' # "exited" /\ cfds' = cfds /\ listens' = listens
    BY <1>4 DEF WaitEnded
  <2>2. \A c \in Clients : child'[c] \in Live <=> child[c] \in Live
    BY <1>4, <2>1 DEF WaitEnded, Live
  <2>3. QED
    BY <2>1, <2>2 DEF CleanInv, HoldersInv
<1>5. CASE AcceptClient \/ CloneFails \/ CloseInParent \/ SleepThenWait
           \/ SleepThenAccept \/ WaitAgain
  <2>1. pc' # "exited" /\ UNCHANGED procVars
    BY <1>5 DEF AcceptClient, CloneFails, CloseInParent, SleepThenWait, SleepThenAccept,
                WaitAgain
  <2>2. QED
    BY <2>1 DEF procVars, CleanInv, HoldersInv
<1>6. QED
  BY <1>2, <1>3, <1>4, <1>5 DEF Parent

\* CleanInv is kept by the rest: a child that ends gives up all it holds, and
\* after an exit that left nothing behind there is none, and no connection.
LEMMA CleanOther ==
  ASSUME TypeOK, CleanInv, NEW c \in Clients, Child(c) \/ Environment(c)
  PROVE  CleanInv'
<1> USE DEF TypeOK
<1>1. CASE Environment(c)
  <2>1. pc' = pc /\ child' = child /\ cfds' = cfds /\ listens' = listens
    BY <1>1 DEF Environment, Connect, Send, Close, Reset, Stop, Continue, procVars
  <2>2. Processes' = Processes /\ HoldersInv'
    BY <2>1 DEF Processes, CleanInv, HoldersInv
  <2>3. queue' = queue \/ Listening
    BY <1>1 DEF Environment, Connect, Send, Close, Reset, Stop, Continue, netVars
  <2>4. Processes = {} /\ pc = "exited" => ~Listening
    <3>1. Processes = {} => \A d \in Clients : child[d] \notin Live
      BY DEF Processes
    <3>2. QED
      BY <3>1 DEF CleanInv, HoldersInv, Listening
  <2>5. QED
    BY <2>1, <2>2, <2>3, <2>4 DEF CleanInv
<1>2. CASE Child(c)
  <2>1. child[c] \in Live /\ pc' = pc
    BY <1>2 DEF Child, CloseListener, EchoRound, LeaveHandler, KilledBySend, ExitChild,
                EndChild, Running, Live
  <2>2. c \in Processes
    BY <2>1 DEF Processes
  <2>3. HoldersInv'
    <3>1. CASE CloseListener(c)
      BY <3>1 DEF CloseListener, CleanInv, HoldersInv, Live
    <3>2. CASE EchoRound(c)
      BY <3>2 DEF EchoRound, procVars, CleanInv, HoldersInv
    <3>3. CASE LeaveHandler(c)
      BY <3>3 DEF LeaveHandler, CleanInv, HoldersInv, Live
    <3>4. CASE KilledBySend(c) \/ ExitChild(c)
      BY <3>4 DEF KilledBySend, ExitChild, EndChild, CleanInv, HoldersInv, Live
    <3>5. QED
      BY <1>2, <3>1, <3>2, <3>3, <3>4 DEF Child
  <2>4. QED
    BY <2>1, <2>2, <2>3 DEF CleanInv
<1>3. QED
  BY <1>1, <1>2

\* Clients that have, or had, a child.
Served == {c \in Clients : child[c] # "none"}

\* The processes the parent has are among the children ever made, so their
\* number, and the number of cloned children, are numbers that can be compared.
LEMMA ProcessesServed ==
  ASSUME TypeOK
  PROVE  /\ IsFiniteSet(Processes) /\ IsFiniteSet(Served) /\ IsFiniteSet(cloned)
         /\ Cardinality(Processes) \in Nat /\ Cardinality(Served) \in Nat
         /\ Cardinality(Processes) <= Cardinality(Served)
         /\ Cardinality(cloned) \in Nat
<1>1. Processes \subseteq Served /\ Served \subseteq Clients /\ cloned \subseteq Clients
  BY DEF Processes, Served, Live, TypeOK
<1>2. IsFiniteSet(Clients)
  BY ServerAssumption
<1>3. IsFiniteSet(Processes) /\ IsFiniteSet(Served) /\ IsFiniteSet(cloned)
  BY <1>1, <1>2, FS_Subset
<1>4. QED
  BY <1>1, <1>3, FS_Subset, FS_CardinalityType

\* ExitCause is kept: each exit finds its cause.  AcceptFails counts the leaked
\* descriptors; ForkFails counts children, of which server6.c has none; and
\* WaitFails meets a child nobody waited for.
LEMMA ExitStep ==
  ASSUME TypeOK, IInv, [Next]_vars
  PROVE  ExitCause'
<1> DEFINE Cause == \/ Cardinality(cloned) >= MaxFds
                    \/ ~Reaps /\ Cardinality(Served) >= MaxProcs
                    \/ Reaps /\ ignoreChld
<1>1. ASSUME ExitServer, Cause
      PROVE  ExitCause'
  <2>1. cloned' = cloned /\ ignoreChld' = ignoreChld
    BY <1>1 DEF ExitServer, envVars
  <2>2. Served' = Served
    BY <1>1 DEF ExitServer, Served, TypeOK
  <2>3. QED
    BY <1>1, <2>1, <2>2 DEF ExitCause, Served
<1>2. ASSUME pc' # "exited"
      PROVE  ExitCause'
  BY <1>2 DEF ExitCause
<1>3. CASE AcceptFails
  <2>1. pfds = cloned
    BY <1>3 DEF AcceptFails, IInv, DescriptorInv, DescriptorAccount
  <2>2. QED
    BY <1>1, <1>3, <2>1 DEF AcceptFails
<1>4. CASE ForkFails
  <2>1. Cardinality(Processes) >= MaxProcs /\ ExitServer /\ pc = "fork"
    BY <1>4 DEF ForkFails
  <2>2. CASE Reaps
    <3>1. Processes = {}
      BY <2>1, <2>2 DEF IInv, WaitInv
    <3>2. Cardinality(Processes) = 0
      BY <3>1, FS_EmptySet
    <3>3. MaxProcs \in Nat \ {0}
      BY ServerAssumption
    <3>4. QED
      BY <2>1, <3>2, <3>3
  <2>3. CASE ~Reaps
    <3>1. MaxProcs \in Nat
      BY ServerAssumption
    <3>2. Cardinality(Served) >= MaxProcs
      BY <2>1, <3>1, ProcessesServed
    <3>3. QED
      BY <1>1, <2>1, <2>3, <3>2
  <2>4. QED
    BY <2>2, <2>3
<1>5. CASE WaitFails
  <2>1. Reaps /\ ignoreChld
    BY <1>5 DEF WaitFails, IInv, WaitInv
  <2>2. QED
    BY <1>1, <1>5, <2>1 DEF WaitFails
<1>6. CASE Parent
  <2>1. \/ AcceptFails \/ ForkFails \/ WaitFails
        \/ pc' # "exited"
    BY <1>6 DEF Parent, AcceptClient, CloneChild, CloneFails, ForkChild, CloseInParent,
                SleepThenWait, SleepThenAccept, WaitEnded, WaitAgain
  <2>2. QED
    BY <1>2, <1>3, <1>4, <1>5, <2>1
<1>7. ASSUME pc' = pc, cloned' = cloned, ignoreChld' = ignoreChld, Served' = Served
      PROVE  ExitCause'
  BY <1>7 DEF IInv, ExitCause, Served
<1>8. ASSUME NEW c \in Clients, Child(c) \/ Environment(c)
      PROVE  ExitCause'
  <2>1. pc' = pc /\ cloned' = cloned /\ ignoreChld' = ignoreChld
    BY <1>8 DEF Child, CloseListener, EchoRound, LeaveHandler, KilledBySend, ExitChild,
         EndChild, Environment, Connect, Send, Close, Reset, Stop, Continue, procVars, envVars
  <2>2. \/ child' = child
        \/ /\ child[c] # "none"
           /\ \E state \in {"serving", "closing", "zombie", "reaped"} :
                 child' = [child EXCEPT ![c] = state]
    BY <1>8 DEF Child, CloseListener, EchoRound, LeaveHandler, KilledBySend, ExitChild,
         EndChild, Running, Environment, Connect, Send, Close, Reset, Stop, Continue, procVars
  <2>3. Served' = Served
    BY <2>2 DEF Served, TypeOK
  <2>4. QED
    BY <1>7, <2>1, <2>3
<1>9. CASE UNCHANGED vars
  BY <1>7, <1>9 DEF vars, procVars, envVars, Served
<1>10. QED
  BY <1>6, <1>8, <1>9 DEF Next

-----------------------------------------------------------------------------
\* The inductive invariant holds in every reachable state.
THEOREM Inductive == Spec => [](TypeOK /\ IInv)
<1>1. Init => IInv
  <2> SUFFICES ASSUME Init PROVE IInv
    OBVIOUS
  <2>1. WaitInv
    BY DEF Init, WaitInv, Processes, Live
  <2>2. FreshInv
    BY DEF Init, FreshInv
  <2>3. DescriptorInv
    BY DEF Init, DescriptorInv, DescriptorAccount, Ended
  <2>4. CleanInv /\ ExitCause
    BY DEF Init, CleanInv, HoldersInv, ExitCause
  <2>5. QED
    BY <2>1, <2>2, <2>3, <2>4 DEF IInv
<1>2. TypeOK /\ IInv /\ [Next]_vars => IInv'
  <2> SUFFICES ASSUME TypeOK, IInv, [Next]_vars PROVE IInv'
    OBVIOUS
  <2>1. WaitInv' /\ FreshInv' /\ DescriptorInv' /\ CleanInv'
    <3>1. CASE UNCHANGED vars
      BY <3>1 DEF IInv, WaitInv, FreshInv, DescriptorInv, DescriptorAccount, CleanInv,
                  HoldersInv, Processes, vars, procVars, sigVars, netVars, envVars
    <3>2. QED
      BY <3>1, WaitParent, WaitOther, FreshParent, FreshOther, DescriptorParent,
         DescriptorOther, CleanParent, CleanOther DEF IInv, Next
  <2>2. QED
    BY <2>1, ExitStep DEF IInv
<1>3. QED
  BY <1>1, <1>2, TypeCorrect, PTL DEF Spec

\* server6.c, whatever its clients do and whatever signals its children get,
\* never has two children, nor one while it is back at accept.
THEOREM OneChild == Spec => []OneChildAtATime
<1>1. TypeOK /\ IInv => OneChildAtATime
  BY DEF IInv, WaitInv, OneChildAtATime
<1>2. QED
  BY <1>1, Inductive, PTL

\* Every descriptor main keeps between two clients is one a clone leaked.
THEOREM DescriptorsAccounted == Spec => []DescriptorAccount
<1>1. TypeOK /\ IInv => DescriptorAccount
  BY DEF IInv, DescriptorInv
<1>2. QED
  BY <1>1, Inductive, PTL

\* A forked child's client sees its connection closed when the child is done.
THEOREM ForkReleases == Spec => []ForkedReleased
<1>1. TypeOK /\ IInv => ForkedReleased
  <2> SUFFICES ASSUME TypeOK, IInv, NEW c \in Clients,
                      c \notin cloned, child[c] \in Ended, Held(c)
               PROVE  pc = "close" /\ c_sd = c
    BY DEF ForkedReleased
  <2>1. c \in pfds \/ \E d \in Clients : c \in cfds[d]
    BY DEF Held
  <2>2. CASE c \in pfds
    <3>1. pc \in {"clone", "fork", "close"} /\ c = c_sd
      BY <2>2 DEF IInv, DescriptorInv, DescriptorAccount
    <3>2. pc \notin {"clone", "fork"}
      BY <3>1 DEF IInv, FreshInv, Ended
    <3>3. QED
      BY <3>1, <3>2
  <2>3. ASSUME NEW d \in Clients, c \in cfds[d]
        PROVE  FALSE
    BY <2>3 DEF IInv, DescriptorInv
  <2>4. QED
    BY <2>1, <2>2, <2>3
<1>2. QED
  BY <1>1, Inductive, PTL

\* Whatever makes server6.c exit, no child, connection, listening socket or
\* waiting client is left.
THEOREM NothingLeftBehind == Spec => []CleanExit
<1>1. TypeOK /\ IInv => CleanExit
  <2> SUFFICES ASSUME TypeOK, IInv, Reaps, pc = "exited"
               PROVE  /\ Processes = {} /\ ~Listening
                      /\ \A c \in Clients : ~Held(c) /\ c \notin Queued
    BY DEF CleanExit
  <2>1. Processes = {} /\ queue = <<>> /\ HoldersInv
    BY DEF IInv, CleanInv
  <2>2. \A c \in Clients : cfds[c] = {} /\ c \notin listens
    BY <2>1 DEF HoldersInv, Processes
  <2>3. pfds = {} /\ listens = {} /\ Queued = {}
    BY <2>1, <2>2 DEF IInv, DescriptorInv, TypeOK, Queued
  <2>4. QED
    BY <2>1, <2>2, <2>3 DEF Listening, Held
<1>2. QED
  BY <1>1, Inductive, PTL

\* The server exits for one of three reasons, whatever the limits are.
THEOREM ExitExplained == Spec => []ExitCause
<1>1. TypeOK /\ IInv => ExitCause
  BY DEF IInv
<1>2. QED
  BY <1>1, Inductive, PTL
=============================================================================
